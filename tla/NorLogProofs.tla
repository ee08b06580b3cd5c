---------------------------- MODULE NorLogProofs ----------------------------
(***************************************************************************)
(* The log and the settings on the NOR flash, for any ring, cache, number  *)
(* of retries and settings, and any number of calls, faults and restarts:  *)
(* the state is well typed, the ring keeps the last Sect slots written,    *)
(* what an append, a save or a clear reports is so, and no part of a       *)
(* command is ever read as another one.                                    *)
(***************************************************************************)
EXTENDS NorLog, SequenceTheorems, WellFoundedInduction, TLAPS

-----------------------------------------------------------------------------
(* The inductive invariant: types.                                         *)
Command ==
  [cmd : Long, arg : Contents, n : Int] \cup [cmd : {"G"}, arg : Slots, n : Int]
    \cup [cmd : {"C", "H", "Q"}, arg : {NoRec}, n : Int]
    \cup [cmd : {"rest"}, arg : Contents \cup Slots \cup {NoRec}, n : Int]
Reply ==
  [cmd : {"K", "E"}, arg : {NoRec}] \cup [cmd : {"H"}, arg : Slots]
    \cup [cmd : {"G", "Q"}, arg : Contents]
Calls ==
  [cmd : {"L"}, rec : Records] \cup [cmd : {"S"}, rec : Blobs]
    \cup [cmd : {"C", "none"}, rec : {NoRec}]
Writes == [slot : Slots, content : Contents]

FlashTyped ==
  /\ flash \in [Slots -> Contents] /\ settings \in Contents
  /\ present \in BOOLEAN /\ locked \in BOOLEAN
  /\ head \in Slots /\ late \in BOOLEAN
  /\ fw \in {"idle", "payload", "erase", "program", "clear0", "clear1"}
  /\ fw \in {"payload", "erase", "program"} => cur.cmd \in Long
  /\ cur \in [cmd : Long, arg : Contents, n : Int] \cup {NoCmd}
  /\ recent \in Seq(Writes) /\ Len(recent) <= Sect
  /\ wrapped \in BOOLEAN /\ moved \in BOOLEAN
  /\ chip \in {"prompt", "slow", "faulty"}

CallTyped ==
  /\ pc \in {"idle", "ack", "head", "verify", "report"} /\ attempt \in 1..MaxRetries
  /\ outcome \in {"none", "stored", "failed"} /\ (pc # "idle" => outcome = "none")
  /\ seq \in Nat /\ boot \in Nat
  /\ cache \in Seq(Payloads) /\ Len(cache) <= CacheN
  /\ op \in Calls /\ (pc # "idle" => op.cmd # "none")
  /\ (pc = "head" => op.cmd = "L") /\ (pc = "report" => op.cmd = "S")
  /\ pc = "verify" => op.cmd \in Long

LineTyped == fifo \in Seq(Command) /\ replies \in Seq(Reply)

Typed == FlashTyped /\ CallTyped /\ LineTyped

(* The ring: the last writes are the slots just behind head, they hold     *)
(* what was written, and the rest of head's sector is blank, unless head   *)
(* is at its start, which is erased first.                                 *)
Behind(h, k) == IF h >= k THEN h - k ELSE h + N - k
Contiguous == \A i \in 1..Len(recent) : recent[i].slot = Behind(head, Len(recent) + 1 - i)
AheadBlank == \A t \in SectorOf(head) : t >= head => flash[t] = Blank
Appending == fw \in {"erase", "program"} /\ cur.cmd = "L"

Ring ==
  chip # "faulty" /\ ~moved =>
    /\ HalfKept /\ Contiguous
    /\ SectorStart(head) \/ AheadBlank
    /\ Appending => IF fw = "erase" THEN SectorStart(head) ELSE AheadBlank

RingInv ==
  /\ Ring
  /\ fw = "clear1" \/ ~present => recent = <<>>
  /\ ~present => fw \notin {"erase", "program"}

-----------------------------------------------------------------------------
(* Constants and small facts.                                              *)
LEMMA Sizes ==
  /\ Sect \in Nat /\ Sect >= 1 /\ N = 2 * Sect /\ N \in Nat /\ N >= 2
  /\ CacheN \in Nat /\ CacheN >= 1 /\ MaxRetries \in Nat /\ MaxRetries >= 2
  /\ Slots = 0..(N - 1)
BY NorAssumption DEF Slots

LEMMA HalfOf == \A t \in Slots : t \div Sect = IF t < Sect THEN 0 ELSE 1
<1>1. SUFFICES ASSUME NEW t \in Slots PROVE t \div Sect = IF t < Sect THEN 0 ELSE 1
  OBVIOUS
<1>2. t \in Nat /\ t < Sect + Sect /\ Sect \in Nat /\ Sect > 0
  BY Sizes
<1>3. t \div Sect \in Int /\ Sect * (t \div Sect) <= t /\ t < Sect * (t \div Sect) + Sect
  BY <1>2, SMTT(30)
<1>4. CASE t \div Sect <= -1
  BY <1>2, <1>3, <1>4, SMTT(30)
<1>5. CASE t \div Sect >= 2
  BY <1>2, <1>3, <1>5, SMTT(30)
<1>6. CASE t \div Sect = 0
  BY <1>2, <1>3, <1>6
<1>7. CASE t \div Sect = 1
  BY <1>2, <1>3, <1>7
<1> QED BY <1>3, <1>4, <1>5, <1>6, <1>7

LEMMA SectorIs ==
  \A s, t \in Slots : t \in SectorOf(s) <=> (t < Sect <=> s < Sect)
BY HalfOf DEF SectorOf

LEMMA AfterHead ==
  ASSUME NEW h \in Slots
  PROVE  (h + 1) % N = (IF h = N - 1 THEN 0 ELSE h + 1) /\ (h + 1) % N \in Slots
<1>1. CASE h = N - 1
  BY <1>1, Sizes
<1>2. CASE h # N - 1
  BY <1>2, Sizes
<1> QED BY <1>1, <1>2

LEMMA BeforeHead == \A h \in Slots : (h - 1 + N) % N \in Slots
BY Sizes

LEMMA NoRecIsBlank == Blank \in Contents /\ NoRec \in Payloads /\ Blank.kind = "blank"
BY DEF Blank, Contents, Payloads, NoRec

(* A set of slots has a last one.                                          *)
LEMMA MaxIsIn ==
  ASSUME NEW S \in SUBSET Slots, S # {}
  PROVE  Max(S) \in S
<1> DEFINE T == {N - s : s \in S}
<1>1. T \in SUBSET Nat /\ T # {}
  <2>1. \A s \in S : N - s \in Nat
    <3>1. SUFFICES ASSUME NEW s \in S PROVE N - s \in Nat
      OBVIOUS
    <3>2. s \in 0..(N - 1) /\ N \in Nat
      BY Sizes
    <3> QED BY <3>2
  <2>2. \E s \in S : N - s \in T
    OBVIOUS
  <2> QED BY <2>1, <2>2
<1>2. PICK m \in T : \A y \in T : <<y, m>> \notin OpToRel(<, Nat)
  BY <1>1, WFMin, NatLessThanWellFounded
<1>3. \A y \in T : ~(y < m)
  BY <1>1, <1>2, Zenon DEF OpToRel
<1>4. PICK s \in S : m = N - s
  BY <1>2
<1>5. \A y \in S : s >= y
  <2>1. SUFFICES ASSUME NEW y \in S PROVE s >= y
    OBVIOUS
  <2>2. ~(N - y < m)
    BY <1>3
  <2> QED BY <2>2, <1>4, Sizes
<1> QED BY <1>4, <1>5 DEF Max

LEMMA ScanTyped == ASSUME NEW f PROVE Scan(f) \in Slots
<1> DEFINE valid == {s \in Slots : IsValid(f[s])}
<1>1. CASE valid = {}
  BY <1>1, Sizes DEF Scan
<1>2. CASE valid # {}
  <2>1. Max(valid) \in Slots
    BY <1>2, MaxIsIn
  <2> QED BY <1>2, <2>1, AfterHead DEF Scan
<1> QED BY <1>1, <1>2

-----------------------------------------------------------------------------
(* Types.                                                                  *)
LEMMA TypedIsTypeOK == Typed => TypeOK
BY DEF Typed, FlashTyped, CallTyped, TypeOK

LEMMA Sending ==
  /\ Size("L") = 17 /\ Size("S") = 33 /\ Size("G") = 4
  /\ Size("C") = 1 /\ Size("H") = 1 /\ Size("Q") = 1
  /\ \A c : Size(c) \in Nat
BY DEF Size

LEMMA CommandTypes ==
  /\ \A c \in Long, x \in Contents, n \in Int : Part(Cmd(c, x), n) \in Command
  /\ \A s \in Slots, n \in Int : Part(Cmd("G", s), n) \in Command
  /\ \A c \in {"C", "H", "Q"}, n \in Int : Part(Cmd(c, NoRec), n) \in Command
BY DEF Cmd, Part, Command, Long

LEMMA ReplyTypes ==
  /\ Cmd("K", NoRec) \in Reply /\ Cmd("E", NoRec) \in Reply
  /\ \A h \in Slots : Cmd("H", h) \in Reply
  /\ \A x \in Contents : Cmd("G", x) \in Reply /\ Cmd("Q", x) \in Reply
BY DEF Cmd, Reply

LEMMA ContentTypes ==
  /\ \A r \in Payloads : Ok(r) \in Contents /\ Spoilt(r) \subseteq Contents
  /\ \A x \in Contents : x.rec \in Payloads /\ x = [kind |-> x.kind, rec |-> x.rec]
  /\ \A r \in Payloads : [kind |-> "bad", rec |-> r] \in Contents
  /\ \A old, new \in Contents : programmed(old, new) \in Contents
  /\ \A x \in Contents : [x EXCEPT !.kind = "junk"] \in Contents
<1>1. \A r \in Payloads, k \in {"blank", "ok", "bad", "junk", "ghost"} :
        [kind |-> k, rec |-> r] \in Contents
  BY DEF Contents
<1>2. \A x \in Contents : x.rec \in Payloads /\ x = [kind |-> x.kind, rec |-> x.rec]
  BY DEF Contents
<1>3. \A r \in Payloads : Ok(r) \in Contents
  BY <1>1 DEF Ok
<1>4. \A r \in Payloads : Spoilt(r) \subseteq Contents
  BY <1>1, NoRecIsBlank DEF Spoilt
<1>5. \A r \in Payloads : [kind |-> "bad", rec |-> r] \in Contents
  BY <1>1
<1>6. \A old, new \in Contents : programmed(old, new) \in Contents
  BY <1>1, <1>2 DEF programmed
<1>7. \A x \in Contents : [x EXCEPT !.kind = "junk"] \in Contents
  BY DEF Contents
<1> QED BY <1>2, <1>3, <1>4, <1>5, <1>6, <1>7

LEMMA ErasedTyped ==
  \A f \in [Slots -> Contents], s \in Slots : erased(f, s) \in [Slots -> Contents]
BY NoRecIsBlank DEF erased

LEMMA TornTyped ==
  ASSUME FlashTyped, NEW s \in Slots
  PROVE  torn(s) \subseteq [Slots -> Contents]
<1>1. erased(flash, s) \in [Slots -> Contents]
  BY ErasedTyped DEF FlashTyped
<1>2. [t \in Slots |-> IF t \in SectorOf(s) THEN [flash[t] EXCEPT !.kind = "junk"]
                       ELSE flash[t]] \in [Slots -> Contents]
  BY ContentTypes DEF FlashTyped
<1> QED BY <1>1, <1>2 DEF torn, FlashTyped

(* What the last writes become.                                            *)
LEMMA RecentTyped ==
  ASSUME FlashTyped, NEW c \in Contents,
         NEW w, w = Append(recent, [slot |-> head, content |-> c])
  PROVE  /\ w \in Seq(Writes) /\ Len(w) = Len(recent) + 1
         /\ SubSeq(w, IF Len(w) > Sect THEN 2 ELSE 1, Len(w)) \in Seq(Writes)
         /\ Len(SubSeq(w, IF Len(w) > Sect THEN 2 ELSE 1, Len(w)))
              = (IF Len(recent) = Sect THEN Sect ELSE Len(recent) + 1)
<1>1. [slot |-> head, content |-> c] \in Writes
  BY DEF Writes, FlashTyped
<1>2. w \in Seq(Writes) /\ Len(w) = Len(recent) + 1 /\ Len(recent) \in Nat /\ Len(recent) <= Sect
  BY <1>1 DEF FlashTyped
<1>3. CASE Len(recent) = Sect
  BY <1>2, <1>3, Sizes
<1>4. CASE Len(recent) # Sect
  BY <1>2, <1>4, Sizes
<1> QED BY <1>2, <1>3, <1>4

LEMMA ExecuteTyped ==
  ASSUME FlashTyped, NEW c \in Long, NEW x \in Contents, execute(c, x),
         UNCHANGED <<chipVars, head, pastVars>>
  PROVE  FlashTyped'
<1> USE DEF FlashTyped, chipVars, pastVars
<1>1. CASE ~present \/ locked
  <2>1. fw' = "idle" /\ cur' = NoCmd /\ late' = FALSE
    BY <1>1 DEF execute, Done
  <2> QED BY <2>1
<1>2. CASE ~(~present \/ locked)
  <2>1. cur' = Part(Cmd(c, x), Size(c)) /\ fw' \in {"erase", "program"} /\ late' = late
    BY <1>2 DEF execute
  <2>2. cur' \in [cmd : Long, arg : Contents, n : Int] /\ cur'.cmd = c
    BY <2>1, Sending DEF Part, Cmd
  <2> QED BY <2>1, <2>2
<1> QED BY <1>1, <1>2

LEMMA FlashTypedKept ==
  ASSUME Typed, [Next]_vars
  PROVE  FlashTyped'
<1> USE DEF Typed, FlashTyped
<1>c. cur \in [cmd : Long, arg : Contents, n : Int] \/ cur = NoCmd
  OBVIOUS
<1>d. NoCmd \in [cmd : Long, arg : Contents, n : Int] \cup {NoCmd} /\ NoCmd.cmd \notin Long
  BY DEF NoCmd, Part, Cmd, Long
<1>e. ASSUME NEW c \in Long, NEW x \in Contents, execute(c, x), UNCHANGED <<chipVars, head, pastVars>>
      PROVE  FlashTyped'
  BY <1>d, <1>e, ExecuteTyped
<1>1. CASE BeginLong
  <2>1. PICK c \in Long : Serve(c) /\ execute(c, Head(fifo).arg)
    BY <1>1 DEF BeginLong
  <2>2. Head(fifo) \in Command /\ Head(fifo).cmd \in Long
    BY <2>1 DEF Serve, LineTyped
  <2>3. Head(fifo).arg \in Contents
    BY <2>2 DEF Command, Long
  <2> QED BY <1>1, <1>e, <2>1, <2>3 DEF BeginLong
<1>2. CASE BeginCut
  <2>1. Head(fifo) \in Command /\ Head(fifo).cmd \in Long
    BY <1>2 DEF BeginCut, LineTyped
  <2>2. Head(fifo) \in [cmd : Long, arg : Contents, n : Int]
    BY <2>1 DEF Command, Long
  <2> QED BY <1>2, <2>1, <2>2 DEF BeginCut, chipVars, pastVars
<1>3. CASE PayloadTimeout
  BY <1>3, <1>d DEF PayloadTimeout, Done, chipVars, pastVars
<1>14. CASE MorePayload
  <2>1. cur \in [cmd : Long, arg : Contents, n : Int] /\ Head(fifo) \in Command /\ Head(fifo).n \in Int
    BY <1>14, <1>c, <1>d DEF MorePayload, LineTyped, Command
  <2>2. CASE Head(fifo).n < missing
    <3>1. cur' = [cur EXCEPT !.n = @ + Head(fifo).n] /\ UNCHANGED <<chipVars, head, fw, late, pastVars>>
      BY <1>14, <2>2 DEF MorePayload
    <3>2. cur' \in [cmd : Long, arg : Contents, n : Int] /\ cur'.cmd = cur.cmd
      BY <2>1, <3>1
    <3> QED BY <3>1, <3>2 DEF chipVars, pastVars
  <2>3. CASE ~(Head(fifo).n < missing)
    <3>1. /\ execute(cur.cmd, [kind |-> "bad", rec |-> cur.arg.rec])
          /\ UNCHANGED <<chipVars, head, pastVars>>
      BY <1>14, <2>3 DEF MorePayload
    <3>2. [kind |-> "bad", rec |-> cur.arg.rec] \in Contents
      BY <2>1, ContentTypes
    <3> QED BY <1>e, <2>1, <3>1, <3>2
  <2> QED BY <2>2, <2>3
<1>4. CASE Erase(TRUE) \/ Erase(FALSE)
  <2>1. erased(flash, head) \in [Slots -> Contents] /\ Blank \in Contents
    BY ErasedTyped, NoRecIsBlank
  <2>2. flash' \in [Slots -> Contents] /\ settings' \in Contents
    BY <1>4, <2>1 DEF Erase
  <2>3. /\ fw = "erase" /\ fw' = "program" /\ chip' \in {chip, "faulty"}
        /\ UNCHANGED <<present, locked, head, cur, late, recent, wrapped, moved>>
    BY <1>4 DEF Erase
  <2> QED BY <2>2, <2>3
<1>5. CASE ProgramWell \/ ProgramBadly
  <2>1. cur.cmd \in Long /\ cur.arg \in Contents
    BY <1>5, <1>c, <1>d DEF ProgramWell, ProgramBadly, Program
  <2>2. PICK c \in Contents : Program(c)
    BY <1>5, <2>1, ContentTypes DEF ProgramWell, ProgramBadly
  <2>3. chip' \in {chip, "faulty"}
    BY <1>5 DEF ProgramWell, ProgramBadly
  <2>4. CASE cur.cmd = "S"
    BY <1>d, <2>2, <2>3, <2>4 DEF Program, Done
  <2>5. CASE cur.cmd # "S"
    <3>1. DEFINE w == Append(recent, [slot |-> head, content |-> c])
    <3>2. recent' = SubSeq(w, IF Len(w) > Sect THEN 2 ELSE 1, Len(w))
      BY <2>2, <2>5 DEF Program
    <3>3. recent' \in Seq(Writes) /\ Len(recent') <= Sect
      <4> HIDE DEF w
      <4>1. w = Append(recent, [slot |-> head, content |-> c])
        BY DEF w
      <4>2. Len(recent) \in Nat /\ Len(recent) <= Sect
        OBVIOUS
      <4> DEFINE v == SubSeq(w, IF Len(w) > Sect THEN 2 ELSE 1, Len(w))
      <4>3. v \in Seq(Writes) /\ Len(v) = (IF Len(recent) = Sect THEN Sect ELSE Len(recent) + 1)
        BY <4>1, RecentTyped
      <4>4. Len(v) <= Sect
        BY <4>2, <4>3, Sizes
      <4> QED BY <3>2, <4>3, <4>4
    <3>4. flash' = [flash EXCEPT ![head] = c] /\ head' = (head + 1) % N /\ wrapped' \in BOOLEAN
      BY <2>2, <2>5 DEF Program, advance
    <3>5. flash' \in [Slots -> Contents] /\ head' \in Slots
      BY <3>4, AfterHead
    <3>6. /\ settings' = settings /\ fw' = "idle" /\ cur' = NoCmd /\ late' = FALSE
          /\ UNCHANGED <<present, locked, moved>>
      BY <2>2, <2>5 DEF Program, Done
    <3> QED BY <1>d, <2>3, <3>3, <3>4, <3>5, <3>6
  <2> QED BY <2>4, <2>5
<1>6. CASE BeginClear
  BY <1>6, Sizes DEF BeginClear, chipVars, pastVars, Serve
<1>7. CASE ClearFirst
  <2>1. erased(flash, 0) \in [Slots -> Contents]
    BY ErasedTyped, Sizes
  <2> QED BY <1>7, <2>1, Sizes DEF ClearFirst
<1>8. CASE ClearSecond
  <2>1. erased(flash, Sect) \in [Slots -> Contents]
    BY ErasedTyped, Sizes
  <2>2. flash' \in [Slots -> Contents]
    BY <1>8, <2>1 DEF ClearSecond
  <2>3. head' = 0 /\ 0 \in Slots /\ fw' = "idle" /\ wrapped' = FALSE /\ moved' = FALSE
    BY <1>8, Sizes DEF ClearSecond
  <2>4. late' = FALSE /\ UNCHANGED <<settings, present, locked, cur, recent, chip>>
    BY <1>8 DEF ClearSecond
  <2> QED BY <2>2, <2>3, <2>4
<1>9. CASE Answer
  BY <1>9 DEF Answer, chipVars, fwVars, pastVars
<1>10. CASE Reboot
  <2>1. fw \in {"erase", "program"} => cur.arg.rec \in Payloads
    BY <1>c, <1>d, ContentTypes
  <2>2. flash' \in [Slots -> Contents]
    <3>1. \A s \in {0, Sect, head} : torn(s) \subseteq [Slots -> Contents]
      BY TornTyped, Sizes
    <3>2. fw = "program" => Spoilt(cur.arg.rec) \subseteq Contents
      BY <2>1, ContentTypes
    <3> QED BY <1>10, <3>1, <3>2 DEF Reboot, Interrupted
  <2>3. settings' \in Contents
    <3>1. fw = "program" => Spoilt(cur.arg.rec) \subseteq Contents
      BY <2>1, ContentTypes
    <3>2. [settings EXCEPT !.kind = "junk"] \in Contents /\ Blank \in Contents
      BY ContentTypes, NoRecIsBlank
    <3> QED BY <1>10, <3>1, <3>2 DEF Reboot, Interrupted
  <2>4. head' \in Slots
    BY <1>10, ScanTyped, Sizes DEF Reboot
  <2>5. /\ fw' = "idle" /\ cur' = NoCmd /\ late' = FALSE /\ chip' \in {chip, "faulty"}
        /\ moved' \in BOOLEAN /\ UNCHANGED <<present, locked, recent, wrapped>>
    BY <1>10 DEF Reboot, Done
  <2> QED BY <1>d, <2>2, <2>3, <2>4, <2>5
<1>11. CASE LateTimeout
  BY <1>11 DEF LateTimeout, chipVars
<1>12. CASE Client \/ Call \/ LoseReply \/ MasterReboot \/ UNCHANGED vars
  <2>1. UNCHANGED <<chipVars, fwVars, pastVars>>
    <3>1. CASE Client
      BY <3>1 DEF Client, Timeout, GetAck, GetHead, Verify, Report, clientRest
    <3>2. CASE Call
      BY <3>2 DEF Call, flash_log_append, flash_log_clear, flash_set_settings
    <3>3. CASE LoseReply \/ MasterReboot \/ UNCHANGED vars
      BY <3>3 DEF LoseReply, MasterReboot, vars
    <3> QED BY <1>12, <3>1, <3>2, <3>3
  <2> QED BY <2>1 DEF chipVars, fwVars, pastVars
<1> QED BY <1>1, <1>2, <1>3, <1>14, <1>4, <1>5, <1>6, <1>7, <1>8, <1>9, <1>10, <1>11, <1>12
     DEF Next, Firmware, Fault

(* A command, whatever of it comes in.                                     *)
Sendable(f) == \A n \in Int : Part(f, n) \in Command

LEMMA PayloadTyped ==
  ASSUME NEW o \in Calls, o.cmd \in Long
  PROVE  Sendable(payload(o))
<1>1. o.rec \in Payloads
  BY DEF Calls, Payloads, Long
<1> QED BY <1>1, CommandTypes, ContentTypes DEF payload, Sendable

LEMMA AskTyped ==
  ASSUME LineTyped, NEW f, Sendable(f), NEW wait, ask(f, wait)
  PROVE  LineTyped' /\ pc' = wait
<1>1. PICK n \in Int : fifo' = IF n = 0 THEN fifo ELSE Append(fifo, Part(f, n))
  BY DEF ask, deliver
<1>2. Part(f, n) \in Command
  BY DEF Sendable
<1>3. fifo' \in Seq(Command)
  BY <1>1, <1>2 DEF LineTyped
<1>4. replies' \in Seq(Reply)
  BY DEF ask
<1> QED BY <1>3, <1>4 DEF ask, LineTyped

LEMMA ReturnTyped ==
  ASSUME CallTyped, pc # "idle", NEW result \in {"stored", "failed"}, return(result),
         UNCHANGED <<op, seq, boot>>
  PROVE  CallTyped' /\ fifo' = fifo
<1> USE DEF CallTyped
<1>1. cache' \in Seq(Payloads) /\ Len(cache') <= CacheN
  <2>1. CASE op.cmd = "L"
    <3>1. op.rec \in Payloads
      BY DEF Calls, Payloads
    <3>2. PICK n : n = IF Len(cache) < CacheN THEN Len(cache) + 1 ELSE CacheN
      OBVIOUS
    <3>3. PICK w : w = <<op.rec>> \o cache
      OBVIOUS
    <3>4. w \in Seq(Payloads) /\ Len(w) = Len(cache) + 1 /\ Len(cache) \in Nat
      BY <3>1, <3>3
    <3>5. n \in Nat /\ n <= Len(w) /\ n <= CacheN /\ n >= 1
      BY <3>2, <3>4, Sizes
    <3>6. SubSeq(w, 1, n) \in Seq(Payloads) /\ Len(SubSeq(w, 1, n)) = n
      BY <3>4, <3>5
    <3>7. cache' = SubSeq(w, 1, n)
      BY <2>1, <3>2, <3>3 DEF return, cache_push
    <3> QED BY <3>5, <3>6, <3>7
  <2>2. CASE op.cmd # "L"
    <3>1. cache' = <<>> \/ cache' = cache
      BY <2>2 DEF return
    <3>2. <<>> \in Seq(Payloads) /\ Len(<<>>) <= CacheN
      BY Sizes
    <3> QED BY <3>1, <3>2
  <2> QED BY <2>1, <2>2
<1>2. pc' = "idle" /\ outcome' = result /\ attempt' = 1 /\ fifo' = fifo
  BY DEF return
<1> QED BY <1>1, <1>2, Sizes

LEMMA RetryTyped ==
  ASSUME CallTyped, LineTyped, pc # "idle", retry, UNCHANGED <<op, seq, boot>>
  PROVE  CallTyped' /\ LineTyped'
<1>1. CASE op.cmd # "C" /\ attempt < MaxRetries
  <2>1. op \in Calls /\ op.cmd \in Long
    BY <1>1 DEF CallTyped, Calls, Long
  <2>2. /\ attempt' = attempt + 1 /\ ask(payload(op), "ack")
        /\ UNCHANGED <<cache, outcome>>
    BY <1>1 DEF retry
  <2>3. LineTyped' /\ pc' = "ack"
    BY <2>1, <2>2, PayloadTyped, AskTyped
  <2> QED BY <1>1, <2>2, <2>3, Sizes DEF CallTyped
<1>2. CASE ~(op.cmd # "C" /\ attempt < MaxRetries)
  <2>1. return("failed") /\ UNCHANGED replies
    BY <1>2 DEF retry
  <2> QED BY <2>1, ReturnTyped DEF LineTyped
<1> QED BY <1>1, <1>2

LEMMA Sendables ==
  /\ \A c \in {"C", "H", "Q"} : Sendable(Cmd(c, NoRec))
  /\ \A s \in Slots : Sendable(Cmd("G", s))
BY CommandTypes DEF Sendable

(* A call that goes on asks for one thing more.                            *)
LEMMA AskOn ==
  ASSUME CallTyped, LineTyped, pc # "idle", NEW f, Sendable(f),
         NEW wait \in {"head", "verify", "report"}, ask(f, wait),
         wait = "head" => op.cmd = "L", wait = "report" => op.cmd = "S", op.cmd \in Long,
         UNCHANGED <<attempt, cache, outcome, op, seq, boot>>
  PROVE  CallTyped' /\ LineTyped'
<1>1. LineTyped' /\ pc' = wait
  BY AskTyped
<1> QED BY <1>1 DEF CallTyped, Long

LEMMA CallBegins ==
  ASSUME CallTyped, LineTyped, NEW o \in Calls, o.cmd # "none", begin(o), o.cmd \in Long,
         seq' \in Nat, UNCHANGED <<cache, boot>>
  PROVE  CallTyped' /\ LineTyped'
<1>1. LineTyped' /\ pc' = "ack"
  BY PayloadTyped, AskTyped DEF begin
<1>2. op' = o /\ attempt' = 1 /\ outcome' = "none"
  BY DEF begin
<1> QED BY <1>1, <1>2, Sizes DEF CallTyped

LEMMA MoreTyped ==
  ASSUME FlashTyped, LineTyped, MorePayload
  PROVE  fifo' \in Seq(Command)
<1>1. fifo # <<>> /\ fifo \in Seq(Command) /\ Head(fifo) \in Command /\ Tail(fifo) \in Seq(Command)
  BY DEF MorePayload, LineTyped
<1>2. CASE Head(fifo).n < missing
  BY <1>1, <1>2 DEF MorePayload
<1>3. CASE ~(Head(fifo).n < missing)
  <2>1. cur \in [cmd : Long, arg : Contents, n : Int]
    BY DEF MorePayload, FlashTyped, NoCmd, Part, Cmd, Long
  <2>2. missing \in Int
    BY <2>1, Sending DEF missing
  <2>3. PICK p \in Command : p = Head(fifo)
    BY <1>1
  <2>4. Part(Cmd("rest", p.arg), p.n - missing) \in Command
    <3>1. p.arg \in Contents \cup Slots \cup {NoRec} /\ p.n \in Int
      BY DEF Command
    <3> QED BY <2>2, <3>1 DEF Command, Part, Cmd
  <2>5. rest(p) \in Seq(Command)
    BY <2>4 DEF rest
  <2>6. fifo' = rest(p) \o Tail(fifo)
    BY <1>3, <2>3 DEF MorePayload
  <2> QED BY <1>1, <2>5, <2>6
<1> QED BY <1>2, <1>3

LEMMA CallTypedKept ==
  ASSUME Typed, [Next]_vars
  PROVE  CallTyped' /\ LineTyped'
<1> USE DEF Typed
<1>r. clientRest => UNCHANGED <<op, seq, boot>>
  BY DEF clientRest
<1>1. CASE Timeout
  <2>1. pc # "idle" /\ UNCHANGED <<op, seq, boot>>
    BY <1>1, <1>r DEF Timeout
  <2>2. CASE pc = "report"
    BY <1>1, <2>1, <2>2, ReturnTyped DEF Timeout, LineTyped
  <2>3. CASE pc # "report"
    BY <1>1, <2>1, <2>3, RetryTyped DEF Timeout
  <2> QED BY <2>2, <2>3
<1>2. CASE LateTimeout
  <2>1. pc # "idle" /\ UNCHANGED <<op, seq, boot>> /\ retry
    BY <1>2 DEF LateTimeout
  <2> QED BY <2>1, RetryTyped
<1>3. CASE GetAck
  <2>1. pc # "idle" /\ UNCHANGED <<op, seq, boot>>
    BY <1>3, <1>r DEF GetAck
  <2>2. \/ ask(Cmd("H", NoRec), "head") /\ UNCHANGED <<attempt, cache, outcome>> /\ op.cmd = "L"
        \/ ask(Cmd("Q", NoRec), "verify") /\ UNCHANGED <<attempt, cache, outcome>> /\ op.cmd = "S"
        \/ return("stored") /\ UNCHANGED replies
        \/ return("failed") /\ UNCHANGED replies
        \/ retry
    BY <1>3 DEF GetAck
  <2>3. "L" \in Long /\ "S" \in Long
    BY DEF Long
  <2> QED BY <2>1, <2>2, <2>3, AskOn, ReturnTyped, RetryTyped, Sendables DEF LineTyped
<1>4. CASE GetHead
  <2>1. pc = "head" /\ op.cmd = "L" /\ UNCHANGED <<attempt, cache, outcome, op, seq, boot>>
    BY <1>4, <1>r DEF GetHead, CallTyped
  <2>2. PICK s \in Slots : ask(Cmd("G", s), "verify")
    <3>1. replies # <<>>
      BY <1>4 DEF GetHead, Enough, LineTyped
    <3>2. CASE Head(replies).cmd = "H"
      <4>1. Head(replies).arg \in Slots
        BY <3>1, <3>2 DEF LineTyped, Reply
      <4> QED BY <1>4, <3>2, <4>1, BeforeHead DEF GetHead
    <3>3. CASE Head(replies).cmd # "H"
      BY <1>4, <3>3 DEF GetHead
    <3> QED BY <3>2, <3>3
  <2>3. Sendable(Cmd("G", s)) /\ op.cmd \in Long
    BY <2>1, Sendables DEF Long
  <2> QED BY <2>1, <2>2, <2>3, AskOn
<1>5. CASE Verify
  <2>1. pc = "verify" /\ op.cmd \in Long /\ UNCHANGED <<op, seq, boot>>
    BY <1>5, <1>r DEF Verify, CallTyped
  <2>2. \/ ask(Cmd("H", NoRec), "report") /\ UNCHANGED <<attempt, cache, outcome>> /\ op.cmd # "L"
        \/ return("stored") /\ UNCHANGED replies
        \/ retry
    BY <1>5 DEF Verify
  <2>3. op.cmd # "L" => op.cmd = "S"
    BY <2>1 DEF Long
  <2> QED BY <2>1, <2>2, <2>3, AskOn, ReturnTyped, RetryTyped, Sendables DEF LineTyped
<1>6. CASE Report
  <2>1. pc # "idle" /\ UNCHANGED <<op, seq, boot, replies>> /\ return("stored")
    BY <1>6, <1>r DEF Report
  <2> QED BY <2>1, ReturnTyped DEF LineTyped
<1>7. CASE flash_log_append
  <2>1. [cmd |-> "L", rec |-> [boot |-> boot, seq |-> seq]] \in Calls
    BY DEF CallTyped, Calls, Records
  <2> QED BY <1>7, <2>1, CallBegins DEF flash_log_append, CallTyped, Long
<1>8. CASE \E b \in Blobs : flash_set_settings(b)
  <2>1. PICK b \in Blobs : flash_set_settings(b)
    BY <1>8
  <2>2. [cmd |-> "S", rec |-> b] \in Calls
    BY DEF Calls
  <2> QED BY <2>1, <2>2, CallBegins DEF flash_set_settings, CallTyped, Long
<1>9. CASE flash_log_clear
  <2>1. /\ op' = [cmd |-> "C", rec |-> NoRec] /\ attempt' = 1 /\ outcome' = "none"
        /\ ask(Cmd("C", NoRec), "ack") /\ UNCHANGED <<seq, cache, boot>>
    BY <1>9 DEF flash_log_clear
  <2>2. Sendable(Cmd("C", NoRec))
    BY Sendables
  <2>3. LineTyped' /\ pc' = "ack"
    BY <2>1, <2>2, AskTyped
  <2> QED BY <2>1, <2>3, Sizes DEF CallTyped, Calls
<1>10. CASE LoseReply
  BY <1>10 DEF LoseReply, LineTyped, CallTyped, clientVars
<1>11. CASE MasterReboot
  BY <1>11, Sizes DEF MasterReboot, LineTyped, CallTyped
<1>12. CASE Firmware \/ Erase(FALSE) \/ ProgramBadly \/ Reboot
  <2>1. UNCHANGED <<clientVars, outcome>>
    BY <1>12 DEF Firmware, BeginLong, BeginCut, PayloadTimeout, MorePayload, Erase, ProgramWell,
      ProgramBadly, Program, BeginClear, ClearFirst, ClearSecond, Answer, Reboot
  <2>2. fifo' \in Seq(Command)
    <3>1. CASE MorePayload
      BY <3>1, MoreTyped
    <3>2. CASE ~MorePayload
      <4>1. fifo' = fifo \/ fifo' = <<>> \/ (fifo # <<>> /\ fifo' = Tail(fifo))
        BY <1>12, <3>2 DEF Firmware, BeginLong, BeginCut, PayloadTimeout, Erase, ProgramWell,
          ProgramBadly, Program, BeginClear, ClearFirst, ClearSecond, Answer, Reboot, Serve, Done
      <4>2. <<>> \in Seq(Command) /\ fifo \in Seq(Command)
        BY DEF LineTyped
      <4>3. fifo # <<>> => Tail(fifo) \in Seq(Command)
        BY <4>2
      <4> QED BY <4>1, <4>2, <4>3, Zenon
    <3> QED BY <3>1, <3>2
  <2>3. replies' = replies \/ \E r \in Reply : putc(r)
    <3>1. Answer => replies' = replies \/ \E r \in Reply : putc(r)
      <4>1. Serve("G") => Head(fifo).arg \in Slots
        BY DEF Serve, LineTyped, Command, Long
      <4> QED BY <4>1, ReplyTypes DEF Answer, FlashTyped
    <3>2. BeginLong \/ MorePayload => replies' = replies \/ putc(Cmd("E", NoRec))
      BY DEF BeginLong, MorePayload, execute
    <3> QED BY <1>12, <3>1, <3>2, ReplyTypes DEF Firmware, BeginCut, PayloadTimeout, Erase,
          ProgramWell, ProgramBadly, Program, BeginClear, ClearFirst, ClearSecond, Reboot
  <2>4. replies' \in Seq(Reply)
    BY <2>3 DEF putc, LineTyped
  <2> QED BY <2>1, <2>2, <2>4 DEF CallTyped, LineTyped, clientVars
<1>13. CASE UNCHANGED vars
  BY <1>13 DEF vars, CallTyped, LineTyped, clientVars
<1> QED BY <1>1, <1>2, <1>3, <1>4, <1>5, <1>6, <1>7, <1>8, <1>9, <1>10, <1>11, <1>12, <1>13
     DEF Next, Firmware, Fault, Client, Call

THEOREM TypedHolds == Spec => []Typed
<1>1. Init => Typed
  <2> SUFFICES ASSUME Init PROVE Typed
    OBVIOUS
  <2>1. FlashTyped
    <3>1. flash \in [Slots -> Contents] /\ settings \in Contents /\ head \in Slots
      BY Sizes, NoRecIsBlank DEF Init
    <3>2. recent \in Seq(Writes) /\ Len(recent) <= Sect
      BY Sizes DEF Init
    <3> QED BY <3>1, <3>2 DEF Init, FlashTyped
  <2>2. CallTyped
    BY Sizes DEF Init, CallTyped, Calls
  <2>3. LineTyped
    BY DEF Init, LineTyped
  <2> QED BY <2>1, <2>2, <2>3 DEF Typed
<1>2. Typed /\ [Next]_vars => Typed'
  BY FlashTypedKept, CallTypedKept DEF Typed
<1> QED BY <1>1, <1>2, PTL DEF Spec

(* Every variable keeps its type (norflash.c, flash_link.cpp), and the     *)
(* client is idle exactly outside its calls.                               *)
THEOREM TypeCorrect == Spec => []TypeOK
BY TypedHolds, TypedIsTypeOK, PTL

-----------------------------------------------------------------------------
(* The ring.                                                               *)
LEMMA BehindFacts ==
  ASSUME NEW h \in Slots, NEW k \in 1..Sect
  PROVE  /\ Behind(h, k) \in Slots /\ Behind(h, k) # h
         /\ Behind((h + 1) % N, k + 1) = Behind(h, k) /\ Behind((h + 1) % N, 1) = h
         /\ SectorStart(h) => Behind(h, k) \notin SectorOf(h)
<1> USE Sizes
<1>1. Behind(h, k) \in Slots /\ Behind(h, k) # h
  BY DEF Behind
<1>2. Behind((h + 1) % N, k + 1) = Behind(h, k) /\ Behind((h + 1) % N, 1) = h
  <2>1. PICK g \in Slots : g = (h + 1) % N /\ g = (IF h = N - 1 THEN 0 ELSE h + 1)
    BY AfterHead
  <2>2. Behind(g, k + 1) = Behind(h, k) /\ Behind(g, 1) = h
    BY <2>1 DEF Behind
  <2> QED BY <2>1, <2>2
<1>3. SectorStart(h) => Behind(h, k) \notin SectorOf(h)
  <2>1. ASSUME SectorStart(h) PROVE ~(Behind(h, k) < Sect <=> h < Sect)
    BY <2>1 DEF SectorStart, Behind
  <2> QED BY <1>1, <2>1, SectorIs
<1> QED BY <1>1, <1>2, <1>3

LEMMA NextSlot ==
  ASSUME NEW h \in Slots, ~SectorStart((h + 1) % N)
  PROVE  (h + 1) % N = h + 1 /\ SectorOf((h + 1) % N) = SectorOf(h)
<1>1. (h + 1) % N = h + 1 /\ h + 1 # Sect /\ h + 1 \in Slots
  BY AfterHead, Sizes DEF SectorStart
<1>2. h + 1 < Sect <=> h < Sect
  BY <1>1, Sizes
<1> QED BY <1>1, <1>2, SectorIs DEF SectorOf

(* A step that leaves the ring alone.                                      *)
LEMMA RingSame ==
  ASSUME RingInv, UNCHANGED <<flash, head, recent, moved, present>>,
         chip = "faulty" => chip' = "faulty", ~Appending', fw' # "clear1",
         fw' \notin {"erase", "program"} \/ present
  PROVE  RingInv'
BY DEF RingInv, Ring, HalfKept, Contiguous, AheadBlank

LEMMA RingPrograms ==
  ASSUME Typed, RingInv, ProgramWell, cur.cmd = "L"
  PROVE  RingInv'
<1> DEFINE c == programmed(flash[head], cur.arg)
<1>1. /\ fw = "program" /\ fw' = "idle" /\ flash' = [flash EXCEPT ![head] = c]
      /\ head' = (head + 1) % N /\ UNCHANGED <<present, moved, chip>>
      /\ recent' = LET w == Append(recent, [slot |-> head, content |-> c])
                   IN  SubSeq(w, IF Len(w) > Sect THEN 2 ELSE 1, Len(w))
  BY DEF ProgramWell, Program, Done, advance
<1>2. c \in Contents
  BY <1>1, ContentTypes DEF Typed, FlashTyped, NoCmd, Part, Cmd
<1> HIDE DEF c
<1>3. present
  BY <1>1 DEF RingInv
<1>4. SUFFICES ASSUME chip # "faulty", ~moved
               PROVE  HalfKept' /\ Contiguous' /\ (SectorStart(head') \/ AheadBlank')
  BY <1>1, <1>3 DEF RingInv, Ring, Appending
<1>5. HalfKept /\ Contiguous /\ AheadBlank
  BY <1>1, <1>4 DEF RingInv, Ring, Appending
<1>6. /\ head \in Slots /\ flash \in [Slots -> Contents] /\ recent \in Seq(Writes)
      /\ Len(recent) \in Nat /\ Len(recent) <= Sect
  BY DEF Typed, FlashTyped
<1>7. PICK n, d : n = Len(recent) /\ d = IF n = Sect THEN 1 ELSE 0
  OBVIOUS
<1>8. /\ n \in Nat /\ n <= Sect /\ d \in {0, 1} /\ n >= d /\ n + 1 - d <= Sect
  BY <1>6, <1>7, Sizes
<1>9. PICK w : w = Append(recent, [slot |-> head, content |-> c])
  OBVIOUS
<1>10. /\ w \in Seq(Writes) /\ Len(w) = n + 1
       /\ \A j \in 1..n : w[j] = recent[j]
       /\ w[n + 1].slot = head /\ w[n + 1].content = c
  <2>1. [slot |-> head, content |-> c] \in Writes
    BY <1>2, <1>6 DEF Writes
  <2> QED BY <1>6, <1>7, <1>9, <2>1
<1>11. recent' = SubSeq(w, 1 + d, n + 1)
  <2>1. (IF Len(w) > Sect THEN 2 ELSE 1) = 1 + d
    BY <1>7, <1>8, <1>10, Sizes
  <2> QED BY <1>1, <1>9, <1>10, <2>1
<1>12. Len(recent') = n + 1 - d /\ \A i \in 1..(n + 1 - d) : recent'[i] = w[i + d]
  BY <1>8, <1>10, <1>11
<1>13. ASSUME NEW i \in 1..Len(recent')
       PROVE  /\ recent'[i].slot = Behind(head', Len(recent') + 1 - i)
              /\ flash'[recent'[i].slot] = recent'[i].content
  <2>1. PICK j : j = i + d
    OBVIOUS
  <2>2. j \in 1..(n + 1) /\ recent'[i] = w[j] /\ Len(recent') + 1 - i = n + 2 - j
    BY <1>8, <1>12, <2>1
  <2>3. CASE j = n + 1
    <3>1. 1 \in 1..Sect /\ n + 2 - j = 1
      BY <2>3, <1>8, Sizes
    <3>2. Behind(head', 1) = head
      BY <1>1, <1>6, <3>1, BehindFacts
    <3>3. flash'[head] = c
      BY <1>1, <1>6
    <3> QED BY <1>10, <2>2, <2>3, <3>1, <3>2, <3>3
  <2>4. CASE j \in 1..n
    <3>1. PICK k \in 1..Sect : k = n + 1 - j
      BY <1>8, <2>4, Sizes
    <3>2. recent[j].slot = Behind(head, k) /\ flash[recent[j].slot] = recent[j].content
      BY <1>5, <1>7, <2>4, <3>1 DEF Contiguous, HalfKept
    <3>3. /\ Behind(head', k + 1) = Behind(head, k) /\ Behind(head, k) # head
          /\ Behind(head, k) \in Slots
      BY <1>1, <1>6, BehindFacts
    <3>4. n + 2 - j = k + 1 /\ w[j] = recent[j]
      BY <1>8, <1>10, <2>4, <3>1
    <3>5. flash'[Behind(head, k)] = flash[Behind(head, k)]
      BY <1>1, <1>6, <3>3
    <3> QED BY <2>2, <3>2, <3>3, <3>4, <3>5
  <2> QED BY <1>8, <2>2, <2>3, <2>4
<1>14. ASSUME ~SectorStart(head') PROVE AheadBlank'
  <2>1. head' = head + 1 /\ SectorOf(head') = SectorOf(head)
    BY <1>1, <1>6, <1>14, NextSlot
  <2>2. ASSUME NEW t \in SectorOf(head'), t >= head' PROVE flash'[t] = Blank
    <3>1. t \in Slots /\ t # head /\ t >= head
      BY <1>6, <2>1, <2>2, Sizes DEF SectorOf
    <3>2. flash[t] = Blank
      BY <1>5, <2>1, <3>1 DEF AheadBlank
    <3> QED BY <1>1, <1>6, <3>1, <3>2
  <2> QED BY <2>2 DEF AheadBlank
<1> QED BY <1>13, <1>14 DEF HalfKept, Contiguous

LEMMA RingErases ==
  ASSUME Typed, RingInv, Erase(TRUE), cur.cmd = "L"
  PROVE  RingInv'
<1>1. /\ fw = "erase" /\ fw' = "program" /\ flash' = erased(flash, head)
      /\ UNCHANGED <<present, head, cur, recent, moved, chip>>
  BY DEF Erase
<1>2. present
  BY <1>1 DEF RingInv
<1>3. SUFFICES ASSUME chip # "faulty", ~moved
               PROVE  HalfKept' /\ Contiguous' /\ AheadBlank'
  BY <1>1, <1>2 DEF RingInv, Ring
<1>4. HalfKept /\ Contiguous /\ SectorStart(head)
  BY <1>1, <1>3 DEF RingInv, Ring, Appending
<1>5. head \in Slots /\ Len(recent) \in Nat /\ Len(recent) <= Sect
  BY DEF Typed, FlashTyped
<1>6. HalfKept'
  <2>1. ASSUME NEW i \in 1..Len(recent) PROVE flash'[recent[i].slot] = flash[recent[i].slot]
    <3>1. PICK k \in 1..Sect : k = Len(recent) + 1 - i
      BY <1>5, Sizes
    <3>2. recent[i].slot = Behind(head, k)
      BY <1>4, <3>1 DEF Contiguous
    <3>3. Behind(head, k) \in Slots /\ Behind(head, k) \notin SectorOf(head)
      BY <1>4, <1>5, BehindFacts
    <3> QED BY <1>1, <3>2, <3>3 DEF erased
  <2> QED BY <1>1, <1>4, <2>1 DEF HalfKept
<1>7. AheadBlank'
  BY <1>1 DEF AheadBlank, erased, SectorOf
<1> QED BY <1>1, <1>4, <1>6, <1>7 DEF Contiguous

LEMMA RingClears ==
  ASSUME Typed, RingInv, ClearFirst \/ ClearSecond
  PROVE  RingInv'
<1>1. CASE ClearFirst
  <2>1. /\ fw' = "clear1" /\ recent' = <<>> /\ flash' \in {flash, erased(flash, 0)}
        /\ UNCHANGED <<present, head, moved, chip>>
    BY <1>1 DEF ClearFirst
  <2>2. AheadBlank => AheadBlank'
    BY <2>1 DEF AheadBlank, erased, SectorOf
  <2>3. HalfKept' /\ Contiguous'
    BY <2>1 DEF HalfKept, Contiguous
  <2> QED BY <2>1, <2>2, <2>3 DEF RingInv, Ring, Appending, SectorStart
<1>2. CASE ClearSecond
  <2>1. fw' = "idle" /\ recent' = <<>> /\ head' = 0
    BY <1>2 DEF ClearSecond, RingInv
  <2>2. HalfKept' /\ Contiguous' /\ SectorStart(head')
    BY <2>1 DEF HalfKept, Contiguous, SectorStart
  <2> QED BY <2>1, <2>2 DEF RingInv, Ring, Appending
<1> QED BY <1>1, <1>2

LEMMA RingKept ==
  ASSUME Typed, RingInv, [Next]_vars
  PROVE  RingInv'
<1>1. CASE BeginCut \/ PayloadTimeout \/ Answer
  <2>1. UNCHANGED <<flash, head, recent, moved, present, chip>>
    BY <1>1 DEF BeginCut, PayloadTimeout, Answer, chipVars, pastVars, fwVars
  <2>2. fw' \in {"idle", "payload"}
    BY <1>1 DEF BeginCut, PayloadTimeout, Answer, Done, Serve, fwVars
  <2> QED BY <2>1, <2>2, RingSame DEF Appending
<1>2. CASE BeginLong \/ MorePayload
  <2>1. UNCHANGED <<flash, head, recent, moved, present, chip>> /\ fw \in {"idle", "payload"}
    BY <1>2 DEF BeginLong, MorePayload, Serve, chipVars, pastVars
  <2>2. CASE MorePayload /\ fw' = fw
    BY <2>1, <2>2, RingSame DEF Appending, MorePayload
  <2>3. PICK c, x : execute(c, x) \/ (MorePayload /\ fw' = fw)
    BY <1>2 DEF BeginLong, MorePayload
  <2>4. CASE execute(c, x) /\ (~present \/ locked)
    <3>1. fw' = "idle"
      BY <2>4 DEF execute, Done
    <3> QED BY <2>1, <3>1, RingSame DEF Appending
  <2>5. CASE execute(c, x) /\ present /\ ~locked
    <3>1. /\ cur'.cmd = c
          /\ fw' = IF c = "S" \/ ProbesDirty(flash[head]) \/ SectorStart(head)
                   THEN "erase" ELSE "program"
      BY <2>5 DEF execute, Cmd, Part
    <3>2. AheadBlank => flash[head] = Blank
      BY Sizes DEF AheadBlank, SectorOf, Typed, FlashTyped
    <3>3. ~ProbesDirty(Blank)
      BY DEF ProbesDirty, Blank
    <3> QED BY <2>1, <2>5, <3>1, <3>2, <3>3
         DEF RingInv, Ring, HalfKept, Contiguous, AheadBlank, Appending
  <2> QED BY <2>2, <2>3, <2>4, <2>5
<1>3. CASE Erase(TRUE) \/ Erase(FALSE)
  <2>1. CASE cur.cmd = "L"
    <3>1. CASE Erase(TRUE)
      BY <2>1, <3>1, RingErases
    <3>2. CASE Erase(FALSE)
      <4>1. chip' = "faulty" /\ fw = "erase" /\ fw' = "program" /\ present' = present
        BY <2>1, <3>2 DEF Erase
      <4> QED BY <4>1 DEF RingInv, Ring
    <3> QED BY <1>3, <3>1, <3>2
  <2>2. CASE cur.cmd # "L"
    <3>1. /\ UNCHANGED <<flash, head, recent, moved, present, chip, cur>>
          /\ fw = "erase" /\ fw' = "program"
      BY <1>3, <2>2 DEF Erase, Typed, FlashTyped, Long
    <3>2. present
      BY <3>1 DEF RingInv
    <3> QED BY <2>2, <3>1, <3>2, RingSame DEF Appending
  <2> QED BY <2>1, <2>2
<1>4. CASE ProgramWell \/ ProgramBadly
  <2>1. fw' = "idle" /\ UNCHANGED <<present, moved>> /\ fw = "program" /\ present
    BY <1>4 DEF ProgramWell, ProgramBadly, Program, Done, RingInv
  <2>2. CASE cur.cmd = "L" /\ ProgramWell
    BY <2>2, RingPrograms
  <2>3. CASE cur.cmd = "L" /\ ProgramBadly
    <3>1. chip' = "faulty"
      BY <2>3 DEF ProgramBadly
    <3> QED BY <2>1, <3>1 DEF RingInv, Ring
  <2>4. CASE cur.cmd # "L"
    <3>1. UNCHANGED <<flash, head, recent, chip>>
      BY <1>4, <2>1, <2>4 DEF ProgramWell, ProgramBadly, Program, Typed, FlashTyped, Long
    <3> QED BY <2>1, <3>1, RingSame DEF Appending
  <2> QED BY <1>4, <2>2, <2>3, <2>4
<1>5. CASE BeginClear
  <2>1. CASE present
    <3>1. UNCHANGED <<flash, head, recent, moved, present, chip>> /\ fw' = "clear0"
      BY <1>5, <2>1 DEF BeginClear, chipVars, pastVars
    <3> QED BY <3>1, RingSame DEF Appending
  <2>2. CASE ~present
    <3>1. UNCHANGED <<recent, present>> /\ fw' = "idle" /\ head' = 0 /\ recent = <<>>
      BY <1>5, <2>2 DEF BeginClear, chipVars, pastVars, RingInv
    <3>2. HalfKept' /\ Contiguous' /\ SectorStart(head')
      BY <3>1 DEF HalfKept, Contiguous, SectorStart
    <3> QED BY <3>1, <3>2 DEF RingInv, Ring, Appending
  <2> QED BY <2>1, <2>2
<1>6. CASE ClearFirst \/ ClearSecond
  BY <1>6, RingClears
<1>7. CASE Reboot
  <2>1. fw' = "idle" /\ UNCHANGED <<present, recent>>
    BY <1>7 DEF Reboot, Done
  <2>2. CASE Waiting \/ moved' \/ chip = "faulty"
    BY <1>7, <2>1, <2>2 DEF Reboot, RingInv, Ring
  <2>3. CASE ~(Waiting \/ moved' \/ chip = "faulty")
    <3>1. UNCHANGED <<flash, head, chip, moved>>
      BY <1>7, <2>3 DEF Reboot, Interrupted, Waiting, Typed, FlashTyped
    <3> QED BY <2>1, <3>1, RingSame DEF Appending
  <2> QED BY <2>2, <2>3
<1>8. CASE LateTimeout \/ Client \/ Call \/ LoseReply \/ MasterReboot \/ UNCHANGED vars
  <2>1. UNCHANGED <<chipVars, head, fw, cur, recent, wrapped, moved>>
    BY <1>8 DEF LateTimeout, Client, Call, Timeout, GetAck, GetHead, Verify, Report, clientRest,
      LoseReply, MasterReboot, flash_log_append, flash_log_clear, flash_set_settings, vars,
      fwVars, pastVars
  <2>2. chip = "faulty" => chip' = "faulty"
    <3>1. CASE LateTimeout
      BY <3>1 DEF LateTimeout
    <3>2. CASE Client \/ Call \/ LoseReply \/ MasterReboot \/ UNCHANGED vars
      BY <3>2 DEF Client, Call, Timeout, GetAck, GetHead, Verify, Report, clientRest,
        LoseReply, MasterReboot, flash_log_append, flash_log_clear, flash_set_settings, vars,
        pastVars
    <3> QED BY <1>8, <3>1, <3>2
  <2> QED BY <2>1, <2>2
       DEF chipVars, RingInv, Ring, HalfKept, Contiguous, AheadBlank, Appending
<1> QED BY <1>1, <1>2, <1>3, <1>4, <1>5, <1>6, <1>7, <1>8 DEF Next, Firmware, Fault

(* norflash.c:235-244.  Whatever the ring's size, erasing ahead never      *)
(* takes one of the last Sect slots written, as long as the chip did what  *)
(* it was told and no restart put head elsewhere.                          *)
THEOREM HalfIsKept == Spec => []RecentKept
<1>1. Init => RingInv
  BY DEF Init, RingInv, Ring, HalfKept, Contiguous, SectorStart, Appending
<1>2. Typed /\ RingInv /\ [Next]_vars => RingInv'
  BY RingKept
<1>3. RingInv => RecentKept
  BY DEF RingInv, Ring, RecentKept
<1> QED BY <1>1, <1>2, <1>3, TypedHolds, PTL DEF Spec
-----------------------------------------------------------------------------
(* What a call reports is so.  The inductive invariant says what can be on *)
(* the line: in the FIFO there is at most what the client waits for, until *)
(* the chip keeps it waiting (`late`).  From then on an ack may be that of *)
(* an earlier command, the client goes on while its own is in the FIFO, cut*)
(* to what there was room for, and the next one is cut or swallowed in its *)
(* turn; but never is anything executed that the client does not wait for  *)
(* when it reads back what it wrote.                                       *)
One(q, c, sizes) == q # <<>> /\ Tail(q) = <<>> /\ Head(q).cmd = c /\ Head(q).n \in sizes
Two(q, c, m, d, n) ==
  q # <<>> /\ Head(q).cmd = c /\ Head(q).n = m /\ One(Tail(q), d, {n})

Unanswered == replies = <<>>
Acked == replies = <<>> \/ (Len(replies) = 1 /\ Head(replies).cmd = "K")

(* The client has once not waited long enough.                             *)
Outpaced == present /\ ~locked /\ chip # "prompt"

(* The firmware is idle, and what the client waits for is in the FIFO.     *)
Fresh ==
  /\ Unanswered
  /\ \/ pc = "ack" /\ One(fifo, op.cmd, Least(Size(op.cmd), FifoLen)..Size(op.cmd))
     \/ pc \in {"head", "report"} /\ One(fifo, "H", {1})
     \/ pc = "verify" /\ op.cmd = "L" /\ One(fifo, "G", {4})
     \/ pc = "verify" /\ op.cmd = "S" /\ One(fifo, "Q", {1})

(* Or there is more, or the answer will be that of another command.        *)
StaleAck ==
  \/ Acked /\ One(fifo, op.cmd, {15, 16}) /\ op.cmd \in Long
  \/ Acked /\ Two(fifo, "L", 15, "L", 1) /\ op.cmd = "L"
  \/ Unanswered /\ Two(fifo, "C", 1, op.cmd, 15) /\ op.cmd \in Long /\ attempt = 1
  \/ Unanswered /\ Two(fifo, "C", 1, "C", 1) /\ op.cmd = "C"

StaleQuery ==
  \/ pc = "head" /\ (\/ One(fifo, "L", {16}) \/ Two(fifo, "L", 15, "L", 1)
                     \/ Two(fifo, "L", 15, "H", 1))
  \/ pc = "verify" /\ op.cmd = "S" /\ (One(fifo, "S", {16}) \/ Two(fifo, "S", 15, "Q", 1))

Stale ==
  /\ Outpaced
  /\ \/ pc \in {"ack", "idle"} /\ op.cmd = "C" /\ One(fifo, "C", {1}) /\ Acked
     \/ pc = "ack" /\ StaleAck
     \/ Unanswered /\ StaleQuery

(* It waits for the rest of a payload.                                     *)
CutAck ==
  \/ fifo = <<>> /\ cur.n \in {15, 16}
  \/ One(fifo, "L", {1}) /\ cur.cmd = "L" /\ cur.n = 15

CutQuery ==
  \/ pc = "head" /\ fifo = <<>> /\ cur.n \in {15, 16}
  \/ pc = "head" /\ One(fifo, "H", {1}) /\ cur.n \in {15, 16}
  \/ pc = "head" /\ (One(fifo, "L", {1}) \/ Two(fifo, "L", 1, "H", 1)) /\ cur.n = 15
  \/ pc = "verify" /\ op.cmd = "S" /\ fifo = <<>> /\ cur.n \in 15..17
  \/ pc = "verify" /\ op.cmd = "S" /\ One(fifo, "Q", {1}) /\ cur.n \in {15, 16}

Cut ==
  /\ op.cmd = cur.cmd
  /\ \/ pc = "ack" /\ Unanswered /\ fifo = <<>> /\ cur.n \in FifoLen..(Size(cur.cmd) - 1)
     \/ Outpaced /\ pc = "ack" /\ Acked /\ CutAck
     \/ Outpaced /\ Unanswered /\ CutQuery

(* It writes.                                                              *)
WriteLate ==
  \/ pc = "idle" /\ op.cmd = "L" /\ fifo = <<>> /\ outcome = "failed"
  \/ pc = "ack" /\ op.cmd = "C" /\ One(fifo, "C", {1})
  \/ pc = "ack" /\ op.cmd \in Long /\ One(fifo, op.cmd, {16})

Writing ==
  /\ present /\ ~locked /\ Unanswered
  /\ \/ ~late /\ op.cmd = cur.cmd /\ fifo = <<>> /\ pc = "ack"
     \/ ~late /\ op.cmd = cur.cmd /\ fifo = <<>> /\ pc = "head" /\ Outpaced
     \/ late /\ Outpaced /\ cur.cmd = "L" /\ WriteLate

(* It clears.                                                              *)
Clearing ==
  /\ present
  /\ \/ ~late /\ pc = "ack" /\ op.cmd = "C" /\ fifo = <<>> /\ Unanswered
     \/ Outpaced /\ ~late /\ pc \in {"ack", "idle"} /\ op.cmd = "C" /\ fifo = <<>> /\ Acked
     \/ Outpaced /\ ~late /\ pc = "ack" /\ Unanswered /\ op.cmd = "C" /\ One(fifo, "C", {1})
     \/ Outpaced /\ ~late /\ pc = "ack" /\ Unanswered /\ op.cmd \in Long /\ attempt = 1
          /\ One(fifo, op.cmd, {15, 16})
     \/ Outpaced /\ late /\ pc = "ack" /\ Unanswered /\ op.cmd = "L"
          /\ (One(fifo, "L", {16}) \/ Two(fifo, "L", 15, "L", 1))

(* Nothing is under way: what has been read back is there.                 *)
ReadFrom ==
  \/ op.cmd = "L" /\ Head(replies).cmd = "G" /\ \E s \in Slots : Head(replies).arg = flash[s]
  \/ op.cmd = "S" /\ Head(replies).cmd = "Q" /\ Head(replies).arg = settings

Settled ==
  /\ pc = "ack" => \A i \in 1..Len(replies) : replies[i].cmd \in {"K", "E"}
  /\ pc = "verify" => Unanswered \/ (Len(replies) = 1 /\ ReadFrom)

Line ==
  /\ fw \in {"idle", "payload"} => ~late
  /\ fw = "idle" => IF fifo = <<>> THEN Settled ELSE Fresh \/ Stale
  /\ fw = "payload" => Cut
  /\ fw \in {"erase", "program"} => Writing
  /\ fw \in {"clear0", "clear1"} => Clearing

(* What the answers and the client's results mean.                         *)
Emptied(n) == ~locked => \A t \in Slots : t < n => flash[t] = Blank

Clean ==
  chip = "prompt" /\ op.cmd = "C" /\ pc = "ack" =>
    /\ fw = "clear1" => Emptied(Sect)
    /\ replies # <<>> => Len(replies) = 1 /\ (Head(replies).cmd = "K" => Emptied(N))

Meaning ==
  /\ pc = "report" => settings = Ok(op.rec)
  /\ outcome = "stored" /\ op.cmd \in Long => ~Waiting
  /\ Clean /\ ReportsHold

Honest == Line /\ Meaning

(* How many bytes are in the FIFO.                                         *)
LEMMA BytesOf ==
  ASSUME NEW q \in Seq(Command)
  PROVE  /\ q = <<>> => Bytes(q) = 0
         /\ Len(q) = 1 => Bytes(q) = q[1].n
         /\ Len(q) = 2 => Bytes(q) = q[1].n + q[2].n
<1> DEFINE Sums(f) == f = [i \in 0..Len(q) |-> IF i = 0 THEN 0 ELSE f[i - 1] + q[i].n]
           sum == CHOOSE f : Sums(f)
           upTo2 == [i \in 0..Len(q) |-> IF i = 0 THEN 0 ELSE IF i = 1 THEN q[1].n
                                         ELSE q[1].n + q[2].n]
<1>1. Bytes(q) = sum[Len(q)]
  BY DEF Bytes
<1>2. \A i \in 1..Len(q) : q[i].n \in Int
  BY DEF Command
<1>3. ASSUME Len(q) \in 0..2 PROVE Sums(upTo2)
  BY <1>2, <1>3
<1>4. ASSUME Len(q) \in 0..2 PROVE Sums(sum)
  <2> HIDE DEF Sums, upTo2
  <2> QED BY <1>3, <1>4
<1> HIDE DEF sum
<1>5. ASSUME Len(q) \in 0..2 PROVE sum[0] = 0
  BY <1>4, <1>5
<1>6. ASSUME Len(q) \in 1..2 PROVE sum[1] = q[1].n
  BY <1>2, <1>4, <1>5, <1>6
<1>7. ASSUME Len(q) = 2 PROVE sum[2] = q[1].n + q[2].n
  BY <1>2, <1>4, <1>6, <1>7
<1>8. ASSUME q = <<>> PROVE Bytes(q) = 0
  <2>1. Len(q) = 0
    BY <1>8
  <2> QED BY <1>1, <1>5, <2>1
<1>9. ASSUME Len(q) = 1 PROVE Bytes(q) = q[1].n
  BY <1>1, <1>6, <1>9
<1>10. ASSUME Len(q) = 2 PROVE Bytes(q) = q[1].n + q[2].n
  BY <1>1, <1>7, <1>10
<1> QED BY <1>8, <1>9, <1>10

LEMMA Items ==
  ASSUME NEW q \in Seq(Command)
  PROVE  /\ q # <<>> => Head(q) \in Command /\ Head(q) = q[1] /\ Tail(q) \in Seq(Command)
         /\ q # <<>> /\ Tail(q) = <<>> => Len(q) = 1
         /\ q # <<>> /\ Tail(q) # <<>> /\ Tail(Tail(q)) = <<>> => Len(q) = 2 /\ Head(Tail(q)) = q[2]
<1>1. q # <<>> => /\ Head(q) \in Command /\ Head(q) = q[1] /\ Tail(q) \in Seq(Command)
                  /\ Len(Tail(q)) = Len(q) - 1 /\ Len(q) >= 1
  OBVIOUS
<1>2. Len(<<>>) = 0
  OBVIOUS
<1>3. ASSUME q # <<>>, Tail(q) = <<>> PROVE Len(q) = 1
  <2>1. Len(Tail(q)) = 0
    BY <1>2, <1>3
  <2> QED BY <1>1, <1>3, <2>1
<1>4. ASSUME q # <<>>, Tail(q) # <<>>, Tail(Tail(q)) = <<>>
      PROVE  Len(q) = 2 /\ Head(Tail(q)) = q[2]
  <2>1. Tail(q) \in Seq(Command)
    BY <1>1, <1>4
  <2>2. Len(Tail(Tail(q))) = Len(Tail(q)) - 1 /\ Len(Tail(q)) >= 1
    BY <1>4, <2>1
  <2>3. Len(Tail(Tail(q))) = 0
    BY <1>2, <1>4
  <2>4. Len(q) = 2
    BY <1>1, <1>4, <2>2, <2>3
  <2>5. Head(Tail(q)) = Tail(q)[1] /\ Tail(q)[1] = q[2]
    BY <1>4, <2>1, <2>4
  <2> QED BY <2>4, <2>5
<1> QED BY <1>1, <1>3, <1>4

LEMMA BytesAre ==
  ASSUME LineTyped
  PROVE  /\ fifo = <<>> => Bytes(fifo) = 0
         /\ \A c, n : One(fifo, c, {n}) => Bytes(fifo) = n
         /\ \A c, m, d, n : Two(fifo, c, m, d, n) => Bytes(fifo) = m + n
<1>1. fifo \in Seq(Command)
  BY DEF LineTyped
<1>2. ASSUME NEW c, NEW n, One(fifo, c, {n}) PROVE Bytes(fifo) = n
  BY <1>1, <1>2, BytesOf, Items DEF One
<1>3. ASSUME NEW c, NEW m, NEW d, NEW n, Two(fifo, c, m, d, n) PROVE Bytes(fifo) = m + n
  BY <1>1, <1>3, BytesOf, Items DEF One, Two
<1> QED BY <1>1, <1>2, <1>3, BytesOf

(* What comes in of what the client asks.                                  *)
LEMMA AsksIdle ==
  ASSUME LineTyped, fw = "idle", fifo = <<>>, NEW f, Sendable(f), NEW wait, ask(f, wait)
  PROVE  /\ pc' = wait /\ Unanswered'
         /\ One(fifo', f.cmd, Least(Size(f.cmd), FifoLen)..Size(f.cmd))
<1>1. PICK n \in Least(Size(f.cmd), Room)..Least(Size(f.cmd), capacity(f)) :
        fifo' = IF n = 0 THEN fifo ELSE Append(fifo, Part(f, n))
  BY DEF ask, deliver
<1>2. Room = 16 /\ capacity(f) = Size(f.cmd) /\ Size(f.cmd) \in Nat \ {0}
  BY BytesAre DEF Room, FifoLen, capacity, Size
<1>3. n \in Least(Size(f.cmd), 16)..Size(f.cmd) /\ n # 0
  BY <1>1, <1>2 DEF Least
<1>4. fifo' = Append(<<>>, Part(f, n))
  BY <1>1, <1>3
<1>5. One(fifo', f.cmd, {n})
  BY <1>4 DEF One, Part
<1> QED BY <1>3, <1>5 DEF One, ask, Unanswered, FifoLen

(* Otherwise it is what there is room for.                                 *)
LEMMA AsksBusy ==
  ASSUME Typed, NEW f, Sendable(f), NEW wait, ask(f, wait), NEW b \in 0..16, Bytes(fifo) = b,
         \/ fw = "payload" /\ Size(f.cmd) <= 16 - b /\ cur.n <= Size(cur.cmd)
         \/ fw \notin {"idle", "payload"}
         \/ fw = "idle" /\ fifo # <<>> /\ Head(fifo).cmd \in {"C", "L", "S"}
  PROVE  /\ pc' = wait /\ Unanswered'
         /\ \E n \in Int :
              /\ n = Least(Size(f.cmd), 16 - b)
              /\ fifo' = IF n = 0 THEN fifo ELSE Append(fifo, Part(f, n))
<1>1. PICK n \in Least(Size(f.cmd), Room)..Least(Size(f.cmd), capacity(f)) :
        fifo' = IF n = 0 THEN fifo ELSE Append(fifo, Part(f, n))
  BY DEF ask, deliver
<1>2. Room = 16 - b /\ Size(f.cmd) \in Nat
  BY Sending DEF Room, FifoLen
<1>3. Least(Size(f.cmd), capacity(f)) = Least(Size(f.cmd), 16 - b)
  <2>1. CASE fw = "payload" /\ Size(f.cmd) <= 16 - b /\ cur.n <= Size(cur.cmd)
    <3>1. capacity(f) = Room + Size(cur.cmd) - cur.n
      BY <2>1 DEF capacity
    <3>2. cur.n \in Int /\ Size(cur.cmd) \in Nat
      BY <2>1, Sending DEF Typed, FlashTyped, NoCmd, Part, Cmd, Long
    <3>3. PICK k : k = capacity(f)
      OBVIOUS
    <3>4. k \in Int /\ Size(f.cmd) <= k
      BY <1>2, <2>1, <3>1, <3>2, <3>3
    <3>5. Least(Size(f.cmd), k) = Size(f.cmd)
      BY <1>2, <3>4 DEF Least
    <3>6. Least(Size(f.cmd), 16 - b) = Size(f.cmd)
      BY <1>2, <2>1 DEF Least
    <3> QED BY <3>3, <3>5, <3>6
  <2>2. CASE fw \notin {"idle", "payload"}
    BY <1>2, <2>2 DEF capacity
  <2>3. CASE fw = "idle" /\ fifo # <<>> /\ Head(fifo).cmd \in {"C", "L", "S"}
    <3>1. 1 \in 1..Len(fifo) /\ fifo[1] = Head(fifo)
      BY <2>3 DEF Typed, LineTyped
    <3>2. capacity(f) = Room
      BY <2>3, <3>1 DEF capacity
    <3> QED BY <1>2, <3>2
  <2> QED BY <2>1, <2>2, <2>3
<1>4. n = Least(Size(f.cmd), 16 - b) /\ n \in Int
  BY <1>1, <1>2, <1>3 DEF Least
<1> QED BY <1>1, <1>4 DEF ask, Unanswered

LEMMA Appended ==
  ASSUME LineTyped, NEW f, NEW n \in Int, Sendable(f), fifo' = Append(fifo, Part(f, n))
  PROVE  /\ fifo = <<>> => One(fifo', f.cmd, {n})
         /\ \A c, m : One(fifo, c, {m}) => Two(fifo', c, m, f.cmd, n)
<1>1. Part(f, n) \in Command /\ Part(f, n).cmd = f.cmd /\ Part(f, n).n = n
  BY DEF Sendable, Part
<1>2. ASSUME fifo = <<>> PROVE One(fifo', f.cmd, {n})
  BY <1>1, <1>2 DEF One
<1>3. ASSUME NEW c, NEW m, One(fifo, c, {m}) PROVE Two(fifo', c, m, f.cmd, n)
  <2>1. fifo \in Seq(Command) /\ fifo # <<>> /\ Tail(fifo) = <<>> /\ Len(fifo) = 1
    BY <1>3, Items DEF LineTyped, One
  <2>2. /\ fifo' \in Seq(Command) /\ Len(fifo') = 2
        /\ fifo'[1] = fifo[1] /\ fifo'[2] = Part(f, n)
    BY <1>1, <2>1
  <2>3. /\ fifo' # <<>> /\ Head(fifo') = Head(fifo)
        /\ Tail(fifo') \in Seq(Command) /\ Len(Tail(fifo')) = 1 /\ Tail(fifo')[1] = Part(f, n)
    BY <2>1, <2>2
  <2>4. Tail(fifo') # <<>> /\ Tail(Tail(fifo')) = <<>> /\ Head(Tail(fifo')) = Part(f, n)
    BY <2>3
  <2>5. One(Tail(fifo'), f.cmd, {n})
    BY <1>1, <2>4 DEF One
  <2> QED BY <1>3, <2>3, <2>5 DEF One, Two
<1> QED BY <1>2, <1>3

LEMMA CallIs ==
  ASSUME Typed, pc # "idle"
  PROVE  op.cmd \in {"L", "S", "C"} /\ outcome = "none"
BY DEF Typed, CallTyped, Calls

(* A call begins or goes on when nothing is under way.                     *)
LEMMA AsksFresh ==
  ASSUME Typed, fw = "idle", fifo = <<>>, ~late, UNCHANGED fwVars,
         NEW f, Sendable(f), NEW wait, ask(f, wait), outcome' # "stored",
         \/ wait = "ack" /\ f.cmd = op'.cmd
         \/ wait \in {"head", "report"} /\ f.cmd = "H"
         \/ wait = "verify" /\ op'.cmd = "L" /\ f.cmd = "G"
         \/ wait = "verify" /\ op'.cmd = "S" /\ f.cmd = "Q",
         wait = "report" => settings' = Ok(op'.rec)
  PROVE  Honest'
<1>1. /\ pc' = wait /\ Unanswered'
      /\ One(fifo', f.cmd, Least(Size(f.cmd), FifoLen)..Size(f.cmd))
  BY AsksIdle DEF Typed
<1>2. /\ Least(Size("H"), FifoLen)..Size("H") = {1} /\ Least(Size("G"), FifoLen)..Size("G") = {4}
      /\ Least(Size("Q"), FifoLen)..Size("Q") = {1}
  BY Sending DEF Least, FifoLen
<1>3. Fresh' /\ fifo' # <<>>
  BY <1>1, <1>2 DEF Fresh, One
<1>4. Line'
  BY <1>3 DEF Line, fwVars
<1>5. Meaning'
  BY <1>1 DEF Meaning, Clean, Unanswered, ReportsHold, AppendedIsStored, SettingsAreSaved,
    ClearedIsEmpty, fwVars
<1> QED BY <1>4, <1>5 DEF Honest

(* A call returns when nothing is under way.                               *)
LEMMA ReturnsSettled ==
  ASSUME fw = "idle", fifo = <<>>, ~late, UNCHANGED fwVars, NEW result, return(result),
         result = "stored" => ReportsHold'
  PROVE  Honest'
<1>1. pc' = "idle" /\ fifo' = <<>> /\ outcome' = result /\ fw' = "idle" /\ ~late'
  BY DEF return, fwVars
<1>2. ReportsHold'
  BY <1>1 DEF ReportsHold, AppendedIsStored, SettingsAreSaved, ClearedIsEmpty
<1> QED BY <1>1, <1>2 DEF Honest, Line, Settled, Meaning, Clean, Waiting

LEMMA RetriesSettled ==
  ASSUME Typed, fw = "idle", fifo = <<>>, ~late, UNCHANGED fwVars, pc # "idle", retry, op' = op
  PROVE  Honest'
<1>1. CASE op.cmd # "C" /\ attempt < MaxRetries
  <2>1. op \in Calls /\ op.cmd \in Long
    BY <1>1, CallIs DEF Typed, CallTyped, Long
  <2>2. ask(payload(op), "ack") /\ UNCHANGED outcome
    BY <1>1 DEF retry
  <2>3. Sendable(payload(op)) /\ payload(op).cmd = op'.cmd
    BY <2>1, PayloadTyped DEF payload, Cmd
  <2>4. outcome' # "stored"
    BY <2>2, CallIs
  <2> QED BY <2>2, <2>3, <2>4, AsksFresh
<1>2. CASE ~(op.cmd # "C" /\ attempt < MaxRetries)
  <2>1. return("failed")
    BY <1>2 DEF retry
  <2> QED BY <2>1, ReturnsSettled
<1> QED BY <1>1, <1>2

(* An ack the client takes for its own while something is under way.       *)
LEMMA MeaningBusy ==
  ASSUME Outpaced', outcome' # "stored" \/ op'.cmd = "C", pc' # "report"
  PROVE  Meaning'
<1>1. ReportsHold'
  <2>1. chip' # "prompt"
    BY DEF Outpaced
  <2>2. (outcome = "stored" /\ op.cmd = "L")' = FALSE /\ (outcome = "stored" /\ op.cmd = "S")' = FALSE
    OBVIOUS
  <2> QED BY <2>1, <2>2 DEF ReportsHold, AppendedIsStored, SettingsAreSaved, ClearedIsEmpty
<1> QED BY <1>1 DEF Outpaced, Meaning, Clean, Long

LEMMA AckAsks ==
  ASSUME Typed, Outpaced, UNCHANGED <<fwVars, op>>, UNCHANGED <<present, locked, chip>>,
         fw # "idle" \/ fifo # <<>>, op.cmd \in Long,
         NEW wait, ask(Cmd(IF op.cmd = "L" THEN "H" ELSE "Q", NoRec), wait),
         wait = IF op.cmd = "L" THEN "head" ELSE "verify",
         \/ fw = "idle" /\ StaleAck /\ replies # <<>>
         \/ fw = "payload" /\ CutAck /\ op.cmd = cur.cmd
  PROVE  (fw = "idle" => Stale') /\ (fw = "payload" => Cut')
<1>f. PICK q, f : f = Cmd(q, NoRec) /\ q = IF op.cmd = "L" THEN "H" ELSE "Q"
  OBVIOUS
<1>1. Sendable(f) /\ Size(q) = 1 /\ f.cmd = q
  BY <1>f, Sendables, Sending DEF Cmd
<1>2. Outpaced' /\ fw' = fw
  BY DEF Outpaced, fwVars
<1>a. ask(f, wait)
  BY <1>f
<1>o. PICK one \in Int : one = 1
  OBVIOUS
<1>3. ASSUME NEW b \in 0..16, Bytes(fifo) = b,
             \/ fw = "payload" /\ b <= 15
             \/ fw = "idle" /\ fifo # <<>> /\ Head(fifo).cmd \in {"C", "L", "S"}
      PROVE  /\ pc' = wait /\ Unanswered'
             /\ fifo' = IF b = 16 THEN fifo ELSE Append(fifo, Part(f, one))
  <2>1. fw = "payload" => Size(f.cmd) <= 16 - b /\ cur.n <= Size(cur.cmd)
    <3>1. fw = "payload" => cur.cmd \in Long /\ cur.n \in {15, 16}
      BY DEF CutAck, Typed, FlashTyped
    <3> QED BY <1>1, <1>3, <3>1, Sending DEF Long
  <2>2. Least(Size(f.cmd), 16 - b) = IF b = 16 THEN 0 ELSE 1
    BY <1>1 DEF Least
  <2>3. PICK n \in Int : /\ n = Least(Size(f.cmd), 16 - b) /\ pc' = wait /\ Unanswered'
                         /\ fifo' = IF n = 0 THEN fifo ELSE Append(fifo, Part(f, n))
    BY <1>a, <1>1, <1>3, <2>1, AsksBusy
  <2> QED BY <1>o, <2>2, <2>3
<1>4. CASE fw = "idle"
  <2>1. \/ \E n \in {15, 16} : One(fifo, op.cmd, {n})
        \/ Two(fifo, "L", 15, "L", 1) /\ op.cmd = "L"
    BY <1>4 DEF StaleAck, Unanswered, One
  <2>2. CASE \E n \in {15, 16} : One(fifo, op.cmd, {n})
    <3>1. PICK n \in {15, 16} : One(fifo, op.cmd, {n})
      BY <2>2
    <3>2. Bytes(fifo) = n /\ fifo # <<>> /\ Head(fifo).cmd \in {"C", "L", "S"}
      BY <3>1, BytesAre DEF Typed, One, Long
    <3>3. /\ pc' = wait /\ Unanswered'
          /\ fifo' = IF n = 16 THEN fifo ELSE Append(fifo, Part(f, one))
      BY <1>3, <1>4, <3>2
    <3>4. CASE n = 16
      <4>1. One(fifo', op.cmd, {16})
        BY <3>1, <3>3, <3>4
      <4> QED BY <1>2, <1>4, <3>3, <4>1 DEF Stale, StaleQuery, Long
    <3>5. CASE n = 15
      <4>0. fifo' = Append(fifo, Part(f, one))
        BY <3>3, <3>5
      <4>1. Two(fifo', op.cmd, n, q, one)
        BY <1>1, <1>o, <3>1, <4>0, Appended DEF Typed
      <4> QED BY <1>2, <1>f, <1>o, <3>3, <3>5, <4>1, <1>4 DEF Stale, StaleQuery, Long
    <3> QED BY <3>4, <3>5
  <2>3. CASE Two(fifo, "L", 15, "L", 1) /\ op.cmd = "L"
    <3>1. Bytes(fifo) = 16 /\ fifo # <<>> /\ Head(fifo).cmd \in {"C", "L", "S"}
      <4>1. Bytes(fifo) = 15 + 1
        BY <2>3, BytesAre DEF Typed
      <4> QED BY <2>3, <4>1 DEF Two
    <3>2. pc' = wait /\ Unanswered' /\ fifo' = fifo
      BY <1>3, <1>4, <3>1
    <3> QED BY <1>2, <1>4, <2>3, <3>2 DEF Stale, StaleQuery
  <2> QED BY <2>1, <2>2, <2>3
<1>5. CASE fw = "payload"
  <2>0. op' = op /\ cur' = cur
    BY DEF fwVars
  <2>1. CASE fifo = <<>> /\ cur.n \in {15, 16}
    <3>1. Bytes(fifo) = 0
      BY <2>1, BytesAre DEF Typed
    <3>2. pc' = wait /\ Unanswered' /\ fifo' = Append(fifo, Part(f, one))
      BY <1>3, <1>5, <3>1
    <3>3. One(fifo', q, {one})
      BY <1>1, <1>o, <2>1, <3>2, Appended DEF Typed
    <3> QED BY <1>2, <1>f, <1>o, <1>5, <2>0, <2>1, <3>2, <3>3 DEF Cut, CutQuery, Long
  <2>2. CASE One(fifo, "L", {1}) /\ cur.cmd = "L" /\ cur.n = 15
    <3>1. Bytes(fifo) = 1
      BY <2>2, BytesAre DEF Typed
    <3>2. pc' = wait /\ Unanswered' /\ fifo' = Append(fifo, Part(f, one))
      BY <1>3, <1>5, <3>1
    <3>3. Two(fifo', "L", 1, q, one)
      BY <1>1, <1>o, <2>2, <3>2, Appended DEF Typed
    <3> QED BY <1>2, <1>f, <1>o, <1>5, <2>0, <2>2, <3>2, <3>3 DEF Cut, CutQuery, Long
  <2> QED BY <1>5, <2>1, <2>2 DEF CutAck
<1> QED BY <1>4, <1>5

LEMMA BusyIs ==
  ASSUME Typed, Honest, Waiting
  PROVE  /\ Acked /\ (replies # <<>> \/ pc = "idle" => Outpaced)
         /\ pc \notin {"ack", "idle"} => Unanswered
         /\ pc = "report" => fw = "idle"
<1>1. fw \in {"idle", "payload", "erase", "program", "clear0", "clear1"}
  BY DEF Typed, FlashTyped
<1>2. CASE fw = "idle"
  BY <1>2 DEF Waiting, Honest, Line, Fresh, Stale, StaleAck, Unanswered, Acked
<1>3. CASE fw = "payload"
  BY <1>3 DEF Honest, Line, Cut, CutQuery, Unanswered, Acked
<1>4. CASE fw \in {"erase", "program"}
  BY <1>4 DEF Honest, Line, Writing, WriteLate, Unanswered, Acked
<1>5. CASE fw \in {"clear0", "clear1"}
  BY <1>5 DEF Honest, Line, Clearing, Unanswered, Acked
<1> QED BY <1>1, <1>2, <1>3, <1>4, <1>5

LEMMA HonestGetAck ==
  ASSUME Typed, Honest, GetAck
  PROVE  Honest'
<1>1. /\ pc = "ack" /\ replies # <<>> /\ op' = op /\ outcome = "none"
      /\ UNCHANGED <<chipVars, fwVars, pastVars>> /\ op.cmd \in {"L", "S", "C"}
  BY CallIs DEF GetAck, clientRest
<1>2. fw = "idle" => ~late
  BY DEF Honest, Line
<1>3. CASE ~Waiting
  <2>1. fw = "idle" /\ fifo = <<>>
    BY <1>3 DEF Waiting
  <2>2. Head(replies).cmd \in {"K", "E"}
    <3>1. 1 \in 1..Len(replies) /\ Head(replies) = replies[1]
      BY <1>1 DEF Typed, LineTyped
    <3> QED BY <1>1, <2>1, <3>1 DEF Honest, Line, Settled
  <2>3. CASE Head(replies).cmd = "K" /\ op.cmd = "L"
    <3>1. ask(Cmd("H", NoRec), "head") /\ UNCHANGED outcome
      BY <2>3 DEF GetAck
    <3>2. Sendable(Cmd("H", NoRec)) /\ Cmd("H", NoRec).cmd = "H"
      BY Sendables DEF Cmd
    <3> QED BY <1>1, <1>2, <2>1, <3>1, <3>2, AsksFresh
  <2>4. CASE Head(replies).cmd = "K" /\ op.cmd = "S"
    <3>1. ask(Cmd("Q", NoRec), "verify") /\ UNCHANGED outcome
      BY <2>4 DEF GetAck
    <3>2. Sendable(Cmd("Q", NoRec)) /\ Cmd("Q", NoRec).cmd = "Q"
      BY Sendables DEF Cmd
    <3> QED BY <1>1, <1>2, <2>1, <2>4, <3>1, <3>2, AsksFresh
  <2>5. CASE Head(replies).cmd = "K" /\ op.cmd = "C"
    <3>1. return("stored")
      BY <2>5 DEF GetAck
    <3>2. chip = "prompt" => Emptied(N)
      BY <1>1, <2>5 DEF Honest, Meaning, Clean
    <3>3. chip = "prompt" /\ ~locked => \A s \in Slots : flash[s] = Blank
      BY <3>2, Sizes DEF Emptied
    <3>4. ReportsHold'
      BY <1>1, <2>5, <3>3, NoRecIsBlank DEF ReportsHold, AppendedIsStored, SettingsAreSaved,
        ClearedIsEmpty, IsValid, chipVars, pastVars
    <3> QED BY <1>1, <1>2, <2>1, <3>1, <3>4, ReturnsSettled
  <2>6. CASE Head(replies).cmd = "E"
    <3>1. return("failed")
      BY <2>6 DEF GetAck
    <3> QED BY <1>1, <1>2, <2>1, <3>1, ReturnsSettled
  <2> QED BY <1>1, <2>2, <2>3, <2>4, <2>5, <2>6
<1>4. CASE Waiting
  <2>1. Acked /\ Outpaced /\ Head(replies).cmd = "K"
    BY <1>1, <1>4, BusyIs DEF Acked
  <2>2. /\ fw \in {"idle", "payload", "erase", "program", "clear0", "clear1"}
        /\ fw = "payload" => cur.cmd \in Long
    BY DEF Typed, FlashTyped
  <2>3. Outpaced' /\ UNCHANGED <<fw, cur, late>>
    BY <1>1, <2>1 DEF Outpaced, chipVars, fwVars, pastVars
  <2>4. CASE op.cmd = "C"
    <3>1. return("stored") /\ UNCHANGED replies
      BY <2>1, <2>4 DEF GetAck
    <3>2. pc' = "idle" /\ UNCHANGED <<fifo, op, replies, present>>
      BY <1>1, <3>1 DEF return, chipVars
    <3>3. CASE fw = "idle"
      <4>1. Stale /\ fifo # <<>>
        BY <1>1, <1>4, <3>3 DEF Waiting, Honest, Line, Fresh, Unanswered
      <4>2. Stale'
        BY <1>1, <2>3, <2>4, <3>2, <4>1 DEF Stale, StaleAck, StaleQuery, Unanswered, Acked, Long
      <4> QED BY <1>2, <2>3, <2>4, <3>2, <3>3, <4>1, <4>2, MeaningBusy DEF Honest, Line
    <3>4. CASE fw = "payload"
      BY <2>2, <2>4, <3>4 DEF Honest, Line, Cut, Long
    <3>5. CASE fw \in {"erase", "program"}
      BY <1>1, <3>5 DEF Honest, Line, Writing, Unanswered
    <3>6. CASE fw \in {"clear0", "clear1"}
      <4>1. Clearing
        BY <3>6 DEF Honest, Line
      <4>2. Clearing'
        BY <1>1, <2>3, <2>4, <3>2, <4>1 DEF Clearing, Unanswered, Acked, Long
      <4> QED BY <2>3, <2>4, <3>2, <3>6, <4>2, MeaningBusy DEF Honest, Line
    <3> QED BY <2>2, <3>3, <3>4, <3>5, <3>6
  <2>5. CASE op.cmd \in Long
    <3>1. PICK wait : /\ wait = IF op.cmd = "L" THEN "head" ELSE "verify"
                      /\ ask(Cmd(IF op.cmd = "L" THEN "H" ELSE "Q", NoRec), wait)
                      /\ UNCHANGED outcome
      BY <2>1, <2>5 DEF GetAck, Long
    <3>2. /\ fw \in {"idle", "payload"} /\ (fw = "idle" => StaleAck)
          /\ fw = "payload" => CutAck /\ op.cmd = cur.cmd
      <4>1. CASE fw = "idle"
        BY <1>1, <1>4, <2>5, <4>1 DEF Waiting, Honest, Line, Fresh, Stale, Unanswered, Long
      <4>2. CASE fw = "payload"
        BY <1>1, <4>2 DEF Honest, Line, Cut, Unanswered
      <4>3. CASE fw \in {"erase", "program"}
        BY <1>1, <4>3 DEF Honest, Line, Writing, Unanswered
      <4>4. CASE fw \in {"clear0", "clear1"}
        BY <1>1, <2>5, <4>4 DEF Honest, Line, Clearing, Unanswered, Long
      <4> QED BY <2>2, <4>1, <4>2, <4>3, <4>4
    <3>3. (fw = "idle" => Stale') /\ (fw = "payload" => Cut')
      <4>1. fw # "idle" \/ fifo # <<>>
        BY <1>4 DEF Waiting
      <4>2. UNCHANGED <<fwVars, op>> /\ UNCHANGED <<present, locked, chip>>
        BY <1>1 DEF chipVars, pastVars
      <4> QED BY <1>1, <2>1, <2>5, <3>1, <3>2, <4>1, <4>2, AckAsks
    <3>4. fw = "idle" => fifo' # <<>>
      BY <3>3 DEF Stale, StaleAck, StaleQuery, One, Two
    <3>5. pc' = wait
      BY <3>1 DEF ask
    <3>6. Meaning'
      BY <1>1, <2>3, <3>1, <3>5, MeaningBusy
    <3>7. ~late
      BY <3>2 DEF Honest, Line
    <3> QED BY <2>3, <3>2, <3>3, <3>4, <3>6, <3>7 DEF Honest, Line
  <2> QED BY <1>1, <2>4, <2>5 DEF Long
<1> QED BY <1>3, <1>4
(* What is asked while something is under way goes behind what is there.   *)
LEMMA AsksAre ==
  ASSUME Typed, NEW f, Sendable(f), NEW wait, ask(f, wait),
         \/ fw \notin {"idle", "payload"}
         \/ fw = "idle" /\ fifo # <<>> /\ Head(fifo).cmd \in {"C", "L", "S"}
  PROVE  /\ pc' = wait /\ Unanswered'
         /\ \A k \in Int : fifo = <<>> /\ k = Least(Size(f.cmd), 16) => One(fifo', f.cmd, {k})
         /\ \A c, m, k : /\ m \in 0..15 /\ k \in Int
                          /\ One(fifo, c, {m}) /\ k = Least(Size(f.cmd), 16 - m)
                          => Two(fifo', c, m, f.cmd, k)
         /\ \A c : One(fifo, c, {16}) => fifo' = fifo
<1>1. ASSUME NEW b \in 0..16, Bytes(fifo) = b
      PROVE  /\ pc' = wait /\ Unanswered'
             /\ \E n \in Int : /\ n = Least(Size(f.cmd), 16 - b)
                               /\ fifo' = IF n = 0 THEN fifo ELSE Append(fifo, Part(f, n))
  BY <1>1, AsksBusy
<1>2. Size(f.cmd) \in Nat \ {0}
  BY DEF Size
<1>3. pc' = wait /\ Unanswered'
  BY DEF ask, Unanswered
<1>4. ASSUME NEW k \in Int, fifo = <<>>, k = Least(Size(f.cmd), 16)
      PROVE  One(fifo', f.cmd, {k})
  <2>1. Bytes(fifo) = 0
    BY <1>4, BytesAre DEF Typed
  <2>2. k # 0 /\ 16 - 0 = 16
    BY <1>2, <1>4 DEF Least
  <2>3. PICK n \in Int : /\ n = Least(Size(f.cmd), 16 - 0)
                         /\ fifo' = IF n = 0 THEN fifo ELSE Append(fifo, Part(f, n))
    BY <1>1, <2>1
  <2>4. fifo' = Append(fifo, Part(f, k))
    BY <1>4, <2>2, <2>3
  <2> QED BY <1>4, <2>4, Appended DEF Typed
<1>5. ASSUME NEW c, NEW m \in 0..15, NEW k \in Int, One(fifo, c, {m}),
             k = Least(Size(f.cmd), 16 - m)
      PROVE  Two(fifo', c, m, f.cmd, k)
  <2>1. Bytes(fifo) = m
    BY <1>5, BytesAre DEF Typed
  <2>2. k # 0
    BY <1>2, <1>5 DEF Least
  <2>3. PICK n \in Int : /\ n = Least(Size(f.cmd), 16 - m)
                         /\ fifo' = IF n = 0 THEN fifo ELSE Append(fifo, Part(f, n))
    BY <1>1, <2>1
  <2>4. fifo' = Append(fifo, Part(f, k))
    BY <1>5, <2>2, <2>3
  <2> QED BY <1>5, <2>4, Appended DEF Typed
<1>6. ASSUME NEW c, One(fifo, c, {16}) PROVE fifo' = fifo
  <2>1. Bytes(fifo) = 16
    BY <1>6, BytesAre DEF Typed
  <2>2. PICK n \in Int : /\ n = Least(Size(f.cmd), 16 - 16)
                         /\ fifo' = IF n = 0 THEN fifo ELSE Append(fifo, Part(f, n))
    BY <1>1, <2>1
  <2> QED BY <1>2, <2>2 DEF Least
<1> QED BY <1>3, <1>4, <1>5, <1>6

LEMMA CallHonest ==
  ASSUME Typed, Honest, pc = "idle", NEW f, Sendable(f), f.cmd = op'.cmd,
         op'.cmd \in {"L", "S", "C"}, ask(f, "ack"), attempt' = 1, outcome' = "none",
         UNCHANGED <<chipVars, fwVars, pastVars>>
  PROVE  Honest'
<1>1. CASE ~Waiting
  <2>1. fw = "idle" /\ fifo = <<>> /\ ~late
    BY <1>1 DEF Waiting, Honest, Line
  <2> QED BY <2>1, AsksFresh
<1>2. CASE Waiting
  <2>1. Outpaced' /\ UNCHANGED <<fw, cur, late, present, locked>>
    BY <1>2, BusyIs DEF Outpaced, chipVars, fwVars, pastVars
  <2>2. pc' = "ack"
    BY DEF ask
  <2>3. Meaning'
    BY <2>1, <2>2, MeaningBusy
  <2>4. fw \in {"idle", "payload", "erase", "program", "clear0", "clear1"}
    BY DEF Typed, FlashTyped
  <2>5. PICK k \in Int : k = Least(Size(f.cmd), 16)
    BY Sending DEF Least
  <2>o. PICK one \in 0..15 : one = 1
    OBVIOUS
  <2>6. PICK j \in Int : j = Least(Size(f.cmd), 16 - one)
    BY <2>o, Sending DEF Least
  <2>7. (f.cmd = "C" => k = 1 /\ j = 1) /\ (f.cmd \in Long => k = 16 /\ j = 15)
    BY <2>o, <2>5, <2>6, Sending DEF Least, Long
  <2>8. CASE fw = "idle"
    <3>1. One(fifo, "C", {one}) /\ fifo # <<>> /\ Head(fifo).cmd = "C" /\ ~late
      BY <1>2, <2>8, <2>o DEF Waiting, Honest, Line, Fresh, Stale, StaleQuery, One
    <3>2. Unanswered' /\ Two(fifo', "C", one, f.cmd, j)
      BY <2>6, <2>8, <3>1, AsksAre
    <3>3. StaleAck'
      BY <2>7, <2>o, <3>2 DEF StaleAck, Long
    <3>4. Stale' /\ fifo' # <<>>
      BY <2>1, <2>2, <3>2, <3>3 DEF Stale, Two
    <3> QED BY <2>1, <2>3, <2>8, <3>1, <3>4 DEF Honest, Line
  <2>9. CASE fw = "payload"
    BY <2>9 DEF Honest, Line, Cut, CutQuery
  <2>10. CASE fw \in {"erase", "program"}
    <3>1. late /\ cur.cmd = "L" /\ fifo = <<>>
      BY <2>10 DEF Honest, Line, Writing, WriteLate
    <3>2. Unanswered' /\ One(fifo', f.cmd, {k})
      BY <2>5, <2>10, <3>1, AsksAre
    <3>3. WriteLate'
      BY <2>2, <2>7, <3>2 DEF WriteLate, Long
    <3>4. Writing'
      BY <2>1, <3>1, <3>2, <3>3 DEF Writing, Outpaced
    <3> QED BY <2>1, <2>3, <2>10, <3>4 DEF Honest, Line
  <2>11. CASE fw \in {"clear0", "clear1"}
    <3>1. ~late /\ fifo = <<>>
      BY <2>11 DEF Honest, Line, Clearing
    <3>2. Unanswered' /\ One(fifo', f.cmd, {k})
      BY <2>5, <2>11, <3>1, AsksAre
    <3>3. CASE f.cmd = "C"
      BY <2>1, <2>2, <2>3, <2>7, <2>11, <3>1, <3>2, <3>3 DEF Honest, Line, Clearing, Outpaced
    <3>4. CASE f.cmd \in Long
      <4>1. One(fifo', op'.cmd, {15, 16})
        BY <2>7, <3>2, <3>4 DEF One
      <4> QED BY <2>1, <2>2, <2>3, <2>11, <3>1, <3>2, <3>4, <4>1 DEF Honest, Line, Clearing, Outpaced
    <3> QED BY <3>3, <3>4 DEF Long
  <2> QED BY <2>4, <2>8, <2>9, <2>10, <2>11
<1> QED BY <1>1, <1>2

LEMMA HonestCalls ==
  ASSUME Typed, Honest, Call
  PROVE  Honest'
<1>1. CASE flash_log_append
  <2>1. PICK o \in Calls : o = [cmd |-> "L", rec |-> [boot |-> boot, seq |-> seq]]
    BY DEF Calls, Records, Typed, CallTyped
  <2>2. begin(o) /\ UNCHANGED <<chipVars, fwVars, pastVars>> /\ o.cmd \in Long
    BY <1>1, <2>1 DEF flash_log_append, Long
  <2>3. Sendable(payload(o)) /\ payload(o).cmd = o.cmd
    BY <2>2, PayloadTyped DEF payload, Cmd
  <2> QED BY <2>2, <2>3, CallHonest DEF begin, Long
<1>2. CASE \E b \in Blobs : flash_set_settings(b)
  <2>1. PICK b \in Blobs : flash_set_settings(b)
    BY <1>2
  <2>2. PICK o \in Calls : o = [cmd |-> "S", rec |-> b]
    BY DEF Calls
  <2>3. begin(o) /\ UNCHANGED <<chipVars, fwVars, pastVars>> /\ o.cmd \in Long
    BY <2>1, <2>2 DEF flash_set_settings, Long
  <2>4. Sendable(payload(o)) /\ payload(o).cmd = o.cmd
    BY <2>3, PayloadTyped DEF payload, Cmd
  <2> QED BY <2>3, <2>4, CallHonest DEF begin, Long
<1>3. CASE flash_log_clear
  <2>1. Sendable(Cmd("C", NoRec)) /\ Cmd("C", NoRec).cmd = "C"
    BY Sendables DEF Cmd
  <2> QED BY <1>3, <2>1, CallHonest DEF flash_log_clear
<1> QED BY <1>1, <1>2, <1>3 DEF Call

LEMMA HonestLateTimeout ==
  ASSUME Typed, Honest, LateTimeout
  PROVE  Honest'
<1>1. /\ pc # "idle" /\ op' = op /\ op.cmd = "L" /\ fw \notin {"idle", "payload"} /\ ~late
      /\ UNCHANGED <<fw, cur, present, locked>> /\ late' = TRUE /\ chip' # "prompt" /\ retry
      /\ outcome = "none"
  BY CallIs DEF LateTimeout, chipVars
<1>2. op \in Calls /\ op.cmd \in Long
  BY <1>1 DEF Typed, CallTyped, Long
<1>3. PICK f : f = payload(op)
  OBVIOUS
<1>4. Sendable(f) /\ f.cmd = "L"
  BY <1>1, <1>2, <1>3, PayloadTyped DEF payload, Cmd
<1>5. PICK k \in Int : k = Least(Size(f.cmd), 16)
  BY Sending DEF Least
<1>6. k = 16
  BY <1>4, <1>5, Sending DEF Least
<1>7. fw \in {"erase", "program", "clear0", "clear1"}
  BY <1>1 DEF Typed, FlashTyped
<1>8. CASE attempt < MaxRetries
  <2>1. ask(f, "ack") /\ outcome' = outcome
    BY <1>1, <1>3, <1>8 DEF retry
  <2>2. pc' = "ack" /\ Unanswered'
    BY <1>1, <1>4, <2>1, AsksAre
  <2>3. CASE fw \in {"erase", "program"}
    <3>1. present /\ ~locked /\ cur.cmd = "L" /\ fifo = <<>>
      BY <1>1, <2>3 DEF Honest, Line, Writing
    <3>2. One(fifo', "L", {16})
      BY <1>1, <1>4, <1>5, <1>6, <2>1, <3>1, AsksAre
    <3>3. Outpaced' /\ Writing'
      BY <1>1, <1>2, <2>2, <3>1, <3>2 DEF Outpaced, Writing, WriteLate
    <3>4. Meaning'
      BY <1>1, <2>1, <2>2, <3>3, MeaningBusy
    <3> QED BY <1>1, <2>3, <3>3, <3>4 DEF Honest, Line
  <2>4. CASE fw \in {"clear0", "clear1"}
    <3>1. Outpaced /\ present /\ \E n \in {15, 16} : One(fifo, "L", {n})
      BY <1>1, <2>4 DEF Honest, Line, Clearing, One
    <3>2. PICK n \in {15, 16} : One(fifo, "L", {n})
      BY <3>1
    <3>3. One(fifo', "L", {16}) \/ Two(fifo', "L", 15, "L", 1)
      <4>1. CASE n = 16
        <5>1. One(fifo, "L", {16})
          BY <3>2, <4>1
        <5>2. fifo' = fifo
          BY <1>1, <1>4, <2>1, <5>1, AsksAre
        <5> QED BY <5>1, <5>2
      <4>2. CASE n = 15
        <5>1. n \in 0..15
          BY <4>2
        <5>2. PICK j \in Int : j = Least(Size(f.cmd), 16 - n)
          BY <4>2, Sending DEF Least
        <5>3. j = 1
          BY <1>4, <4>2, <5>2, Sending DEF Least
        <5>4. Two(fifo', "L", n, f.cmd, j)
          BY <1>1, <1>4, <2>1, <3>2, <5>1, <5>2, AsksAre
        <5> QED BY <1>4, <4>2, <5>3, <5>4
      <4> QED BY <4>1, <4>2
    <3>4. Outpaced' /\ Clearing'
      BY <1>1, <2>2, <3>1, <3>3 DEF Outpaced, Clearing
    <3>5. Meaning'
      BY <1>1, <2>1, <2>2, <3>4, MeaningBusy
    <3> QED BY <1>1, <2>4, <3>4, <3>5 DEF Honest, Line
  <2> QED BY <1>7, <2>3, <2>4
<1>9. CASE ~(attempt < MaxRetries)
  <2>1. return("failed") /\ UNCHANGED replies
    BY <1>1, <1>9 DEF retry
  <2>2. pc' = "idle" /\ outcome' = "failed" /\ fifo' = fifo
    BY <2>1 DEF return
  <2>3. CASE fw \in {"erase", "program"}
    <3>1. present /\ ~locked /\ cur.cmd = "L" /\ fifo = <<>> /\ Unanswered
      BY <1>1, <2>3 DEF Honest, Line, Writing
    <3>2. Outpaced' /\ Writing'
      BY <1>1, <2>1, <2>2, <3>1 DEF Outpaced, Writing, WriteLate, Unanswered
    <3>3. Meaning'
      BY <1>1, <2>2, <3>2, MeaningBusy
    <3> QED BY <1>1, <2>3, <3>2, <3>3 DEF Honest, Line
  <2>4. CASE fw \in {"clear0", "clear1"}
    <3>1. attempt = 1
      BY <1>1, <2>4 DEF Honest, Line, Clearing
    <3> QED BY <1>9, <3>1, NorAssumption
  <2> QED BY <1>7, <2>3, <2>4
<1> QED BY <1>8, <1>9
(* The client's other steps are taken when nothing is under way.           *)
LEMMA AnsweredIsQuiet ==
  ASSUME Typed, Honest, pc \in {"head", "verify", "report"}, Enough
  PROVE  replies # <<>> /\ fw = "idle" /\ fifo = <<>> /\ ~late
<1>1. replies # <<>>
  <2>1. CASE pc = "verify"
    BY <2>1 DEF Enough
  <2>2. CASE pc # "verify"
    <3>1. Len(replies) > 1 \/ replies # <<>>
      BY <2>2 DEF Enough
    <3>2. Len(<<>>) = 0
      OBVIOUS
    <3> QED BY <3>1, <3>2
  <2> QED BY <2>1, <2>2
<1>2. ~Waiting
  BY <1>1, BusyIs DEF Unanswered
<1> QED BY <1>1, <1>2 DEF Waiting, Honest, Line

LEMMA SavedHolds ==
  ASSUME op'.cmd = "S", settings' = Ok(op'.rec)
  PROVE  ReportsHold'
BY DEF ReportsHold, AppendedIsStored, SettingsAreSaved, ClearedIsEmpty

LEMMA HonestTimeout ==
  ASSUME Typed, Honest, Timeout
  PROVE  Honest'
<1>1. /\ pc # "idle" /\ fw = "idle" /\ fifo = <<>> /\ op' = op
      /\ UNCHANGED <<chipVars, fwVars, pastVars>>
  BY DEF Timeout, Waiting, clientRest
<1>2. ~late
  BY <1>1 DEF Honest, Line
<1>3. CASE pc = "report"
  <2>1. return("stored")
    BY <1>3 DEF Timeout
  <2>2. op.cmd = "S" /\ settings = Ok(op.rec)
    BY <1>3 DEF Honest, Meaning, Typed, CallTyped
  <2>3. ReportsHold'
    BY <1>1, <2>2, SavedHolds DEF chipVars
  <2> QED BY <1>1, <1>2, <2>1, <2>3, ReturnsSettled
<1>4. CASE pc # "report"
  BY <1>1, <1>2, <1>4, RetriesSettled DEF Timeout
<1> QED BY <1>3, <1>4

LEMMA HonestGetHead ==
  ASSUME Typed, Honest, GetHead
  PROVE  Honest'
<1>1. /\ pc = "head" /\ op' = op /\ UNCHANGED <<chipVars, fwVars, pastVars>>
      /\ outcome' = outcome /\ Enough
  BY DEF GetHead, clientRest
<1>2. op.cmd = "L" /\ outcome = "none" /\ replies \in Seq(Reply)
  BY <1>1, CallIs DEF Typed, CallTyped, LineTyped
<1>3. replies # <<>> /\ fw = "idle" /\ fifo = <<>> /\ ~late
  BY <1>1, AnsweredIsQuiet
<1>4. PICK s \in Slots : ask(Cmd("G", s), "verify")
  <2>1. CASE Head(replies).cmd = "H"
    <3>1. Head(replies) \in Reply
      BY <1>2, <1>3
    <3>2. Head(replies).arg \in Slots
      BY <2>1, <3>1 DEF Reply
    <3>3. (Head(replies).arg - 1 + N) % N \in Slots
      BY <3>2, BeforeHead
    <3> QED BY <2>1, <3>3 DEF GetHead
  <2>2. CASE Head(replies).cmd # "H"
    BY <2>2 DEF GetHead
  <2> QED BY <2>1, <2>2
<1>5. PICK f : f = Cmd("G", s)
  OBVIOUS
<1>6. Sendable(f) /\ f.cmd = "G" /\ ask(f, "verify")
  BY <1>4, <1>5, Sendables DEF Cmd
<1> QED BY <1>1, <1>2, <1>3, <1>6, AsksFresh

LEMMA HonestVerify ==
  ASSUME Typed, Honest, Verify
  PROVE  Honest'
<1>1. /\ pc = "verify" /\ op' = op /\ UNCHANGED <<chipVars, fwVars, pastVars>> /\ Enough
  BY DEF Verify, clientRest
<1>2. op.cmd \in Long /\ outcome = "none"
  BY <1>1, CallIs DEF Typed, CallTyped
<1>3. replies # <<>> /\ fw = "idle" /\ fifo = <<>> /\ ~late
  BY <1>1, AnsweredIsQuiet
<1>4. ReadFrom
  BY <1>1, <1>3 DEF Honest, Line, Settled, Unanswered
<1>5. CASE ~ReadBack
  <2>1. retry
    BY <1>5 DEF Verify
  <2> QED BY <1>1, <1>3, <2>1, RetriesSettled
<1>6. CASE ReadBack /\ op.cmd = "L"
  <2>1. return("stored")
    BY <1>6 DEF Verify
  <2>2. \E s \in Slots : flash[s] = Ok(op.rec)
    BY <1>4, <1>6 DEF ReadFrom, ReadBack
  <2>3. ReportsHold'
    BY <1>1, <1>6, <2>2 DEF ReportsHold, AppendedIsStored, SettingsAreSaved, ClearedIsEmpty, chipVars
  <2> QED BY <1>1, <1>3, <2>1, <2>3, ReturnsSettled
<1>7. CASE ReadBack /\ op.cmd = "S"
  <2>1. ask(Cmd("H", NoRec), "report") /\ UNCHANGED outcome
    BY <1>7 DEF Verify
  <2>2. settings = Ok(op.rec)
    BY <1>4, <1>7 DEF ReadFrom, ReadBack
  <2>3. Sendable(Cmd("H", NoRec)) /\ Cmd("H", NoRec).cmd = "H"
    BY Sendables DEF Cmd
  <2>4. settings' = Ok(op'.rec)
    BY <1>1, <2>2 DEF chipVars
  <2> QED BY <1>1, <1>2, <1>3, <2>1, <2>3, <2>4, AsksFresh
<1> QED BY <1>2, <1>5, <1>6, <1>7 DEF Long

LEMMA HonestReport ==
  ASSUME Typed, Honest, Report
  PROVE  Honest'
<1>1. /\ pc = "report" /\ op' = op /\ UNCHANGED <<chipVars, fwVars, pastVars>> /\ Enough
      /\ return("stored")
  BY DEF Report, clientRest
<1>2. fw = "idle" /\ fifo = <<>> /\ ~late
  BY <1>1, AnsweredIsQuiet
<1>3. op.cmd = "S" /\ settings = Ok(op.rec)
  BY <1>1 DEF Honest, Meaning, Typed, CallTyped
<1>4. ReportsHold'
  BY <1>1, <1>3, SavedHolds DEF chipVars
<1> QED BY <1>1, <1>2, <1>4, ReturnsSettled

(* A lost reply and a restart of the ESP32 alone.                          *)
LEMMA HonestLoses ==
  ASSUME Typed, Honest, LoseReply
  PROVE  Honest'
<1>1. /\ replies # <<>> /\ replies' = Tail(replies)
      /\ UNCHANGED <<chipVars, fwVars, fifo, clientVars, outcome, pastVars>>
  BY DEF LoseReply
<1>2. replies' \in Seq(Reply) /\ Len(replies') = Len(replies) - 1
      /\ \A i \in 1..Len(replies') : replies'[i] = replies[i + 1] /\ i + 1 \in 1..Len(replies)
  BY <1>1 DEF Typed, LineTyped
<1>3. Len(replies) = 1 => replies' = <<>>
  BY <1>2
<1>4. Acked => Unanswered' /\ Acked'
  BY <1>1, <1>3 DEF Acked, Unanswered
<1>5. UNCHANGED <<flash, settings, present, locked, fw, cur, late, fifo, pc, op, attempt,
                  outcome, chip, Waiting>>
  BY <1>1 DEF chipVars, fwVars, clientVars, pastVars, Waiting
<1>6. Settled => Settled'
  BY <1>2, <1>3, <1>5 DEF Settled, Unanswered
<1>7. ~Unanswered
  BY <1>1 DEF Unanswered
<1>8. Line'
  <2>1. Fresh => FALSE
    BY <1>7 DEF Fresh
  <2>2. Stale => Stale'
    BY <1>4, <1>5, <1>7 DEF Stale, StaleAck, StaleQuery, Outpaced
  <2>3. Cut => Cut'
    BY <1>4, <1>5, <1>7 DEF Cut, CutAck, CutQuery, Outpaced
  <2>4. Writing => FALSE
    BY <1>7 DEF Writing
  <2>5. Clearing => Clearing'
    BY <1>4, <1>5, <1>7 DEF Clearing, Outpaced
  <2> QED BY <1>5, <1>6, <2>1, <2>2, <2>3, <2>4, <2>5 DEF Honest, Line
<1>9. Meaning'
  <2>1. Clean'
    BY <1>1, <1>3, <1>5, <1>2 DEF Honest, Meaning, Clean, Emptied
  <2>2. ReportsHold'
    BY <1>5 DEF Honest, Meaning, ReportsHold, AppendedIsStored, SettingsAreSaved, ClearedIsEmpty
  <2> QED BY <1>5, <2>1, <2>2 DEF Honest, Meaning
<1> QED BY <1>8, <1>9 DEF Honest

LEMMA HonestMasterReboot ==
  ASSUME Typed, Honest, MasterReboot
  PROVE  Honest'
<1>1. /\ fw' = "idle" /\ fifo' = <<>> /\ late' = FALSE /\ pc' = "idle" /\ outcome' = "none"
  BY DEF MasterReboot, Waiting, Honest, Line, fwVars
<1>2. Line'
  BY <1>1 DEF Line, Settled
<1>3. Meaning'
  BY <1>1 DEF Meaning, Clean, ReportsHold, AppendedIsStored, SettingsAreSaved, ClearedIsEmpty
<1> QED BY <1>2, <1>3 DEF Honest
(* The firmware's steps: none is taken but for a command the client waits  *)
(* for, or once did not wait for long enough.                              *)
firmwareOnly == UNCHANGED <<pc, op, attempt, outcome, present, locked>>

LEMMA FirmwareMeaning ==
  ASSUME Typed, Honest, Waiting, firmwareOnly,
         chip' = "prompt" => chip = "prompt",
         fw = "idle" => settings' = settings,
         \/ Outpaced \/ op.cmd # "C" \/ pc # "ack"
         \/ Clean'
  PROVE  Meaning'
<1>1. Outpaced => chip' # "prompt"
  BY DEF Outpaced
<1>2. pc' = "report" => settings' = Ok(op'.rec)
  BY BusyIs DEF firmwareOnly, Honest, Meaning
<1>3. ~(outcome' = "stored" /\ op'.cmd \in Long)
  BY DEF firmwareOnly, Honest, Meaning
<1>4. Clean'
  BY <1>1 DEF firmwareOnly, Clean
<1>5. ReportsHold'
  <2>1. AppendedIsStored' /\ SettingsAreSaved'
    BY <1>3 DEF AppendedIsStored, SettingsAreSaved, Long
  <2>2. outcome' = "stored" => chip' # "prompt"
    <3>1. outcome' = "stored" => pc = "idle"
      BY DEF firmwareOnly, Typed, CallTyped
    <3> QED BY <1>1, <3>1, BusyIs
  <2> QED BY <2>1, <2>2 DEF ReportsHold, ClearedIsEmpty
<1> QED BY <1>2, <1>3, <1>4, <1>5 DEF Meaning

(* What is at the head of the FIFO.                                        *)
LEMMA OneTwo ==
  /\ \A c, sizes : One(fifo, c, sizes) =>
       fifo # <<>> /\ Head(fifo).cmd = c /\ Head(fifo).n \in sizes /\ Tail(fifo) = <<>>
  /\ \A c, m, d, n : Two(fifo, c, m, d, n) =>
       fifo # <<>> /\ Head(fifo).cmd = c /\ Head(fifo).n = m /\ One(Tail(fifo), d, {n})
BY DEF One, Two

LEMMA HonestBeginLong ==
  ASSUME Typed, Honest, BeginLong
  PROVE  Honest'
<1>1. PICK c \in Long : Serve(c) /\ execute(c, Head(fifo).arg)
  BY DEF BeginLong
<1>2. /\ fw = "idle" /\ fifo # <<>> /\ Waiting /\ ~late
      /\ Head(fifo).cmd = c /\ Head(fifo).n = Size(c) /\ fifo' = Tail(fifo)
      /\ firmwareOnly /\ UNCHANGED <<settings, chip>>
  BY <1>1 DEF BeginLong, Serve, Waiting, Honest, Line, firmwareOnly, chipVars, clientVars, pastVars
<1>3. c \in {"L", "S"} /\ Head(fifo).n \in {17, 33}
  BY <1>2, Sending DEF Long
<1>4. ~Stale
  BY <1>2, <1>3 DEF Stale, StaleAck, StaleQuery, One, Two
<1>5. Fresh
  BY <1>2, <1>4 DEF Honest, Line
<1>6. pc = "ack" /\ op.cmd = c /\ fifo' = <<>> /\ Unanswered
  BY <1>2, <1>3, <1>5, OneTwo DEF Fresh
<1>7. Line'
  <2>1. CASE ~present \/ locked
    <3>1. fw' = "idle" /\ late' = FALSE /\ replies' = <<Cmd("E", NoRec)>>
      BY <1>1, <1>6, <2>1 DEF execute, Done, putc, Unanswered
    <3>2. \A i \in 1..Len(replies') : replies'[i].cmd \in {"K", "E"}
      BY <3>1 DEF Cmd
    <3> QED BY <1>2, <1>6, <3>1, <3>2 DEF Line, Settled, firmwareOnly
  <2>2. CASE present /\ ~locked
    <3>1. /\ fw' \in {"erase", "program"} /\ cur' = Part(Cmd(c, Head(fifo).arg), Size(c))
          /\ UNCHANGED <<late, replies>>
      BY <1>1, <2>2 DEF execute
    <3>2. cur'.cmd = c
      BY <3>1 DEF Part, Cmd
    <3>3. Writing'
      BY <1>2, <1>6, <2>2, <3>1, <3>2 DEF Writing, firmwareOnly, Unanswered
    <3> QED BY <3>1, <3>3 DEF Line
  <2>3. present \in BOOLEAN /\ locked \in BOOLEAN
    BY DEF Typed, FlashTyped
  <2> QED BY <2>1, <2>2, <2>3
<1>8. Meaning'
  BY <1>2, <1>3, <1>6, FirmwareMeaning
<1> QED BY <1>7, <1>8 DEF Honest

LEMMA HonestBeginCut ==
  ASSUME Typed, Honest, BeginCut
  PROVE  Honest'
<1>1. /\ fw = "idle" /\ fifo # <<>> /\ Waiting /\ ~late /\ ~late'
      /\ Head(fifo).cmd \in {"L", "S"} /\ Head(fifo).n < Size(Head(fifo).cmd)
      /\ fw' = "payload" /\ cur' = Head(fifo) /\ fifo' = Tail(fifo)
      /\ firmwareOnly /\ UNCHANGED <<settings, chip, replies>>
  BY DEF BeginCut, Waiting, Honest, Line, firmwareOnly, chipVars, clientVars, pastVars, Long
<1>2. (Outpaced => Outpaced') /\ (Unanswered => Unanswered') /\ (Acked => Acked')
  BY <1>1 DEF Outpaced, firmwareOnly, Unanswered, Acked
<1>3. Cut' /\ (Outpaced \/ op.cmd # "C" \/ pc # "ack")
  <2>1. CASE Fresh
    <3>1. /\ pc = "ack" /\ op.cmd = Head(fifo).cmd /\ fifo' = <<>> /\ Unanswered
          /\ Head(fifo).n \in Least(Size(op.cmd), FifoLen)..Size(op.cmd)
      BY <1>1, <2>1 DEF Fresh, One
    <3>2. Head(fifo).n \in FifoLen..(Size(op.cmd) - 1)
      BY <1>1, <3>1, Sending DEF Least, FifoLen
    <3> QED BY <1>1, <1>2, <3>1, <3>2 DEF Cut, firmwareOnly
  <2>2. CASE Stale /\ pc = "ack"
    <3>1. Outpaced /\ StaleAck
      BY <1>1, <2>2, OneTwo DEF Stale, StaleAck, StaleQuery
    <3>2. CASE Acked /\ One(fifo, op.cmd, {15, 16})
      <4>1. op.cmd = cur'.cmd /\ fifo' = <<>> /\ cur'.n \in {15, 16}
        BY <1>1, <3>2, OneTwo
      <4> QED BY <1>1, <1>2, <2>2, <3>1, <3>2, <4>1 DEF Cut, CutAck, firmwareOnly
    <3>3. CASE Acked /\ Two(fifo, "L", 15, "L", 1) /\ op.cmd = "L"
      <4>1. cur'.cmd = "L" /\ One(fifo', "L", {1}) /\ cur'.n = 15
        BY <1>1, <3>3, OneTwo
      <4> QED BY <1>1, <1>2, <2>2, <3>1, <3>3, <4>1 DEF Cut, CutAck, firmwareOnly
    <3> QED BY <1>1, <3>1, <3>2, <3>3 DEF StaleAck, Two
  <2>3. CASE Stale /\ pc # "ack"
    <3>1. Outpaced /\ Unanswered /\ StaleQuery
      BY <1>1, <2>3, OneTwo DEF Stale
    <3>2. CASE pc = "head"
      <4>1. /\ cur'.cmd = "L" /\ op.cmd = "L"
            /\ \/ fifo' = <<>> /\ cur'.n = 16
               \/ (One(fifo', "L", {1}) \/ One(fifo', "H", {1})) /\ cur'.n = 15
        BY <1>1, <3>1, <3>2 DEF StaleQuery, Typed, CallTyped, One, Two
      <4> QED BY <1>1, <1>2, <3>1, <3>2, <4>1 DEF Cut, CutQuery, firmwareOnly
    <3>3. CASE pc = "verify"
      <4>1. /\ cur'.cmd = "S" /\ op.cmd = "S"
            /\ \/ fifo' = <<>> /\ cur'.n = 16
               \/ One(fifo', "Q", {1}) /\ cur'.n = 15
        BY <1>1, <3>1, <3>3 DEF StaleQuery, One, Two
      <4> QED BY <1>1, <1>2, <3>1, <3>3, <4>1 DEF Cut, CutQuery, firmwareOnly
    <3> QED BY <3>1, <3>2, <3>3 DEF StaleQuery
  <2> QED BY <1>1, <2>1, <2>2, <2>3 DEF Honest, Line
<1>4. Meaning'
  BY <1>1, <1>3, FirmwareMeaning
<1> QED BY <1>1, <1>3, <1>4 DEF Honest, Line

LEMMA HonestPayloadTimeout ==
  ASSUME Typed, Honest, PayloadTimeout
  PROVE  Honest'
<1>1. /\ fw = "payload" /\ Waiting /\ fifo' = <<>> /\ fw' = "idle" /\ late' = FALSE
      /\ firmwareOnly /\ UNCHANGED <<settings, chip, replies>>
  BY DEF PayloadTimeout, Done, Waiting, firmwareOnly, chipVars, clientVars, pastVars
<1>2. Acked /\ (pc \notin {"ack", "idle"} => Unanswered)
  BY <1>1, BusyIs
<1>3. Settled'
  <2>1. \A i \in 1..Len(replies) : replies[i].cmd \in {"K", "E"}
    BY <1>2 DEF Acked
  <2> QED BY <1>1, <1>2, <2>1 DEF Settled, firmwareOnly, Unanswered
<1>4. op.cmd \in Long
  BY <1>1 DEF Honest, Line, Cut, Typed, FlashTyped
<1>5. Meaning'
  BY <1>1, <1>4, FirmwareMeaning DEF Long
<1> QED BY <1>1, <1>3, <1>5 DEF Honest, Line
LEMMA HonestMorePayload ==
  ASSUME Typed, Honest, MorePayload
  PROVE  Honest'
<1>1. /\ fw = "payload" /\ fifo # <<>> /\ Waiting /\ ~late /\ cur.cmd \in Long
      /\ firmwareOnly /\ UNCHANGED <<settings, chip>>
  BY DEF MorePayload, Waiting, firmwareOnly, chipVars, clientVars, pastVars, Honest, Line,
    Typed, FlashTyped
<1>2. Cut /\ op.cmd = cur.cmd
  BY <1>1 DEF Honest, Line, Cut
<1>3. Outpaced /\ Outpaced'
  BY <1>1, <1>2 DEF Cut, Outpaced, firmwareOnly
<1>4. /\ missing = Size(cur.cmd) - cur.n
      /\ cur \in [cmd : Long, arg : Contents, n : Int]
  BY <1>1 DEF missing, Typed, FlashTyped, NoCmd, Part, Cmd, Long
<1>5. CASE Head(fifo).n < missing
  <2>1. /\ cur' = [cur EXCEPT !.n = @ + Head(fifo).n] /\ fifo' = Tail(fifo)
        /\ UNCHANGED <<fw, late, replies>>
    BY <1>5 DEF MorePayload
  <2>2. cur'.cmd = cur.cmd /\ cur'.n = cur.n + Head(fifo).n
    BY <1>4, <2>1
  <2>3. pc = "ack" => Acked' /\ CutAck'
    <3>1. ASSUME pc = "ack"
          PROVE  Acked /\ One(fifo, "L", {1}) /\ cur.cmd = "L" /\ cur.n = 15
      BY <1>1, <1>2, <3>1 DEF Cut, CutAck, CutQuery
    <3>2. ASSUME pc = "ack" PROVE fifo' = <<>> /\ cur'.n = 16 /\ Acked'
      BY <2>1, <2>2, <3>1, <3>2 DEF One, Acked
    <3> QED BY <3>2 DEF CutAck
  <2>4. pc = "head" => Unanswered' /\ CutQuery'
    <3>1. ASSUME pc = "head"
          PROVE  /\ Unanswered
                 /\ \/ One(fifo, "H", {1}) /\ cur.n \in {15, 16}
                    \/ One(fifo, "L", {1}) /\ cur.n = 15
                    \/ Two(fifo, "L", 1, "H", 1) /\ cur.n = 15
      BY <1>1, <1>2, <3>1 DEF Cut, CutQuery
    <3>2. pc = "head" => cur.cmd = "L"
      BY <1>2 DEF Typed, CallTyped
    <3>3. ASSUME pc = "head"
          PROVE  cur'.n = 16 /\ (fifo' = <<>> \/ One(fifo', "H", {1}))
      <4>1. missing = 17 - cur.n /\ cur.n \in {15, 16}
        BY <1>4, <3>1, <3>2, <3>3, Sending
      <4>2. Head(fifo).n = 1
        BY <3>1, <3>3 DEF One, Two
      <4>3. cur.n = 15 /\ cur'.n = 16
        BY <1>5, <2>2, <4>1, <4>2
      <4>4. fifo' = <<>> \/ One(fifo', "H", {1})
        BY <2>1, <3>1, <3>3 DEF One, Two
      <4> QED BY <4>3, <4>4
    <3> QED BY <1>1, <2>1, <3>1, <3>3 DEF CutQuery, Unanswered, firmwareOnly
  <2>5. pc = "verify" => Unanswered' /\ CutQuery'
    <3>1. ASSUME pc = "verify"
          PROVE  Unanswered /\ op.cmd = "S" /\ One(fifo, "Q", {1}) /\ cur.n \in {15, 16}
      BY <1>1, <1>2, <3>1 DEF Cut, CutQuery
    <3>2. ASSUME pc = "verify" PROVE fifo' = <<>> /\ cur'.n \in 15..17
      BY <2>1, <2>2, <3>1, <3>2 DEF One
    <3> QED BY <1>1, <2>1, <3>1, <3>2 DEF CutQuery, Unanswered, firmwareOnly
  <2>6. pc \in {"ack", "head", "verify"}
    BY <1>2 DEF Cut, CutQuery
  <2>7. Cut'
    BY <1>1, <1>2, <1>3, <2>2, <2>3, <2>4, <2>5, <2>6 DEF Cut, firmwareOnly
  <2>8. Meaning'
    BY <1>1, <1>3, FirmwareMeaning
  <2> QED BY <1>1, <2>1, <2>7, <2>8 DEF Honest, Line
<1>6. CASE ~(Head(fifo).n < missing)
  <2>1. fifo' = rest(Head(fifo)) \o Tail(fifo) /\ execute(cur.cmd, [kind |-> "bad", rec |-> cur.arg.rec])
    BY <1>6 DEF MorePayload
  <2>2. /\ pc = "head" /\ Unanswered /\ cur.cmd = "L" /\ One(fifo, "H", {1}) /\ cur.n = 16
    <3>1. (cur.cmd = "L" /\ Size(cur.cmd) = 17) \/ (cur.cmd = "S" /\ Size(cur.cmd) = 33)
      BY <1>1, Sending DEF Long
    <3>2. pc = "head" => cur.cmd = "L"
      BY <1>2 DEF Typed, CallTyped
    <3> QED BY <1>1, <1>2, <1>4, <1>6, <3>1, <3>2 DEF Cut, CutAck, CutQuery, One, Two
  <2>3. Head(fifo).n = missing /\ Tail(fifo) = <<>>
    BY <1>4, <2>2, Sending DEF One
  <2>4. fifo' = <<>>
    BY <2>1, <2>3 DEF rest
  <2>5. present /\ ~locked
    BY <1>3 DEF Outpaced
  <2>6. PICK x : x = [kind |-> "bad", rec |-> cur.arg.rec]
    OBVIOUS
  <2>7. fw' \in {"erase", "program"} /\ cur' = Part(Cmd(cur.cmd, x), Size(cur.cmd))
        /\ UNCHANGED <<late, replies>>
    BY <2>1, <2>5, <2>6 DEF execute
  <2>8. cur'.cmd = "L"
    BY <2>2, <2>7 DEF Part, Cmd
  <2>9. Writing'
    BY <1>1, <1>2, <1>3, <2>2, <2>4, <2>5, <2>7, <2>8 DEF Writing, Unanswered, firmwareOnly
  <2>10. Meaning'
    BY <1>1, <1>3, FirmwareMeaning
  <2> QED BY <2>7, <2>9, <2>10 DEF Honest, Line
<1> QED BY <1>5, <1>6

LEMMA HonestErase ==
  ASSUME Typed, Honest, NEW done \in BOOLEAN, Erase(done)
  PROVE  Honest'
<1>1. /\ fw = "erase" /\ fw' = "program" /\ Waiting /\ firmwareOnly
      /\ UNCHANGED <<cur, late, fifo, replies, op, outcome>> /\ (chip' = "prompt" => chip = "prompt")
  BY DEF Erase, Waiting, firmwareOnly, clientVars
<1>2. Writing /\ (Outpaced => Outpaced')
  BY <1>1 DEF Honest, Line, Outpaced, firmwareOnly
<1>3. Writing'
  <2>1. WriteLate => WriteLate'
    BY <1>1 DEF WriteLate, firmwareOnly
  <2> QED BY <1>1, <1>2, <2>1 DEF Writing, firmwareOnly, Unanswered
<1>4. Outpaced \/ op.cmd # "C"
  BY <1>1, <1>2 DEF Writing, Typed, FlashTyped, Long
<1>5. Meaning'
  BY <1>1, <1>4, FirmwareMeaning
<1> QED BY <1>1, <1>3, <1>5 DEF Honest, Line

LEMMA HonestProgram ==
  ASSUME Typed, Honest, ProgramWell \/ ProgramBadly
  PROVE  Honest'
<1>1. PICK c : Program(c)
  BY DEF ProgramWell, ProgramBadly
<1>2. chip' = "prompt" => chip = "prompt"
  BY DEF ProgramWell, ProgramBadly
<1>3. /\ fw = "program" /\ fw' = "idle" /\ late' = FALSE /\ Waiting /\ firmwareOnly
      /\ UNCHANGED <<fifo, op>> /\ putc(Cmd("K", NoRec))
  BY <1>1 DEF Program, Done, Waiting, firmwareOnly, clientVars
<1>4. Writing /\ (Outpaced => Outpaced')
  BY <1>2, <1>3 DEF Honest, Line, Outpaced, firmwareOnly
<1>5. replies' = <<Cmd("K", NoRec)>>
  BY <1>3, <1>4 DEF Writing, Unanswered, putc
<1>6. Acked' /\ \A i \in 1..Len(replies') : replies'[i].cmd \in {"K", "E"}
  BY <1>5 DEF Acked, Cmd
<1>7. CASE fifo = <<>>
  <2>1. pc # "verify"
    BY <1>4 DEF Writing, WriteLate
  <2> QED BY <1>2, <1>3, <1>4, <1>6, <1>7, <2>1, FirmwareMeaning
       DEF Honest, Line, Settled, firmwareOnly, Writing, Typed, FlashTyped, Long
<1>8. CASE fifo # <<>>
  <2>1. Outpaced /\ WriteLate
    BY <1>4, <1>8 DEF Writing
  <2>2. \/ pc = "ack" /\ op.cmd = "C" /\ One(fifo, "C", {1})
        \/ pc = "ack" /\ op.cmd \in Long /\ One(fifo, op.cmd, {16})
    BY <1>8, <2>1 DEF WriteLate
  <2>3. op.cmd \in Long => One(fifo, op.cmd, {15, 16})
    BY <2>2 DEF One, Long
  <2>4. Stale'
    BY <1>3, <1>4, <1>6, <2>1, <2>2, <2>3 DEF Stale, StaleAck, firmwareOnly
  <2>5. Meaning'
    BY <1>2, <1>3, <2>1, FirmwareMeaning
  <2> QED BY <1>3, <1>8, <2>4, <2>5 DEF Honest, Line
<1> QED BY <1>7, <1>8

LEMMA HonestBeginClear ==
  ASSUME Typed, Honest, BeginClear
  PROVE  Honest'
<1>1. /\ fw = "idle" /\ fifo # <<>> /\ Head(fifo).cmd = "C" /\ fifo' = Tail(fifo)
      /\ Waiting /\ firmwareOnly /\ UNCHANGED <<settings, chip, late>> /\ ~late
  BY DEF BeginClear, Serve, Waiting, firmwareOnly, chipVars, clientVars, pastVars, Honest, Line
<1>2. Outpaced => Outpaced'
  BY <1>1 DEF Outpaced, firmwareOnly
<1>3. CASE Fresh
  <2>1. pc = "ack" /\ op.cmd = "C" /\ fifo' = <<>> /\ Unanswered
    BY <1>1, <1>3 DEF Fresh, One
  <2>2. CASE present
    <3>1. fw' = "clear0" /\ replies' = replies
      BY <2>2 DEF BeginClear
    <3>2. Clearing' /\ Clean'
      BY <1>1, <2>1, <2>2, <3>1 DEF Clearing, Clean, Unanswered, firmwareOnly
    <3> QED BY <1>1, <3>1, <3>2, FirmwareMeaning DEF Honest, Line
  <2>3. CASE ~present
    <3>1. fw' = "idle" /\ replies' = <<Cmd("E", NoRec)>>
      BY <2>1, <2>3 DEF BeginClear, putc, Unanswered
    <3>2. /\ \A i \in 1..Len(replies') : replies'[i].cmd \in {"K", "E"}
          /\ Len(replies') = 1 /\ Head(replies').cmd = "E"
      BY <3>1 DEF Cmd
    <3>3. Settled' /\ Clean'
      BY <1>1, <2>1, <3>1, <3>2 DEF Settled, Clean, firmwareOnly
    <3> QED BY <1>1, <2>1, <3>1, <3>3, FirmwareMeaning DEF Honest, Line
  <2> QED BY <2>2, <2>3
<1>4. CASE Stale
  <2>1. Outpaced /\ present
    BY <1>4 DEF Stale, Outpaced
  <2>2. fw' = "clear0" /\ replies' = replies
    BY <2>1 DEF BeginClear
  <2>3. \/ pc \in {"ack", "idle"} /\ op.cmd = "C" /\ fifo' = <<>> /\ Acked
        \/ pc = "ack" /\ Unanswered /\ attempt = 1 /\ op.cmd \in Long /\ One(fifo', op.cmd, {15})
        \/ pc = "ack" /\ Unanswered /\ op.cmd = "C" /\ One(fifo', "C", {1})
    BY <1>1, <1>4 DEF Stale, StaleAck, StaleQuery, One, Two, Long
  <2>4. op.cmd \in Long /\ One(fifo', op.cmd, {15}) => One(fifo', op.cmd, {15, 16})
    BY DEF One
  <2>5. Clearing'
    BY <1>1, <1>2, <2>1, <2>2, <2>3, <2>4 DEF Clearing, firmwareOnly, Unanswered, Acked
  <2>6. Meaning'
    BY <1>1, <2>1, FirmwareMeaning
  <2> QED BY <1>1, <2>2, <2>5, <2>6 DEF Honest, Line
<1> QED BY <1>1, <1>3, <1>4 DEF Honest, Line

LEMMA HonestClears ==
  ASSUME Typed, Honest, ClearFirst \/ ClearSecond
  PROVE  Honest'
<1>1. /\ fw \in {"clear0", "clear1"} /\ Waiting /\ firmwareOnly
      /\ UNCHANGED <<settings, chip, fifo, op>>
  BY DEF ClearFirst, ClearSecond, Waiting, firmwareOnly, clientVars
<1>2. Clearing /\ (Outpaced => Outpaced')
  BY <1>1 DEF Honest, Line, Outpaced, firmwareOnly
<1>3. CASE ClearFirst
  <2>1. fw' = "clear1" /\ UNCHANGED <<late, replies>> /\ flash' = IF locked THEN flash ELSE erased(flash, 0)
    BY <1>3 DEF ClearFirst
  <2>2. Clearing'
    BY <1>1, <1>2, <2>1 DEF Clearing, firmwareOnly, Unanswered, Acked
  <2>3. Outpaced \/ op.cmd # "C" \/ pc # "ack" \/ Clean'
    <3>1. Outpaced \/ Unanswered
      BY <1>2 DEF Clearing
    <3>2. Emptied(Sect)'
      <4>1. \A t \in Slots : t < Sect => t \in SectorOf(0)
        BY HalfOf, Sizes DEF SectorOf, Slots
      <4> QED BY <1>1, <2>1, <4>1 DEF Emptied, erased, firmwareOnly
    <3> QED BY <2>1, <3>1, <3>2 DEF Clean, Unanswered
  <2>4. Meaning'
    BY <1>1, <2>3, FirmwareMeaning
  <2> QED BY <2>1, <2>2, <2>4 DEF Honest, Line
<1>4. CASE ClearSecond
  <2>1. /\ fw = "clear1" /\ fw' = "idle" /\ late' = FALSE /\ putc(Cmd("K", NoRec))
        /\ flash' = IF locked THEN flash ELSE erased(flash, Sect)
    BY <1>4 DEF ClearSecond
  <2>2. /\ Unanswered => replies' = <<Cmd("K", NoRec)>>
        /\ Acked => \A i \in 1..Len(replies') : replies'[i].cmd \in {"K", "E"}
    <3>0. PICK k : k = Cmd("K", NoRec)
      OBVIOUS
    <3>1. k = Cmd("K", NoRec) /\ k.cmd = "K"
      BY <3>0 DEF Cmd
    <3>2. replies' = Append(replies, k)
      BY <2>1, <3>1 DEF putc
    <3>3. replies = <<>> => replies' = <<k>>
      BY <3>2
    <3>4. k \in Reply /\ replies \in Seq(Reply)
      BY <3>1, ReplyTypes DEF Typed, LineTyped
    <3>5. ASSUME Len(replies) = 1, Head(replies).cmd = "K"
          PROVE  \A i \in 1..Len(replies') : replies'[i].cmd \in {"K", "E"}
      <4>0. /\ Len(replies') = Len(replies) + 1 /\ replies'[Len(replies) + 1] = k
            /\ \A i \in 1..Len(replies) : replies'[i] = replies[i]
        BY <3>2, <3>4
      <4>1. Len(replies') = 2 /\ replies'[1] = replies[1] /\ replies'[2] = k
            /\ Head(replies) = replies[1]
        BY <3>4, <3>5, <4>0
      <4> QED BY <3>1, <3>5, <4>1
    <3> QED BY <3>1, <3>3, <3>5 DEF Acked, Unanswered
  <2>3. Unanswered => Acked' /\ Len(replies') = 1
    BY <2>2 DEF Acked, Cmd
  <2>4. Line'
    <3>1. CASE fifo = <<>>
      <4>1. Acked /\ pc # "verify"
        BY <1>2, <3>1 DEF Clearing, One, Two, Acked, Unanswered
      <4> QED BY <1>1, <2>1, <2>2, <3>1, <4>1 DEF Line, Settled, firmwareOnly
    <3>2. CASE fifo # <<>>
      <4>1. /\ Outpaced /\ pc = "ack" /\ Unanswered
            /\ \/ op.cmd = "C" /\ One(fifo, "C", {1})
               \/ op.cmd \in Long /\ One(fifo, op.cmd, {15, 16})
               \/ op.cmd = "L" /\ Two(fifo, "L", 15, "L", 1)
        BY <1>2, <3>2 DEF Clearing, One, Long
      <4>2. Stale'
        BY <1>1, <1>2, <2>3, <4>1 DEF Stale, StaleAck, firmwareOnly
      <4> QED BY <1>1, <2>1, <3>2, <4>2 DEF Line
    <3> QED BY <3>1, <3>2
  <2>5. Outpaced \/ op.cmd # "C" \/ pc # "ack" \/ Clean'
    <3>1. SUFFICES ASSUME ~Outpaced, op.cmd = "C", pc = "ack", chip = "prompt" PROVE Clean'
      BY <1>1 DEF Clean
    <3>2. Unanswered /\ Emptied(Sect)
      BY <1>2, <2>1, <3>1 DEF Clearing, Honest, Meaning, Clean
    <3>3. Emptied(N)'
      <4>1. \A t \in Slots : t < Sect \/ t \in SectorOf(Sect)
        BY HalfOf, Sizes DEF SectorOf, Slots
      <4> QED BY <1>1, <2>1, <3>2, <4>1 DEF Emptied, erased, firmwareOnly, Typed, FlashTyped
    <3> QED BY <2>1, <2>3, <3>2, <3>3 DEF Clean
  <2>6. Meaning'
    BY <1>1, <2>5, FirmwareMeaning
  <2> QED BY <2>4, <2>6 DEF Honest
<1> QED BY <1>3, <1>4
LEMMA HonestAnswer ==
  ASSUME Typed, Honest, Answer
  PROVE  Honest'
<1>1. /\ fw = "idle" /\ fw' = "idle" /\ fifo # <<>> /\ Head(fifo).cmd \in {"H", "G", "Q"}
      /\ fifo' = Tail(fifo) /\ Waiting /\ firmwareOnly /\ ~late /\ late' = late
      /\ UNCHANGED <<flash, settings, chip, op>>
  BY DEF Answer, Serve, Waiting, firmwareOnly, chipVars, fwVars, clientVars, pastVars, Honest, Line
<1>2. Fresh
  BY <1>1 DEF Honest, Line, Stale, StaleAck, StaleQuery, One, Two, Long
<1>3. fifo' = <<>> /\ Unanswered /\ pc \in {"head", "report", "verify"}
  <2>1. pc # "ack"
    BY <1>1, <1>2, CallIs DEF Fresh, One
  <2> QED BY <1>1, <1>2, <2>1 DEF Fresh, One
<1>4. Settled'
  <2>1. ASSUME pc = "verify", op.cmd = "L" PROVE Len(replies') = 1 /\ ReadFrom'
    <3>1. Head(fifo).cmd = "G"
      BY <1>2, <2>1 DEF Fresh, One
    <3>2. Head(fifo) \in Command
      BY <1>1, Items DEF Typed, LineTyped
    <3>3. PICK s \in Slots : s = Head(fifo).arg
      BY <3>1, <3>2 DEF Command, Long
    <3>4. PICK r : r = Cmd("G", flash[s])
      OBVIOUS
    <3>5. r.cmd = "G" /\ r.arg = flash[s]
      BY <3>4 DEF Cmd
    <3>6. replies' = <<r>>
      BY <1>3, <3>1, <3>3, <3>4 DEF Answer, Serve, putc, Unanswered
    <3> QED BY <1>1, <2>1, <3>5, <3>6 DEF ReadFrom
  <2>2. ASSUME pc = "verify", op.cmd = "S" PROVE Len(replies') = 1 /\ ReadFrom'
    <3>1. Head(fifo).cmd = "Q"
      BY <1>2, <2>2 DEF Fresh, One
    <3>2. PICK r : r = Cmd("Q", settings)
      OBVIOUS
    <3>3. r.cmd = "Q" /\ r.arg = settings
      BY <3>2 DEF Cmd
    <3>4. replies' = <<r>>
      BY <1>3, <3>1, <3>2 DEF Answer, Serve, putc, Unanswered
    <3> QED BY <1>1, <2>2, <3>3, <3>4 DEF ReadFrom
  <2>3. pc = "verify" => op.cmd \in {"L", "S"}
    BY DEF Typed, CallTyped, Long
  <2> QED BY <1>1, <1>3, <2>1, <2>2, <2>3 DEF Settled, firmwareOnly
<1>5. Meaning'
  BY <1>1, <1>3, FirmwareMeaning
<1> QED BY <1>1, <1>3, <1>4, <1>5 DEF Honest, Line

LEMMA HonestReboot ==
  ASSUME Typed, Honest, Reboot
  PROVE  Honest'
<1>1. /\ fw' = "idle" /\ fifo' = <<>> /\ late' = FALSE
      /\ UNCHANGED <<replies, pc, op, attempt, outcome, locked>>
      /\ chip' = IF Waiting THEN "faulty" ELSE chip
  BY DEF Reboot, Done, clientVars
<1>2. fw = "idle" => UNCHANGED <<flash, settings>>
  BY DEF Reboot, Interrupted
<1>3. ~Waiting' /\ (~Waiting => fw = "idle" /\ fifo = <<>>)
  BY <1>1 DEF Waiting
<1>4. Settled'
  <2>1. CASE Waiting
    <3>1. Acked /\ (pc \notin {"ack", "idle"} => Unanswered)
      BY <2>1, BusyIs
    <3>2. \A i \in 1..Len(replies) : replies[i].cmd \in {"K", "E"}
      BY <3>1 DEF Acked
    <3> QED BY <1>1, <3>1, <3>2 DEF Settled, Unanswered
  <2>2. CASE ~Waiting
    <3>1. Settled
      BY <1>3, <2>2 DEF Honest, Line
    <3>2. UNCHANGED <<flash, settings>>
      BY <1>2, <1>3, <2>2
    <3> QED BY <1>1, <3>1, <3>2 DEF Settled, ReadFrom, Unanswered
  <2> QED BY <2>1, <2>2
<1>5. pc = "report" => fw = "idle"
  BY <1>3, BusyIs
<1>6. ReportsHold' /\ Clean'
  <2>1. CASE Waiting
    <3>1. chip' # "prompt" /\ ~(outcome' = "stored" /\ op'.cmd \in Long)
      BY <1>1, <2>1 DEF Honest, Meaning
    <3> QED BY <3>1 DEF ReportsHold, AppendedIsStored, SettingsAreSaved, ClearedIsEmpty, Clean, Long
  <2>2. CASE ~Waiting
    <3>1. UNCHANGED <<flash, settings, chip>> /\ fw = "idle"
      BY <1>1, <1>2, <1>3, <2>2
    <3>2. ReportsHold /\ Clean
      BY DEF Honest, Meaning
    <3>3. AppendedIsStored' /\ SettingsAreSaved'
      BY <1>1, <3>1, <3>2 DEF ReportsHold, AppendedIsStored, SettingsAreSaved
    <3>4. ClearedIsEmpty'
      BY <1>1, <2>2, <3>1, <3>2 DEF ReportsHold, ClearedIsEmpty
    <3>5. Clean'
      BY <1>1, <3>1, <3>2 DEF Clean, Emptied
    <3> QED BY <3>3, <3>4, <3>5 DEF ReportsHold
  <2> QED BY <2>1, <2>2
<1>7. Meaning'
  BY <1>1, <1>2, <1>3, <1>5, <1>6 DEF Honest, Meaning
<1> QED BY <1>1, <1>4, <1>7 DEF Honest, Line

LEMMA HonestKept ==
  ASSUME Typed, Honest, [Next]_vars
  PROVE  Honest'
<1>1. CASE Firmware
  BY <1>1, HonestBeginLong, HonestBeginCut, HonestMorePayload, HonestPayloadTimeout, HonestErase,
    HonestProgram, HonestBeginClear, HonestClears, HonestAnswer DEF Firmware
<1>2. CASE Client
  BY <1>2, HonestTimeout, HonestGetAck, HonestGetHead, HonestVerify, HonestReport DEF Client
<1>3. CASE Fault
  BY <1>3, HonestErase, HonestProgram, HonestLoses, HonestLateTimeout DEF Fault
<1>4. CASE Call
  BY <1>4, HonestCalls
<1>5. CASE Reboot
  BY <1>5, HonestReboot
<1>6. CASE MasterReboot
  BY <1>6, HonestMasterReboot
<1>7. CASE UNCHANGED vars
  <2>1. /\ UNCHANGED <<flash, settings, present, locked, fw, cur, late, fifo, replies, pc, op,
                       attempt, outcome, chip, Waiting>>
    BY <1>7 DEF vars, chipVars, fwVars, clientVars, pastVars, Waiting
  <2>2. Line'
    BY <2>1 DEF Honest, Line, Settled, ReadFrom, Fresh, Stale, StaleAck, StaleQuery, Cut, CutAck,
      CutQuery, Writing, WriteLate, Clearing, Outpaced, Unanswered, Acked
  <2>3. Meaning'
    BY <2>1 DEF Honest, Meaning, Clean, Emptied, ReportsHold, AppendedIsStored, SettingsAreSaved,
      ClearedIsEmpty
  <2> QED BY <2>2, <2>3 DEF Honest
<1> QED BY <1>1, <1>2, <1>3, <1>4, <1>5, <1>6, <1>7 DEF Next

LEMMA HonestBegins == Init => Honest
<1> SUFFICES ASSUME Init PROVE Honest
  OBVIOUS
<1>1. Line
  BY DEF Init, Line, Settled
<1>2. Meaning
  BY DEF Init, Meaning, Clean, ReportsHold, AppendedIsStored, SettingsAreSaved, ClearedIsEmpty
<1> QED BY <1>1, <1>2 DEF Honest

(* What is on the line, and what it means, in every reachable state.       *)
THEOREM HonestHolds == Spec => []Honest
BY HonestBegins, HonestKept, TypedHolds, PTL DEF Spec

(* flash_link.cpp:138-214, 296-359; norflash.c:302-310.  Whatever the ring,*)
(* the cache, the number of retries (two at least) and the settings: an    *)
(* append or a save that returns true has its content in the flash, and an *)
(* acknowledged clear leaves no record, on a chip that is not write        *)
(* protected and was never slow nor interrupted.                           *)
THEOREM ReportsAreTrue == Spec => []ReportsHold
<1>1. Honest => ReportsHold
  BY DEF Honest, Meaning
<1> QED BY <1>1, HonestHolds, PTL

(* norflash.c:302-310.  The last of these alone, on a chip that was prompt.*)
THEOREM ClearEmpties == Spec => []ClearedIsEmpty
<1>1. ReportsHold => ClearedIsEmpty
  BY DEF ReportsHold
<1> QED BY <1>1, ReportsAreTrue, PTL

LEMMA LineIsRead ==
  ASSUME Typed, Line
  PROVE  NothingMisread
<1> DEFINE whole(p) == p.cmd # "rest" /\ (p.cmd \notin {"L", "S"} => p.n = Size(p.cmd))
<1>0. fifo \in Seq(Command) /\ fw \in {"idle", "payload", "erase", "program", "clear0", "clear1"}
  BY DEF Typed, FlashTyped, LineTyped
<1>1. ASSUME NEW c, NEW sizes, One(fifo, c, sizes), c # "rest",
             c \in {"L", "S"} \/ sizes = {Size(c)}
      PROVE  \A i \in 1..Len(fifo) : whole(fifo[i])
  <2>1. Len(fifo) = 1 /\ Head(fifo) = fifo[1] /\ whole(Head(fifo))
    BY <1>0, <1>1, Items DEF One
  <2> QED BY <2>1
<1>2. ASSUME NEW c, NEW m, NEW d, NEW n, Two(fifo, c, m, d, n), c # "rest", d # "rest",
             c \in {"L", "S"} \/ m = Size(c), d \in {"L", "S"} \/ n = Size(d)
      PROVE  \A i \in 1..Len(fifo) : whole(fifo[i])
  <2>1. Len(fifo) = 2 /\ Head(fifo) = fifo[1] /\ Head(Tail(fifo)) = fifo[2]
    BY <1>0, <1>2, Items DEF One, Two
  <2>2. whole(Head(fifo)) /\ whole(Head(Tail(fifo)))
    BY <1>2 DEF One, Two
  <2> QED BY <2>1, <2>2
<1>3. \/ fifo = <<>>
      \/ \E c, sizes : /\ One(fifo, c, sizes) /\ c # "rest"
                       /\ c \in {"L", "S"} \/ sizes = {Size(c)}
      \/ \E c, m, d, n : /\ Two(fifo, c, m, d, n) /\ c # "rest" /\ d # "rest"
                         /\ c \in {"L", "S"} \/ m = Size(c)
                         /\ d \in {"L", "S"} \/ n = Size(d)
  <2>1. CASE fw = "idle"
    <3>1. CASE Fresh
      <4>1. pc = "ack" => op.cmd \in {"L", "S", "C"}
        BY CallIs
      <4>2. Least(Size("C"), FifoLen)..Size("C") = {Size("C")}
        BY Sending DEF Least, FifoLen
      <4> QED BY <3>1, <4>1, <4>2, Sending DEF Fresh
    <3>2. CASE Stale
      BY <3>2, Sending DEF Stale, StaleAck, StaleQuery, Long
    <3> QED BY <2>1, <3>1, <3>2 DEF Line
  <2>2. CASE fw = "payload"
    BY <2>2, Sending DEF Line, Cut, CutAck, CutQuery
  <2>3. CASE fw \in {"erase", "program"}
    BY <2>3, Sending DEF Line, Writing, WriteLate, Long
  <2>4. CASE fw \in {"clear0", "clear1"}
    BY <2>4, Sending DEF Line, Clearing, Long
  <2> QED BY <1>0, <2>1, <2>2, <2>3, <2>4
<1>4. \A i \in 1..Len(fifo) : whole(fifo[i])
  <2>1. fifo = <<>> => Len(fifo) = 0
    OBVIOUS
  <2> QED BY <1>1, <1>2, <1>3, <2>1
<1> QED BY <1>4 DEF NothingMisread, Long

(* norflash.c:252-275.  No payload that is cut ever takes a part of a      *)
(* command and leaves the rest of it to be read as another one.            *)
THEOREM NothingIsMisread == Spec => []NothingMisread
<1>1. Typed /\ Honest => NothingMisread
  BY LineIsRead DEF Honest
<1> QED BY <1>1, TypedHolds, HonestHolds, PTL
==============================================================================
