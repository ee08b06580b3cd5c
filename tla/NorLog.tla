------------------------------- MODULE NorLog -------------------------------
(***************************************************************************)
(* The persistent log and settings on the NOR flash: the firmware's server *)
(* (norflash.c) with the chip, and the ESP32's client (flash_link.cpp)     *)
(* that appends with verification and retries over a serial line.          *)
(*                                                                         *)
(* The firmware serves one command at a time and does not read its UART    *)
(* (a 16-byte FIFO that drops what does not fit) while the chip erases or  *)
(* programs.  A command is an item that says how many of its bytes came    *)
(* in; an answer is one item.                                              *)
(*                                                                         *)
(* Time: an append or a clear takes at most 700 + 700 ms (wait_wip), the   *)
(* client waits 800 ms for an answer, 2000 ms for the ack of a save or a   *)
(* clear, and the firmware 200 ms for a payload; and every command that    *)
(* takes long ends with an ack.  So while one is executed one timeout, and *)
(* only one of an append, can expire (`late`); any other means that there  *)
(* is nothing left to be answered.                                         *)
(***************************************************************************)
EXTENDS Integers, Sequences, FiniteSets, SequencesExt

CONSTANTS
  N,          (* N_SLOTS, 512 in the code                                  *)
  Sect,       (* slots per 4 KB sector, 256 in the code                    *)
  CacheN,     (* FLASH_CACHE_N, 60                                         *)
  MaxRetries, (* MAX_RETRIES, 5                                            *)
  Blobs       (* settings the dashboard saves                              *)

ASSUME NorAssumption ==
  /\ Sect \in Nat \ {0} /\ N = 2 * Sect
  /\ CacheN \in Nat \ {0} /\ MaxRetries \in Nat \ {0, 1}

VARIABLES
  flash,       \* content of each log slot
  settings,    \* content of the settings sector
  present,     \* g_flash_present
  locked,      \* g_chip_locked
  head,        \* g_head
  fw,          \* where nor_poll is
  cur,         \* the command it is executing
  late,        \* the client has given up waiting for it
  fifo,        \* S7's receive FIFO
  replies,     \* the ESP32's receive FIFO
  pc,          \* what the client is waiting for
  op,          \* the client's current call
  attempt,     \* and its attempt number
  seq,         \* next sequence number, from 0 at each ESP32 boot
  cache        \* the ESP32's RAM cache, newest first

(* History the properties refer to.                                        *)
VARIABLES
  boot,        \* ESP32 boots so far: it tells records of equal seq apart
  outcome,     \* result of the client's last call
  recent,      \* the last Sect slots written, oldest first
  moved,       \* a boot scan has put head elsewhere since then
  wrapped,     \* the ring has wrapped since it was last empty
  chip         \* "prompt" so far, or "slow" (it outlasted the client's
               \* patience), or "faulty" (failed, or interrupted by a restart)

chipVars   == <<flash, settings, present, locked>>
fwVars     == <<head, fw, cur, late>>
clientVars == <<pc, op, attempt, seq, cache, boot>>
pastVars   == <<recent, wrapped, moved, chip>>
vars == <<chipVars, fwVars, fifo, replies, clientVars, outcome, pastVars>>

-----------------------------------------------------------------------------
(* Contents.  "ok": as sent.  "bad": a byte is wrong but the type is valid.*)
(* "junk": no valid type.  "ghost": junk whose first byte reads 0xFF.      *)

NoRec == [boot |-> -1, seq |-> -1]
Blank == [kind |-> "blank", rec |-> NoRec]
Ok(r) == [kind |-> "ok", rec |-> r]
Spoilt(r) == {Blank} \cup {[kind |-> k, rec |-> r] : k \in {"bad", "junk", "ghost"}}

IsValid(c) == c.kind \in {"ok", "bad"}
ProbesDirty(c) == c.kind \notin {"blank", "ghost"}

Slots == 0..(N - 1)
SectorOf(s) == {t \in Slots : t \div Sect = s \div Sect}

(* Faulty variant: the test is off by one slot.                            *)
SectorStartEarly(s) == s \in {N - 1, Sect - 1}
SectorStart(s) == s \in {0, Sect}

(* nor_init: head is one past the last slot with a valid type.             *)
Scan(f) == LET valid == {s \in Slots : IsValid(f[s])}
           IN  IF valid = {} THEN 0 ELSE (Max(valid) + 1) % N

-----------------------------------------------------------------------------
(* The serial line.                                                        *)

Cmd(c, arg) == [cmd |-> c, arg |-> arg]
Long == {"L", "S"}
FifoLen == 16

(* A command or what came of it: its first n bytes.                        *)
Part(f, n) == [cmd |-> f.cmd, arg |-> f.arg, n |-> n]
Size(c) == CASE c = "L" -> 17 [] c = "S" -> 33 [] c = "G" -> 4 [] OTHER -> 1
NoCmd == Part(Cmd("none", Blank), 0)

Bytes(q) == LET sum[i \in 0..Len(q)] == IF i = 0 THEN 0 ELSE sum[i - 1] + q[i].n
            IN  sum[Len(q)]
Least(a, b) == IF a < b THEN a ELSE b
Room == IF Bytes(fifo) < FifoLen THEN FifoLen - Bytes(fifo) ELSE 0

(* How much of what the client writes comes in: all of it, if the firmware *)
(* is reading; what the FIFO has room for, if it executes something or the *)
(* main loop is in the middle of a decoding step; or more than that, if it *)
(* then reads on.                                                          *)
capacity(f) ==
  CASE fw = "idle" /\ (\A i \in 1..Len(fifo) : fifo[i].cmd \in {"H", "G", "Q"}) -> Size(f.cmd)
    [] fw = "payload" -> Room + Size(cur.cmd) - cur.n
    [] OTHER -> Room

deliver(f) ==
  \E n \in Least(Size(f.cmd), Room)..Least(Size(f.cmd), capacity(f)) :
    fifo' = IF n = 0 THEN fifo ELSE Append(fifo, Part(f, n))

putc(r) == replies' = Append(replies, r)

(* There is something the firmware has still to do.                        *)
Waiting == fw # "idle" \/ fifo # <<>>

-----------------------------------------------------------------------------
(* The firmware: nor_poll.                                                 *)

Done == fw' = "idle" /\ cur' = NoCmd /\ late' = FALSE

Serve(c) ==
  /\ fw = "idle" /\ fifo # <<>>
  /\ Head(fifo).cmd = c /\ Head(fifo).n = Size(c)
  /\ fifo' = Tail(fifo)

(* The payload is complete.                                                *)
execute(c, content) ==
  IF ~present \/ locked
  THEN Done /\ putc(Cmd("E", NoRec))
  ELSE /\ cur' = Part(Cmd(c, content), Size(c))
       /\ fw' = IF c = "S" \/ ProbesDirty(flash[head]) \/ SectorStart(head)
                THEN "erase" ELSE "program"
       /\ UNCHANGED <<late, replies>>

(* 'L' or 'S' with its payload, or a part of it: more is waited for.       *)
BeginLong ==
  /\ \E c \in Long : Serve(c) /\ execute(c, Head(fifo).arg)
  /\ UNCHANGED <<chipVars, head, clientVars, outcome, pastVars>>

BeginCut ==
  /\ fw = "idle" /\ fifo # <<>>
  /\ Head(fifo).cmd \in Long /\ Head(fifo).n < Size(Head(fifo).cmd)
  /\ fw' = "payload" /\ cur' = Head(fifo) /\ fifo' = Tail(fifo)
  /\ UNCHANGED <<chipVars, head, late, replies, clientVars, outcome, pastVars>>

PayloadTimeout ==
  /\ fw = "payload" /\ fifo = <<>>
  /\ Done
  /\ UNCHANGED <<chipVars, head, fifo, replies, clientVars, outcome, pastVars>>

(* The next bytes belong to the payload, whatever they were meant to be.   *)
(* What is left of the command they come from ("rest") would be read as    *)
(* commands of its own.                                                    *)
missing == Size(cur.cmd) - cur.n
rest(p) == IF p.n = missing THEN <<>> ELSE <<Part(Cmd("rest", p.arg), p.n - missing)>>

MorePayload ==
  /\ fw = "payload" /\ fifo # <<>>
  /\ LET p == Head(fifo)
     IN  IF p.n < missing
         THEN /\ cur' = [cur EXCEPT !.n = @ + p.n]
              /\ fifo' = Tail(fifo)
              /\ UNCHANGED <<fw, late, replies>>
         ELSE /\ fifo' = rest(p) \o Tail(fifo)
              /\ execute(cur.cmd, [kind |-> "bad", rec |-> cur.arg.rec])
  /\ UNCHANGED <<chipVars, head, clientVars, outcome, pastVars>>

erased(f, s) == [t \in Slots |-> IF t \in SectorOf(s) THEN Blank ELSE f[t]]

(* sector_erase before a program; the chip may not have executed it.       *)
Erase(done) ==
  /\ fw = "erase"
  /\ fw' = "program"
  /\ IF cur.cmd = "S"
     THEN settings' = (IF done THEN Blank ELSE settings) /\ UNCHANGED flash
     ELSE flash' = (IF done THEN erased(flash, head) ELSE flash) /\ UNCHANGED settings
  /\ chip' = IF done \/ cur.cmd = "S" THEN chip ELSE "faulty"
  /\ UNCHANGED <<present, locked, head, cur, late, fifo, replies, clientVars, outcome,
                 recent, wrapped, moved>>

(* Programming clears bits only: over anything but blank cells it spoils.  *)
programmed(old, new) == IF old = Blank THEN new ELSE [kind |-> "junk", rec |-> new.rec]

advance ==
  /\ head' = (head + 1) % N
  /\ wrapped' = (wrapped \/ head = N - 1)

(* page_program: c is what the cells hold afterwards.  Then the ack.       *)
Program(c) ==
  /\ fw = "program"
  /\ Done
  /\ putc(Cmd("K", NoRec))
  /\ IF cur.cmd = "S"
     THEN settings' = c /\ UNCHANGED <<flash, head, wrapped, recent>>
     ELSE /\ flash' = [flash EXCEPT ![head] = c]
          /\ LET w == Append(recent, [slot |-> head, content |-> c])
             IN  recent' = SubSeq(w, IF Len(w) > Sect THEN 2 ELSE 1, Len(w))
          /\ advance
          /\ UNCHANGED settings
  /\ UNCHANGED <<present, locked, fifo, clientVars, outcome, moved>>

ProgramWell ==
  /\ Program(programmed(IF cur.cmd = "S" THEN settings ELSE flash[head], cur.arg))
  /\ UNCHANGED chip

ProgramBadly ==
  /\ \E c \in Spoilt(cur.arg.rec) : Program(c)
  /\ chip' = IF cur.cmd = "S" THEN chip ELSE "faulty"

(* 'C': both sectors, then head; the lock is not looked at.                *)
BeginClear ==
  /\ Serve("C")
  /\ IF present THEN fw' = "clear0" /\ UNCHANGED <<head, replies>>
                ELSE fw' = "idle" /\ head' = 0 /\ putc(Cmd("E", NoRec))
  /\ UNCHANGED <<chipVars, cur, late, clientVars, outcome, pastVars>>

ClearFirst ==
  /\ fw = "clear0"
  /\ fw' = "clear1"
  /\ flash' = IF locked THEN flash ELSE erased(flash, 0)
  /\ recent' = <<>>
  /\ UNCHANGED <<settings, present, locked, head, cur, late, fifo, replies, clientVars,
                 outcome, wrapped, moved, chip>>

ClearSecond ==
  /\ fw = "clear1"
  /\ fw' = "idle"
  /\ flash' = IF locked THEN flash ELSE erased(flash, Sect)
  /\ head' = 0 /\ wrapped' = FALSE /\ moved' = FALSE /\ late' = FALSE
  /\ putc(Cmd("K", NoRec))
  /\ UNCHANGED <<settings, present, locked, cur, fifo, clientVars, outcome, recent, chip>>

(* 'H', 'G' and 'Q'.                                                       *)
Answer ==
  /\ \/ Serve("H") /\ putc(Cmd("H", head))
     \/ Serve("G") /\ putc(Cmd("G", flash[Head(fifo).arg]))
     \/ Serve("Q") /\ putc(Cmd("Q", settings))
  /\ UNCHANGED <<chipVars, fwVars, clientVars, outcome, pastVars>>

(* The FPGA restarts; an erase or program under way is left half done.     *)
torn(s) == {flash, erased(flash, s),
            [t \in Slots |-> IF t \in SectorOf(s) THEN [flash[t] EXCEPT !.kind = "junk"]
                             ELSE flash[t]]}

Interrupted ==
  CASE fw = "erase" /\ cur.cmd = "L" -> flash' \in torn(head) /\ UNCHANGED settings
    [] fw = "clear0" /\ ~locked -> flash' \in torn(0) /\ UNCHANGED settings
    [] fw = "clear1" /\ ~locked -> flash' \in torn(Sect) /\ UNCHANGED settings
    [] fw = "erase" /\ cur.cmd = "S" ->
         settings' \in {settings, Blank, [settings EXCEPT !.kind = "junk"]} /\ UNCHANGED flash
    [] fw = "program" /\ cur.cmd = "L" ->
         /\ \E c \in Spoilt(cur.arg.rec) : flash' = [flash EXCEPT ![head] = c]
         /\ UNCHANGED settings
    [] fw = "program" /\ cur.cmd = "S" ->
         /\ settings' \in Spoilt(cur.arg.rec) /\ UNCHANGED flash
    [] OTHER -> UNCHANGED <<flash, settings>>

Reboot ==
  /\ Interrupted
  /\ head' = IF present THEN Scan(flash') ELSE 0
  /\ Done /\ fifo' = <<>>
  /\ chip' = IF Waiting THEN "faulty" ELSE chip
  /\ moved' = (moved \/ head' # head)
  /\ UNCHANGED <<present, locked, replies, clientVars, outcome, recent, wrapped>>

-----------------------------------------------------------------------------
(* The client: one blocking call at a time, made from loop().              *)

(* flush_in, then a command and what is waited for next.                   *)
ask(f, wait) == replies' = <<>> /\ deliver(f) /\ pc' = wait

payload(o) == Cmd(o.cmd, Ok(o.rec))

(* Faulty variant: the cache is not cut.                                   *)
cache_push_all(r) == cache' = <<r>> \o cache
cache_push(r) == cache' = SubSeq(<<r>> \o cache, 1, IF Len(cache) < CacheN THEN Len(cache) + 1 ELSE CacheN)

begin(o) ==
  /\ pc = "idle"
  /\ op' = o /\ attempt' = 1 /\ outcome' = "none"
  /\ ask(payload(o), "ack")

flash_log_append ==
  /\ begin([cmd |-> "L", rec |-> [boot |-> boot, seq |-> seq]])
  /\ seq' = seq + 1
  /\ UNCHANGED <<chipVars, fwVars, cache, boot, pastVars>>

flash_set_settings(b) ==
  /\ begin([cmd |-> "S", rec |-> b])
  /\ UNCHANGED <<chipVars, fwVars, seq, cache, boot, pastVars>>

flash_log_clear ==
  /\ pc = "idle"
  /\ op' = [cmd |-> "C", rec |-> NoRec] /\ attempt' = 1 /\ outcome' = "none"
  /\ ask(Cmd("C", NoRec), "ack")
  /\ UNCHANGED <<chipVars, fwVars, seq, cache, boot, pastVars>>

(* The call returns; an append caches its record whatever the result.      *)
return(result) ==
  /\ pc' = "idle" /\ outcome' = result
  /\ IF op.cmd = "L" THEN cache_push(op.rec)
     ELSE IF op.cmd = "C" /\ result = "stored" THEN cache' = <<>> ELSE UNCHANGED cache
  /\ attempt' = 1
  /\ UNCHANGED fifo

(* Faulty variant: attempts are not counted.                               *)
retry_forever ==
  IF op.cmd # "C" THEN ask(payload(op), "ack") /\ UNCHANGED <<attempt, cache, outcome>>
  ELSE return("failed") /\ UNCHANGED replies
retry ==
  IF op.cmd # "C" /\ attempt < MaxRetries
  THEN /\ attempt' = attempt + 1
       /\ ask(payload(op), "ack")
       /\ UNCHANGED <<cache, outcome>>
  ELSE return("failed") /\ UNCHANGED replies

clientRest == UNCHANGED <<chipVars, fwVars, op, seq, boot, pastVars>>

(* read_bytes: an ack is one byte, head two, a record 16, the settings 32. *)
Enough ==
  CASE pc = "ack" -> replies # <<>>
    [] pc = "verify" -> \E i \in 1..Len(replies) :
         replies[i].cmd = "Q" \/ (replies[i].cmd = "G" /\ op.cmd = "L")
    [] OTHER -> Len(replies) > 1 \/ (replies # <<>> /\ Head(replies).cmd \notin {"K", "E"})

(* No answer in time, and none will come.                                  *)
Timeout ==
  /\ pc # "idle" /\ ~Enough /\ ~Waiting
  /\ IF pc = "report" THEN return("stored") /\ UNCHANGED replies ELSE retry
  /\ clientRest

(* What is being executed takes longer than an append waits.               *)
LateTimeout ==
  /\ pc # "idle" /\ ~Enough
  /\ op.cmd = "L" /\ fw \notin {"idle", "payload"} /\ ~late
  /\ late' = TRUE
  /\ chip' = IF chip = "prompt" THEN "slow" ELSE chip
  /\ retry
  /\ UNCHANGED <<chipVars, head, fw, cur, op, seq, boot, recent, wrapped, moved>>

(* Faulty variant: the ack is taken as success, nothing is read back.      *)
GetAckNoVerify ==
  /\ pc = "ack" /\ replies # <<>>
  /\ IF Head(replies).cmd = "K" THEN return("stored") /\ UNCHANGED replies
     ELSE IF Head(replies).cmd = "E" THEN return("failed") /\ UNCHANGED replies
     ELSE retry
  /\ clientRest

(* Faulty variant: the slot is read back without asking for head first.    *)
GetAckDirect ==
  /\ pc = "ack" /\ replies # <<>>
  /\ CASE Head(replies).cmd = "K" /\ op.cmd = "L" ->
            (\E s \in Slots : ask(Cmd("G", s), "verify")) /\ UNCHANGED <<attempt, cache, outcome>>
       [] Head(replies).cmd = "K" /\ op.cmd = "S" ->
            ask(Cmd("Q", NoRec), "verify") /\ UNCHANGED <<attempt, cache, outcome>>
       [] Head(replies).cmd = "K" /\ op.cmd = "C" ->
            return("stored") /\ UNCHANGED replies
       [] Head(replies).cmd = "E" ->
            return("failed") /\ UNCHANGED replies
       [] OTHER -> retry
  /\ clientRest

GetAck ==
  /\ pc = "ack" /\ replies # <<>>
  /\ CASE Head(replies).cmd = "K" /\ op.cmd = "L" ->
            ask(Cmd("H", NoRec), "head") /\ UNCHANGED <<attempt, cache, outcome>>
       [] Head(replies).cmd = "K" /\ op.cmd = "S" ->
            ask(Cmd("Q", NoRec), "verify") /\ UNCHANGED <<attempt, cache, outcome>>
       [] Head(replies).cmd = "K" /\ op.cmd = "C" ->
            return("stored") /\ UNCHANGED replies
       [] Head(replies).cmd = "E" ->
            return("failed") /\ UNCHANGED replies
       [] OTHER -> retry
  /\ clientRest

(* Two bytes of head; after a stray ack they are of no meaning.            *)
GetHead ==
  /\ pc = "head" /\ Enough
  /\ \/ /\ Head(replies).cmd = "H"
        /\ ask(Cmd("G", (Head(replies).arg - 1 + N) % N), "verify")
     \/ /\ Head(replies).cmd # "H"
        /\ \E s \in Slots : ask(Cmd("G", s), "verify")
  /\ UNCHANGED <<attempt, cache, outcome>>
  /\ clientRest

(* The read-back; a save also asks for head, only to print it.             *)
ReadBack == Head(replies).cmd \in {"G", "Q"} /\ Head(replies).arg = Ok(op.rec)
Verify ==
  /\ pc = "verify" /\ Enough
  /\ CASE ~ReadBack -> retry
       [] ReadBack /\ op.cmd = "L" -> return("stored") /\ UNCHANGED replies
       [] OTHER -> ask(Cmd("H", NoRec), "report") /\ UNCHANGED <<attempt, cache, outcome>>
  /\ clientRest

Report ==
  /\ pc = "report" /\ Enough
  /\ return("stored") /\ UNCHANGED replies
  /\ clientRest

(* A reply is lost on the wire.                                            *)
LoseReply ==
  /\ replies # <<>>
  /\ replies' = Tail(replies)
  /\ UNCHANGED <<chipVars, fwVars, fifo, clientVars, outcome, pastVars>>

(* The ESP32 restarts alone.  By the time it calls again the firmware has  *)
(* long served what was pending: Wi-Fi and flash_link_init come first.     *)
MasterReboot ==
  /\ ~Waiting
  /\ pc' = "idle" /\ seq' = 0 /\ cache' = <<>> /\ replies' = <<>>
  /\ boot' = boot + 1 /\ outcome' = "none"
  /\ attempt' = 1
  /\ UNCHANGED <<chipVars, fwVars, fifo, op, pastVars>>

-----------------------------------------------------------------------------
Init ==
  /\ flash = [s \in Slots |-> Blank] /\ settings = Blank
  /\ present \in BOOLEAN /\ locked \in BOOLEAN /\ (locked => present)
  /\ head = 0 /\ fw = "idle" /\ cur = NoCmd /\ late = FALSE
  /\ fifo = <<>> /\ replies = <<>>
  /\ pc = "idle" /\ op = [cmd |-> "none", rec |-> NoRec] /\ attempt = 1
  /\ seq = 0 /\ cache = <<>> /\ boot = 0
  /\ outcome = "none" /\ recent = <<>>
  /\ wrapped = FALSE /\ moved = FALSE /\ chip = "prompt"

Firmware == \/ BeginLong \/ BeginCut \/ MorePayload \/ PayloadTimeout \/ Erase(TRUE) \/ ProgramWell
            \/ BeginClear \/ ClearFirst \/ ClearSecond \/ Answer
Client   == Timeout \/ GetAck \/ GetHead \/ Verify \/ Report
Fault    == Erase(FALSE) \/ ProgramBadly \/ LoseReply \/ LateTimeout
Call     == \/ flash_log_append \/ flash_log_clear
            \/ \E b \in Blobs : flash_set_settings(b)

Next == Firmware \/ Client \/ Fault \/ Call \/ Reboot \/ MasterReboot

Spec == Init /\ [][Next]_vars /\ WF_vars(Firmware) /\ WF_vars(Client)

-----------------------------------------------------------------------------
(* Properties.                                                             *)

Records == [boot : Nat, seq : Nat]
Payloads == Records \cup Blobs \cup {NoRec}
Contents == [kind : {"blank", "ok", "bad", "junk", "ghost"}, rec : Payloads]

(* Every variable keeps its type, and the client is idle exactly outside   *)
(* its calls.                                                              *)
TypeOK ==
  /\ flash \in [Slots -> Contents] /\ settings \in Contents
  /\ present \in BOOLEAN /\ locked \in BOOLEAN
  /\ head \in Slots /\ late \in BOOLEAN
  /\ fw \in {"idle", "payload", "erase", "program", "clear0", "clear1"}
  /\ fw \in {"payload", "erase", "program"} => cur.cmd \in Long
  /\ pc \in {"idle", "ack", "head", "verify", "report"} /\ attempt \in 1..MaxRetries
  /\ outcome \in {"none", "stored", "failed"} /\ (pc # "idle" => outcome = "none")
  /\ seq \in Nat /\ boot \in Nat /\ Len(cache) <= CacheN
  /\ Len(recent) <= Sect /\ {wrapped, moved} \subseteq BOOLEAN
  /\ chip \in {"prompt", "slow", "faulty"}

(* flash_link.cpp:138-214.  An append that returns true has its record,    *)
(* byte for byte, in the flash, whichever attempt's answer it took for its *)
(* own, however many commands were cut short by the FIFO or lost.          *)
AppendedIsStored ==
  outcome = "stored" /\ op.cmd = "L" => \E s \in Slots : flash[s] = Ok(op.rec)

(* flash_link.cpp:296-359.  Settings reported as saved are in the flash,   *)
(* also when a stale answer or a late ack met the read-back, or the FPGA   *)
(* restarted between two attempts.                                         *)
SettingsAreSaved ==
  outcome = "stored" /\ op.cmd = "S" => settings = Ok(op.rec)

(* norflash.c:302-310.  After an acknowledged clear, be the ack a late one *)
(* of an append, no old record is left once the firmware has served what   *)
(* it was sent, on a chip that is not write protected.                     *)
ClearedIsEmpty ==
  chip = "prompt" /\ outcome = "stored" /\ op.cmd = "C" /\ ~locked /\ ~Waiting
     => \A s \in Slots : ~IsValid(flash[s])

(* What the client's calls report is so.                                   *)
ReportsHold == AppendedIsStored /\ SettingsAreSaved /\ ClearedIsEmpty

(* norflash.c:252-275.  The payload of a cut command takes whole commands: *)
(* no byte of a command is left over to be read as another one.            *)
NothingMisread ==
  \A i \in 1..Len(fifo) : /\ fifo[i].cmd # "rest"
                          /\ fifo[i].cmd \notin Long => fifo[i].n = Size(fifo[i].cmd)

(* The last Sect slots written still hold what was programmed.             *)
HalfKept == \A i \in 1..Len(recent) : flash[recent[i].slot] = recent[i].content

(* norflash.c:235-244.  Erasing ahead never takes one of the last Sect     *)
(* slots written, as long as the chip did what it was told and no restart  *)
(* interrupted it or put head elsewhere: the ring keeps half of its slots. *)
RecentKept == chip # "faulty" /\ ~moved => HalfKept

(* flash_link.cpp:164-213.  Every call returns: attempts and waits are     *)
(* bounded.                                                                *)
CallsReturn == pc # "idle" ~> pc = "idle"

(* norflash.h: 'L' appends to a ring of 512 slots and the boot scan finds  *)
(* its head.  So restarts do not change what the ring keeps.               *)
NewestKept == chip # "faulty" => HalfKept
=============================================================================
