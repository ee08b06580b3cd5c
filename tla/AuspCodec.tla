------------------------------- MODULE AuspCodec -------------------------------
(***************************************************************************)
(* The ESP32 boards of codice_copiare: how a text becomes tones            *)
(* (bit_output_packer.c, bit_freq_codec.c, emit_tones.c, audio_driver.c)   *)
(* and tones become a text again on another board (reader.c, decoder.c,    *)
(* bit_input_packer.c, process_ready_packets in main.cpp, the router).     *)
(*                                                                         *)
(* One step is one window of 512 samples of the listening board.  A board  *)
(* talks on each of the three channels; they share the data tones and      *)
(* differ in the carrier.  A frequency is written as its distance from     *)
(* MASTER_BASE in steps of TONE_STEP: code c is c, the carriers of the     *)
(* three roles are 18 (8200 Hz), 20 (9000 Hz) and 19 (8600 Hz).            *)
(***************************************************************************)
EXTENDS Integers, Sequences, FiniteSets, SequencesExt, FiniteSetsExt

CONSTANTS
  Texts,                 (* [role -> texts it may send], ASCII codes       *)
  Loudness,              (* [role -> how loud the board that talks is here]*)
  ToneWin, GapWin,       (* windows of a code: 3 x 24 ms, silence: 80 ms   *)
  EofWin,                (* windows of the terminator: 7 x 24 ms           *)
  Timeout,               (* TIMEOUT_MS in windows                          *)
  MaxLate,               (* windows a turn of the loop may miss in a row   *)
  DeafWin,               (* windows of a turn that sends or measures       *)
  ArraySize, NumArrays,  (* MAX_ARRAY_SIZE, NUM_ARRAYS                     *)
  MaxTexts, MaxStalls    (* bounds: texts sent, turns that miss windows    *)

Roles == {"MASTER", "SLAVE", "CONFIG"}
Each(M(_)) == [MASTER |-> M("MASTER"), SLAVE |-> M("SLAVE"), CONFIG |-> M("CONFIG")]

(* A code and a silence each outlast a turn that is late by MaxLate        *)
(* windows, with one whole window to spare on either side; the timeout is  *)
(* longer than the time between two codes.  Texts fit in one array, and    *)
(* the bits left over at the ends of the arrays make no character.         *)
ASSUME TimesAssumption ==
  /\ {ToneWin, GapWin, EofWin, Timeout, ArraySize, NumArrays, MaxTexts} \subseteq Nat \ {0}
  /\ {MaxLate, DeafWin, MaxStalls} \subseteq Nat
  /\ ToneWin > MaxLate + 1 /\ GapWin > MaxLate + 1 /\ EofWin >= ToneWin
  /\ Timeout > ToneWin + GapWin + MaxLate
  /\ Loudness \in [Roles -> Nat]
  /\ Texts \in [Roles -> SUBSET Seq(1..127)]
  /\ \A r \in Roles : \A t \in Texts[r] : 7 * Len(t) < ArraySize
  /\ (NumArrays * ArraySize) \div 7 <= NumArrays * (ArraySize \div 7)

NoText == <<0>>                          \* no text: 0 ends a C string

VARIABLES
  tx,        \* [Roles -> what is left to play: codes, windows of the first]
  was,       \* what sounded in the window before: pairs <<role, code>>
  busy,      \* windows the loop has still to miss
  deaf,      \* it misses them because it sends or measures
  noise_flag, bits, timeout_armed, age,    \* per role: BitPacker, time since the last bit
  \* history: the text last sent, what was handed to the protocol since it
  \* began, whether it was disturbed, processed windows since it ended
  said, handed, hurt, rest, texts, stalls

rx   == <<noise_flag, bits, timeout_armed, age>>
hist == <<said, handed, hurt, rest, texts, stalls>>
vars == <<tx, was, busy, deaf, rx, hist>>

-----------------------------------------------------------------------------
(* Text to codes.                                                          *)
BitsOf(t) == [i \in 1..7 * Len(t) |-> (t[(i - 1) \div 7 + 1] \div (2^(6 - ((i - 1) % 7)))) % 2]

(* bit_output_packer_compress: one code per run of equal bits, n - 1 for n *)
(* zeros and 10 + n - 1 for n ones.  A run is written when the next one    *)
(* begins; the last is written only if it is longer than one bit.          *)
RunStarts(b) == {i \in 1..Len(b) : i = 1 \/ b[i] # b[i - 1]}
RunEnd(b, i) == Min({j \in RunStarts(b) : j > i} \cup {Len(b) + 1}) - 1
code(b, i) == (IF b[i] = 0 THEN 0 ELSE 10) + RunEnd(b, i) - i
Positions(b) == [i \in 1..Len(b) |-> i]
Codes(b, starts) == LET s == SelectSeq(Positions(b), LAMBDA i : i \in starts)
                    IN  [k \in 1..Len(s) |-> code(b, s[k])]
compress(t) ==
  LET b == BitsOf(t)
  IN  Codes(b, {i \in RunStarts(b) : RunEnd(b, i) < Len(b) \/ RunEnd(b, i) > i})

(* bit_output_packer_convert: the codes, then the terminator, code 8.      *)
EOF == 8
AllTexts == UNION {Texts[r] : r \in Roles}
Script == [t \in AllTexts |-> Append(compress(t), EOF)]

(* frequency_coder: data tone and carrier.                                 *)
carrier_of(r) == CASE r = "MASTER" -> 18 [] r = "SLAVE" -> 20 [] r = "CONFIG" -> 19
frequency_coder(c, r) == {c, carrier_of(r)}

(* emit_tones: a code's tones, then silence.  left counts a code's windows *)
(* down to the end of its silence.  Faulty variant: it has no end.         *)
Windows(codes) == IF codes = <<>> THEN 0
                  ELSE (IF Len(codes) = 1 THEN EofWin ELSE ToneWin) + GapWin
Idle == [codes |-> <<>>, left |-> 0]
Advance_on(p) == [p EXCEPT !.left = @ - 1]
Advance(p) == IF p.left > 1 THEN [p EXCEPT !.left = @ - 1]
              ELSE IF p.codes = <<>> THEN Idle
              ELSE [codes |-> Tail(p.codes), left |-> Windows(Tail(p.codes))]
Sounding == {<<r, Head(tx[r].codes)>> : r \in {q \in Roles : tx[q].left > GapWin}}
TonesOf(S) == UNION {frequency_coder(s[2], s[1]) : s \in S}

(* reader_task: the window the loop finds, the last one completed or, when *)
(* swap_array comes while it decodes, parts of it and of the one before.   *)
(* Windows are not aligned with tones, so the same holds of any window.    *)
Recorded == {P \in SUBSET (was \cup Sounding) : was \cap Sounding \subseteq P}

(* check_active_frequencies: a tone is a peak if nothing within six bins   *)
(* is louder; neighbouring codes are four bins apart.                      *)
amplitude(P, f) == Max({Loudness[s[1]] : s \in {q \in P : f \in frequency_coder(q[2], q[1])}})
Peaks(P) == {f \in TonesOf(P) : \A g \in {f - 1, f + 1} \cap TonesOf(P) :
                                  amplitude(P, f) >= amplitude(P, g)}

-----------------------------------------------------------------------------
(* Tones to text.                                                          *)
(* decode_ausp: in a role's row the highest of codes 0 to 8, its carrier,  *)
(* the highest of codes 9 to 17.                                           *)
Highest(S) == IF S = {} THEN -1 ELSE Max(S)
row(S, r) == [zeros |-> Highest(S \cap 0..8), ones |-> Highest(S \cap 9..17),
              carrier |-> IF carrier_of(r) \in S THEN carrier_of(r) ELSE -1]

(* interpret_bits: a code, or -2 / -3 for neither.  The carrier it looks   *)
(* for on the master's channel is MASTER_BASE, 0 here.                     *)
(* Faulty variants: the carrier is not looked at; the master's is the one  *)
(* frequency_coder sends.                                                  *)
interpret(f, carriers) ==
  CASE f.zeros # -1 /\ f.ones = -1 /\ f.carrier \in carriers -> f.zeros
    [] f.ones # -1 /\ f.zeros = -1 /\ f.carrier \in carriers -> f.ones
    [] OTHER -> -2
interpret_bits_any(f) == interpret(f, {-1, 18, 19, 20})
interpret_bits_master(f) == interpret(f, {18, 19, 20})
interpret_bits(f) == interpret(f, {0, 19, 20})
bit_coder(S) == Each(LAMBDA r : interpret_bits(row(S, r)))

(* flush_and_convert_to_ascii: groups of seven bits, none across the end   *)
(* of an array.  The number of bits is the code's own product when the     *)
(* first array is full.                                                    *)
total_bits(n) == LET pos == n % ArraySize idx == n \div ArraySize
                 IN  IF pos = 0 THEN idx * ArraySize ELSE IF idx > 0 THEN idx * pos ELSE pos
PerArray == ArraySize \div 7
CharAt(b, i) == LET from == ArraySize * (i \div PerArray) + 7 * (i % PerArray)
                IN  SumSet({2^(7 - j) : j \in {k \in 1..7 : b[from + k] = 1}})
CharsOf(b) == [i \in 1..total_bits(Len(b)) \div 7 |-> CharAt(b, i - 1)]
CString(t) == SubSeq(t, 1, Min({i \in 1..Len(t) : t[i] = 0} \cup {Len(t) + 1}) - 1)
allowed == 48..57 \cup 65..90 \cup 97..122 \cup {123, 125, 91, 93, 40, 41, 58, 59}
is_clean_ascii(t) == Range(t) \subseteq allowed

(* The text of a flush, or NoText when it is thrown away.                  *)
flush(b) == LET t == CString(CharsOf(b)) IN IF is_clean_ascii(t) THEN t ELSE NoText

(* add_bit: the bits of a code; 7 and 9 add none.                          *)
(* Faulty variant: codes 1 to 6 add one zero too few.                      *)
added_short(c) == IF c <= 6 THEN [i \in 1..c |-> 0]
                  ELSE IF c \in 10..19 THEN [i \in 1..(c % 10) + 1 |-> 1] ELSE <<>>
added(c) == IF c <= 6 THEN [i \in 1..c + 1 |-> 0]
            ELSE IF c \in 10..19 THEN [i \in 1..(c % 10) + 1 |-> 1] ELSE <<>>
Capacity == ArraySize * NumArrays
add_bit(b, c) ==                        \* the bits kept, the text flushed
  LET new == b \o added(c)
  IN  IF c = EOF THEN [bits |-> <<>>, text |-> flush(b)]
      ELSE IF Len(new) >= Capacity THEN [bits |-> <<>>, text |-> flush(SubSeq(new, 1, Capacity))]
      ELSE [bits |-> new, text |-> NoText]

(* process_tone_bits on one channel: h is what the window decodes to.  A   *)
(* code counts only after the channel was silent.                          *)
counts(r, h) == h >= 0 /\ noise_flag[r]
timeout_flush_if_needed(r, h) == timeout_armed[r] /\ h < 0 /\ age[r] >= Timeout
Channel(r, h) ==
  LET after == add_bit(bits[r], h)
  IN  CASE timeout_flush_if_needed(r, h) ->
             [flag |-> TRUE, bits |-> <<>>, text |-> flush(bits[r]), armed |-> FALSE, age |-> 0]
        [] counts(r, h) ->
             [flag |-> FALSE, bits |-> after.bits, text |-> after.text, armed |-> h # EOF, age |-> 0]
        [] OTHER ->
             [flag |-> noise_flag[r] \/ h < 0, bits |-> bits[r], text |-> NoText,
              armed |-> timeout_armed[r], age |-> IF timeout_armed[r] THEN Min({age[r] + 1, Timeout}) ELSE 0]

(* char_packet_router_route: a text with a '5' is only printed.            *)
routed(t) == 53 \notin Range(t)

-----------------------------------------------------------------------------
(* Processed windows after which nothing of a text is left.                *)
RestEnough == Timeout + MaxLate + 2

Init ==
  /\ tx = Each(LAMBDA r : Idle) /\ was = {} /\ busy = 0 /\ deaf = FALSE
  /\ noise_flag = Each(LAMBDA r : FALSE) /\ bits = Each(LAMBDA r : <<>>)
  /\ timeout_armed = Each(LAMBDA r : FALSE) /\ age = Each(LAMBDA r : 0)
  /\ said = Each(LAMBDA r : NoText) /\ handed = Each(LAMBDA r : <<>>)
  /\ hurt = Each(LAMBDA r : TRUE) /\ rest = Each(LAMBDA r : RestEnough - 1)
  /\ texts = 0 /\ stalls = 0

(* A board begins to send (send_master, send_slave, send_config).  A text  *)
(* that follows a disturbed one too soon is disturbed by what is left of   *)
(* it.                                                                     *)
Speak(r, t) ==
  /\ tx[r] = Idle /\ texts < MaxTexts
  /\ tx' = [tx EXCEPT ![r] = [codes |-> Script[t], left |-> Windows(Script[t])]]
  /\ said' = [said EXCEPT ![r] = t] /\ handed' = [handed EXCEPT ![r] = <<>>]
  /\ hurt' = [hurt EXCEPT ![r] = @ /\ rest[r] < RestEnough]
  /\ rest' = [rest EXCEPT ![r] = 0] /\ texts' = texts + 1
  /\ UNCHANGED <<was, busy, deaf, rx, stalls>>

(* A window passes: what sounds, and what it does to the texts under way.  *)
Pass ==
  LET loud == {s[1] : s \in was \cup Sounding}
  IN  /\ tx' = Each(LAMBDA r : Advance(tx[r])) /\ was' = Sounding
      /\ hurt' = Each(LAMBDA r : hurt[r] \/ (r \in loud /\ loud # {r}) \/ (deaf /\ tx[r] # Idle))
      /\ rest' = Each(LAMBDA r : IF tx[r] = Idle /\ ~deaf THEN Min({rest[r] + 1, RestEnough}) ELSE rest[r])
      /\ UNCHANGED <<said, texts>>

(* The loop is still in an earlier turn: the window is lost.               *)
Miss ==
  /\ busy > 0 /\ Pass
  /\ busy' = busy - 1 /\ deaf' = (deaf /\ busy > 1)
  /\ age' = Each(LAMBDA r : IF timeout_armed[r] THEN Min({age[r] + 1, Timeout}) ELSE 0)
  /\ UNCHANGED <<noise_flag, bits, timeout_armed, handed, stalls>>

(* loop: decoder_operations, process_ready_packets.  When every channel    *)
(* has a tone and none was silent before, nothing is done.                 *)
Turn(h) ==
  LET quiet == \E r \in Roles : noise_flag[r] \/ h[r] < 0
      out   == Each(LAMBDA r : Channel(r, h[r]))
      give  == {r \in Roles : quiet /\ out[r].text # NoText /\ routed(out[r].text)}
  IN  /\ noise_flag' = Each(LAMBDA r : IF quiet THEN out[r].flag ELSE noise_flag[r])
      /\ bits' = Each(LAMBDA r : IF quiet THEN out[r].bits ELSE bits[r])
      /\ timeout_armed' = Each(LAMBDA r : IF quiet THEN out[r].armed ELSE timeout_armed[r])
      /\ age' = Each(LAMBDA r : IF quiet THEN out[r].age ELSE Min({age[r] + 1, Timeout}))
      /\ handed' = Each(LAMBDA r : IF r \in give THEN Append(handed[r], out[r].text) ELSE handed[r])

Listen ==
  /\ busy = 0 /\ Pass
  /\ \E h \in {bit_coder(Peaks(P)) : P \in Recorded} : Turn(h)
  /\ \/ busy' = 0 /\ UNCHANGED <<deaf, stalls>>
     \/ /\ stalls < MaxStalls /\ stalls' = stalls + 1
        /\ \/ busy' \in 1..MaxLate /\ UNCHANGED deaf
           \/ busy' = DeafWin /\ deaf' = TRUE

Next == Miss \/ Listen \/ \E r \in Roles : \E t \in Texts[r] : Speak(r, t)

Spec == Init /\ [][Next]_vars

-----------------------------------------------------------------------------
TypeOK ==
  /\ tx \in [Roles -> [codes : Seq(0..19), left : 0..EofWin + GapWin]]
  /\ was \subseteq Roles \X (0..19) /\ busy \in 0..Max({MaxLate, DeafWin}) /\ deaf \in BOOLEAN
  /\ noise_flag \in [Roles -> BOOLEAN] /\ timeout_armed \in [Roles -> BOOLEAN]
  /\ \A r \in Roles : bits[r] \in Seq({0, 1}) /\ Len(bits[r]) < Capacity
  /\ age \in [Roles -> 0..Timeout]
  /\ hurt \in [Roles -> BOOLEAN] /\ rest \in [Roles -> 0..RestEnough]

(* What a text is handed over as: without its last character, whose last   *)
(* bit is a run of one and is not sent (every message ends with a brace,   *)
(* 1111101).                                                               *)
Expected(t) == IF routed(Front(t)) THEN <<Front(t)>> ELSE <<>>
NineOnes(t) == LET b == BitsOf(t) IN \E i \in 1..7 * Len(t) - 8 : \A j \in i..i + 8 : b[j] = 1

Garbled == {t \in AllTexts : NineOnes(t)}

(* A text that nobody disturbed is handed to the protocol once and whole   *)
(* (or only printed, with a '5'), however late the loop's turns are and    *)
(* whatever an earlier, disturbed text left behind - unless it has nine    *)
(* ones in a row, as "NO}" has: their tone is the master's carrier.        *)
(* On the master's channel (commands, ABORT, OK) nothing ever is: the      *)
(* decoder looks for another carrier than the one that is sent             *)
(* (bit_freq_codec.c:54 and :136).                                         *)
CleanTextHanded ==
  /\ \A r \in {"SLAVE", "CONFIG"} :
       (tx[r] = Idle /\ said[r] # NoText /\ ~hurt[r]) =>
         (handed[r] = Expected(said[r]) <=> said[r] \notin Garbled)
  /\ handed["MASTER"] = <<>>

(* Nothing is handed over on a channel whose board is silent, whatever     *)
(* sounds on the other two with the same data tones.                       *)
SilentHandsNothing ==
  [][\A r \in Roles : Len(handed'[r]) > Len(handed[r]) => rest[r] < RestEnough]_vars

(* The code alone, over every text of one or two legal characters and a    *)
(* closing brace: heard code by code, it is the text without the brace.    *)
(* No state matters to it: it is looked at before anything is said.        *)
Heard(t) ==
  LET c == compress(t)
  IN  CharsOf(FlattenSeq([k \in 1..Len(c) |->
        added(interpret_bits(row(frequency_coder(c[k], "SLAVE"), "SLAVE")))]))
ShortTexts == {<<c, d, 125>> : c \in {48, 79, 123}, d \in allowed}
CodesCarryText == texts = 0 => \A t \in ShortTexts : Heard(t) = Front(t) <=> ~NineOnes(t)

=============================================================================
