------------------------- MODULE ConvolutionalCode -------------------------
(***************************************************************************)
(* The convolutional codes of the broadcast and the control channel: the    *)
(* encoder (conv_enc.c), the trellis and the Viterbi decoder (conv_dec.c,   *)
(* and conv_gen.h for the metrics).  A code is a record of n, k, len, rgen, *)
(* gen, punc and term, as struct lte_conv_code; bits are sequences over     *)
(* {0, 1}, soft bits sequences of integers.                                 *)
(***************************************************************************)
EXTENDS Integers, Sequences, FiniteSets

Bit(reg, i) == (reg \div 2^i) % 2
Parity(reg, taps, k) == Cardinality({i \in 0..(k - 1) : Bit(reg, i) = 1 /\ Bit(taps, i) = 1}) % 2
Xor(a, b) == (a + b) % 2

CodedLen(code) == IF code.term = "flush" THEN code.len + code.k - 1 ELSE code.len

-----------------------------------------------------------------------------
(* Encoder.                                                                *)

\* What the register starts with: for tail biting, the end of the input
StartReg(code, input) ==
    LET reg[i \in 0..(code.k - 1)] ==
            IF i = 0 THEN 0
            ELSE reg[i - 1] + input[code.len + 1 - i] * 2^(code.k - 1 - i)
    IN IF code.term = "tail_biting" THEN reg[code.k - 1] ELSE 0

\* The register once bit i is in it; flushing shifts in zeros
Registers(code, input) ==
    LET In(reg, i) == IF i > code.len THEN 0
                      ELSE IF code.rgen = 0 THEN input[i]
                      ELSE Xor(Parity(reg, code.rgen, code.k), input[i])
        reg[i \in 0..CodedLen(code)] ==
            IF i = 0 THEN 2 * StartReg(code, input)
            ELSE LET old == reg[i - 1] \div 2 IN old + In(old, i) * 2^(code.k - 1)
    IN reg

\* The generator of output j in the encoders specialised for n: in those of
\* rate 1/4 the last output repeats the one before it.
GeneratorOf(code, j) ==
    LET systematic == CHOOSE l \in 1..code.n : Cardinality({i \in 0..6 : Bit(code.gen[l], i) = 1}) = 1
        third      == ((systematic + 1) % 4) + 1
    IN CASE code.n = 4 /\ code.rgen = 0 /\ j = 4 -> code.gen[3]
         [] code.n = 4 /\ code.rgen # 0 /\ j = ((systematic + 2) % 4) + 1 -> code.gen[third]
         [] OTHER -> code.gen[j]

\* A generator with a single tap sends the bit itself, or what ends the trellis.
Systematic(code, j) == code.rgen # 0 /\ Cardinality({i \in 0..6 : Bit(code.gen[j], i) = 1}) = 1

\* encode_n2, encode_n3, encode_n4 and their recursive forms
EncodeAll(code, input) ==
    LET reg == Registers(code, input)
        Out(i, j) ==
            CASE Systematic(code, j) /\ i <= code.len -> input[i]
              [] Systematic(code, j) /\ i > code.len  -> Parity(reg[i], code.rgen, code.k)
              [] OTHER -> Parity(reg[i], GeneratorOf(code, j), code.k)
    IN [m \in 1..(CodedLen(code) * code.n) |-> Out(((m - 1) \div code.n) + 1, ((m - 1) % code.n) + 1)]

\* puncture: the places to leave out are listed from 0
Puncture(code, bits) ==
    LET kept == SelectSeq([m \in 1..Len(bits) |-> m], LAMBDA m: m - 1 \notin code.punc)
    IN [i \in DOMAIN kept |-> bits[kept[i]]]

\* lte_conv_encode
ConvEncode(code, input) == Puncture(code, EncodeAll(code, input))

-----------------------------------------------------------------------------
(* Trellis.                                                                *)

States(code) == 0..((IF code.k = 7 THEN 64 ELSE 16) - 1)

\* vstate_lshift: the state before state, whose lowest bit was val
Before(code, state, val) == ((2 * state) % 2^(code.k - 1)) + val

\* gen_state_info and gen_rec_state_info: the register on the way to a state
\* from its predecessor that ends in 0, and the input that led there
WayTo(code, state) == Before(code, state, 0) + (state \div 2^(code.k - 2)) * 2^(code.k - 1)

ValueOf(code, state) ==
    LET top == state \div 2^(code.k - 2)
    IN IF code.rgen = 0 THEN top
       ELSE IF Parity(Before(code, state, 0), code.rgen, code.k) = top THEN 0 ELSE 1

OutputOf(code, state, j) ==
    LET bit == IF code.rgen # 0 /\ code.gen[j] % 2^(code.k - 1) = 0 THEN ValueOf(code, state)
               ELSE Parity(WayTo(code, state), code.gen[j], code.k)
    IN 2 * bit - 1

\* The branch metric of gen_branch_metrics for the butterfly of a state
Metric(code, state, soft) ==
    LET sum[j \in 0..code.n] == IF j = 0 THEN 0 ELSE sum[j - 1] + soft[j] * OutputOf(code, state, j)
    IN sum[code.n]

-----------------------------------------------------------------------------
(* Decoder.  Sums and paths are sequences over the states, state 0 first;   *)
(* a path is the lowest bit of the state before.                            *)

\* Variant of Survivor: the worse of both paths is kept.
SurvivorWorse(sums, state, metric) ==
    LET zero == sums[2 * state + 1] + metric
        one  == sums[2 * state + 2] - metric
    IN IF zero < one THEN [sum |-> zero, path |-> 0] ELSE [sum |-> one, path |-> 1]

\* acs_butterfly and gen_path_metrics, for the states from..to: in the upper
\* half the metric changes sign; a tie goes to the state that ends in 1
Survivor(sums, state, metric) ==
    LET zero == sums[2 * state + 1] + metric
        one  == sums[2 * state + 2] - metric
    IN IF zero > one THEN [sum |-> zero, path |-> 0] ELSE [sum |-> one, path |-> 1]

Step(code, sums, soft) ==
    LET half  == Cardinality(States(code)) \div 2
        lower == [s \in 1..half |-> Survivor(sums, s - 1, Metric(code, s - 1, soft))]
        upper == [s \in 1..half |-> Survivor(sums, s - 1, -Metric(code, s - 1, soft))]
    IN lower \o upper

Lowest(seq) == CHOOSE v \in {seq[i] : i \in DOMAIN seq} : \A i \in DOMAIN seq : v <= seq[i]

\* One turn of _conv_decode, with the normalisation every intrvl turns
Interval(code) == 32767 \div (code.n * 127) - code.k
Turn(code, sums, soft, i) ==
    LET step == Step(code, sums, soft)
        raw  == [s \in DOMAIN step |-> step[s].sum] \o << >>
        low  == IF i % Interval(code) = 0 THEN Lowest(raw) ELSE 0
    IN [sums |-> [s \in DOMAIN raw |-> raw[s] - low] \o << >>,
        path |-> [s \in DOMAIN raw |-> step[s].path] \o << >>]

\* reset_decoder
Reset(code) ==
    [s \in 1..Cardinality(States(code)) |->
        IF s = 1 /\ code.term # "tail_biting" THEN 127 * code.n * code.k ELSE 0]

\* Where traceback starts: for tail biting, from the best of the sums
BestState(sums) ==
    LET best == {s \in DOMAIN sums : \A t \in DOMAIN sums : sums[t] <= sums[s]}
    IN (CHOOSE s \in best : \A t \in best : s <= t) - 1

LastState(code, sums) == IF code.term = "tail_biting" THEN BestState(sums) ELSE 0

\* depuncture: a soft bit of 0 where one was left out
Depuncture(code, soft) ==
    LET Kept(m) == Cardinality({i \in 0..(m - 1) : i \notin code.punc})
    IN [m \in 1..(CodedLen(code) * code.n) |-> IF m - 1 \in code.punc THEN 0 ELSE soft[Kept(m)]]

\* lte_conv_decode, turn by turn: alloc_vdec and reset_decoder, ...
Start(code, soft) ==
    [code |-> code, word |-> Depuncture(code, soft), passes |-> 0, sums |-> Reset(code), paths |-> << >>,
     walks |-> 0, left |-> CodedLen(code), state |-> 0, bits |-> << >>]

\* ... _conv_decode, twice for tail biting, the paths of the second pass in the
\* place of those of the first, ...
Passes(code) == IF code.term = "tail_biting" THEN 2 ELSE 1

TurnForward(dec) ==
    LET code  == dec.code
        again == Len(dec.paths) = CodedLen(code)
        i     == IF again THEN 0 ELSE Len(dec.paths)
        turn  == Turn(code, dec.sums, [j \in 1..code.n |-> dec.word[i * code.n + j]], i)
    IN [dec EXCEPT !.sums = turn.sums,
                   !.paths = Append(IF again THEN << >> ELSE @, turn.path),
                   !.passes = IF i + 1 = CodedLen(code) THEN @ + 1 ELSE @,
                   !.state = LastState(code, turn.sums)]

\* ... and traceback, by _traceback or _traceback_rec: over the tail of a flushed
\* word, which is not output; twice for tail biting, from where the first led.
TurnBack(dec) ==
    LET code == dec.code
        path == dec.paths[dec.left][dec.state + 1]
        val  == ValueOf(code, dec.state)
        bit  == IF code.rgen = 0 THEN val ELSE Xor(path, val)
        over == dec.left = 1
        once == over /\ dec.walks + 1 = Passes(code)
    IN [dec EXCEPT !.state = Before(code, @, path),
                   !.left = IF over THEN CodedLen(code) ELSE @ - 1,
                   !.walks = IF over THEN @ + 1 ELSE @,
                   !.bits = CASE dec.left > code.len -> @
                              [] over /\ ~once -> << >>
                              [] OTHER -> <<bit>> \o @]

Finished(dec) == dec.walks = Passes(dec.code)
Advance(dec) == IF dec.passes < Passes(dec.code) THEN TurnForward(dec) ELSE TurnBack(dec)
ConvDecode(dec) == dec.bits
=============================================================================
