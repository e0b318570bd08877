---------------------------- MODULE TurboDecoder ----------------------------
(***************************************************************************)
(* The iterative decoder of the turbo code (turbo_dec.c) with the recursions *)
(* of turbo_sse.h.  A decoder is kept from one block to the next with the    *)
(* sums its last backward walk has left.  Sums are 16 bits wide and         *)
(* saturate.                                                               *)
(***************************************************************************)
EXTENDS TurboCode

SumInit == 16000            \* SUM_INIT
Iterations == 8             \* "int iter = 8" in pdsch_block.c

Saturated(v) == IF v > 32767 THEN 32767 ELSE IF v < -32768 THEN -32768 ELSE v
Negative(v) == Saturated(-v)
Int16(v) == ((v + 32768) % 65536) - 32768
Larger(a, b) == IF a > b THEN a ELSE b
MaxOf(seq) == CHOOSE v \in {seq[i] : i \in DOMAIN seq} : \A i \in DOMAIN seq : seq[i] <= v

\* Lanes are 1 to 8 for the states 0 to 7.  LTE_SYSTEM_FW_SHUFFLE and
\* LTE_PARITY_FW_SHUFFLE, lowest lane first
System == <<-1, 1, -1, 1, 1, -1, 1, -1>>
ParityOf == <<-1, -1, 1, 1, 1, 1, -1, -1>>

\* FW_SHUFFLE_MASK0 and FW_SHUFFLE_MASK1: the states before each state
Even(lane) == 2 * ((lane - 1) % 4) + 1
Odd(lane)  == Even(lane) + 1

\* LV_BW_SHUFFLE_MASK0 and LV_BW_SHUFFLE_MASK1: the states after each state for
\* either value of the bit
AfterZero == <<1, 5, 6, 2, 3, 7, 8, 4>>
AfterOne  == <<5, 1, 2, 6, 7, 3, 4, 8>>

-----------------------------------------------------------------------------
(* One bit forward and one backward.                                       *)

\* The branch metrics of gen_fw_metrics; le is half weighted, rounded down
Branch(x, z, le) ==
    [lane \in 1..8 |-> Saturated(x * System[lane] + z * ParityOf[lane] + (Int16(le * System[lane]) \div 2))] \o << >>

\* gen_fw_metrics, with the sum of state 0 taken off all of them
ForwardStep(sums, m) ==
    LET raw == [lane \in 1..8 |->
                  Larger(Saturated(sums[Even(lane)] + m[lane]), Saturated(sums[Odd(lane)] + Negative(m[lane])))] \o << >>
    IN [sums |-> [lane \in 1..8 |-> Saturated(raw[lane] - raw[1])] \o << >>, norm |-> raw[1]]

\* gen_bw_metrics: the sums, and the value of a bit
BackwardStep(sums, m, norm) ==
    [lane \in 1..8 |->
        LET to == ((lane - 1) \div 2) + 1
            b  == IF lane % 2 = 1 THEN m[to] ELSE Negative(m[to])
        IN Saturated(Larger(Saturated(sums[to] + b), Saturated(sums[to + 4] - b)) - norm)] \o << >>

BitValue(sums, fw, z) ==
    LET zero == [lane \in 1..8 |-> Saturated(Saturated(fw[lane] + z * ParityOf[lane]) + sums[AfterZero[lane]])] \o << >>
        one  == [lane \in 1..8 |-> Saturated(Saturated(fw[lane] - z * ParityOf[lane]) + sums[AfterOne[lane]])] \o << >>
    IN Int16(MaxOf(one) - MaxOf(zero))

-----------------------------------------------------------------------------
(* The decoder.  A turn is one pass of a loop of turbo_iterate; in half 0 the *)
(* first trellis is walked for the first time, in half 1 the second, and so  *)
(* on.  fw holds the forward metrics a walk has, out the values it has found. *)

FwInit == [sums |-> <<SumInit, 0, 0, 0, 0, 0, 0, 0>>, norm |-> 0]

\* alloc_tdec
AllocTdec == [in |-> << >>, lvals |-> << >>, bwsums |-> <<0, 0, 0, 0, 0, 0, 0, 0>>,
              fw |-> <<FwInit>>, out |-> << >>, half |-> 0]

\* Variant of Started: the sum of state 0 is left as it was, too.
StartedNowhere(sums) == sums

\* "We have enough headroom to not clear all sums"
Started(sums) == [sums EXCEPT ![1] = SumInit]

\* lte_turbo_decode up to its loop: turbo_unterm and init_tdec; the sums stay
Loaded(dec, d) ==
    LET in == TurboUnterm(d)
        zeros == [i \in 1..Len(in[1].x) |-> 0] \o << >>
    IN [dec EXCEPT !.in = in, !.lvals = <<zeros, zeros>>, !.fw = <<FwInit>>, !.out = << >>,
                   !.bwsums = Started(@), !.half = 0]

Trellis(dec) == 1 + (dec.half % 2)
DecoderDone(dec) == dec.half = 2 * Iterations

\* One turn of the forward loop; entry i of fw is what bit i starts from
Forward(dec) ==
    LET t == Trellis(dec)
        i == Len(dec.fw)
        m == Branch(dec.in[t].x[i], dec.in[t].z[i], dec.lvals[t][i])
    IN [dec EXCEPT !.fw = Append(@, ForwardStep(@[i].sums, m))]

\* One turn of the backward loop
Backward(dec) ==
    LET t == Trellis(dec)
        i == Len(dec.in[t].x) - Len(dec.out)
        z == dec.in[t].z[i]
        m == Branch(dec.in[t].x[i], z, dec.lvals[t][i])
    IN [dec EXCEPT !.bwsums = BackwardStep(@, m, dec.fw[i + 1].norm),
                   !.out = <<BitValue(dec.bwsums, dec.fw[i].sums, z)>> \o @]

\* turbo_interleave_lval and turbo_deinterleave_lval, which leave the last three
\* of the other trellis as they are, and the start of the next half
Exchanged(lvals, from, out) ==
    LET n     == Len(out) - 3
        body  == SubSeq(out, 1, n)
        other == (IF from = 1 THEN TurboInterleave(body) ELSE TurboDeinterleave(body))
                   \o SubSeq(lvals[3 - from], n + 1, n + 3)
    IN IF from = 1 THEN <<out, other>> ELSE <<other, out>>

NextHalf(dec) ==
    [dec EXCEPT !.lvals = Exchanged(@, Trellis(dec), dec.out), !.fw = <<FwInit>>, !.out = << >>,
                !.half = @ + 1, !.bwsums = IF dec.half + 1 < 2 * Iterations THEN Started(@) ELSE @]

\* A turn of _turbo_decode
Walked(dec) ==
    LET n == Len(dec.in[1].x)
    IN IF Len(dec.fw) <= n THEN Forward(dec)
       ELSE IF Len(dec.out) < n THEN Backward(dec) ELSE NextHalf(dec)

\* SLICE_PACK, and the slicing of lte_turbo_decode_unpack
Sliced(dec) == [i \in 1..(Len(dec.lvals[1]) - 3) |-> IF dec.lvals[1][i] > 0 THEN 1 ELSE 0]
=============================================================================
