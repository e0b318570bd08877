----------------------------- MODULE TurboCode -----------------------------
(***************************************************************************)
(* The turbo code of the shared channel: the sizes and parameters of its    *)
(* internal interleaver, its two constituent encoders with their            *)
(* termination, and the order in which the decoder's tail is unpacked       *)
(* (turbo_enc.c).  The decoder is in TurboDecoder.                          *)
(***************************************************************************)
EXTENDS ConvolutionalCode

\* lte_interlv_params: f1 and f2 of every size
LteInterlvParams == <<
    <<3, 10>>, <<7, 12>>, <<19, 42>>, <<7, 16>>, <<7, 18>>, <<11, 20>>, <<5, 22>>, <<11, 24>>,
    <<7, 26>>, <<41, 84>>, <<103, 90>>, <<15, 32>>, <<9, 34>>, <<17, 108>>, <<9, 38>>, <<21, 120>>,
    <<101, 84>>, <<21, 44>>, <<57, 46>>, <<23, 48>>, <<13, 50>>, <<27, 52>>, <<11, 36>>,
    <<27, 56>>, <<85, 58>>, <<29, 60>>, <<33, 62>>, <<15, 32>>, <<17, 198>>, <<33, 68>>,
    <<103, 210>>, <<19, 36>>, <<19, 74>>, <<37, 76>>, <<19, 78>>, <<21, 120>>, <<21, 82>>,
    <<115, 84>>, <<193, 86>>, <<21, 44>>, <<133, 90>>, <<81, 46>>, <<45, 94>>, <<23, 48>>,
    <<243, 98>>, <<151, 40>>, <<155, 102>>, <<25, 52>>, <<51, 106>>, <<47, 72>>, <<91, 110>>,
    <<29, 168>>, <<29, 114>>, <<247, 58>>, <<29, 118>>, <<89, 180>>, <<91, 122>>, <<157, 62>>,
    <<55, 84>>, <<31, 64>>, <<17, 66>>, <<35, 68>>, <<227, 420>>, <<65, 96>>, <<19, 74>>,
    <<37, 76>>, <<41, 234>>, <<39, 80>>, <<185, 82>>, <<43, 252>>, <<21, 86>>, <<155, 44>>,
    <<79, 120>>, <<139, 92>>, <<23, 94>>, <<217, 48>>, <<25, 98>>, <<17, 80>>, <<127, 102>>,
    <<25, 52>>, <<239, 106>>, <<17, 48>>, <<137, 110>>, <<215, 112>>, <<29, 114>>, <<15, 58>>,
    <<147, 118>>, <<29, 60>>, <<59, 122>>, <<65, 124>>, <<55, 84>>, <<31, 64>>, <<17, 66>>,
    <<171, 204>>, <<67, 140>>, <<35, 72>>, <<19, 74>>, <<39, 76>>, <<19, 78>>, <<199, 240>>,
    <<21, 82>>, <<211, 252>>, <<21, 86>>, <<43, 88>>, <<149, 60>>, <<45, 92>>, <<49, 846>>,
    <<71, 48>>, <<13, 28>>, <<17, 80>>, <<25, 102>>, <<183, 104>>, <<55, 954>>, <<127, 96>>,
    <<27, 110>>, <<29, 112>>, <<29, 114>>, <<57, 116>>, <<45, 354>>, <<31, 120>>, <<59, 610>>,
    <<185, 124>>, <<113, 420>>, <<31, 64>>, <<17, 66>>, <<171, 136>>, <<209, 420>>, <<253, 216>>,
    <<367, 444>>, <<265, 456>>, <<181, 468>>, <<39, 80>>, <<27, 164>>, <<127, 504>>, <<143, 172>>,
    <<43, 88>>, <<29, 300>>, <<45, 92>>, <<157, 188>>, <<47, 96>>, <<13, 28>>, <<111, 240>>,
    <<443, 204>>, <<51, 104>>, <<51, 212>>, <<451, 192>>, <<257, 220>>, <<57, 336>>, <<313, 228>>,
    <<271, 232>>, <<179, 236>>, <<331, 120>>, <<363, 244>>, <<375, 248>>, <<127, 168>>, <<31, 64>>,
    <<33, 130>>, <<43, 264>>, <<33, 134>>, <<477, 408>>, <<35, 138>>, <<233, 280>>, <<357, 142>>,
    <<337, 480>>, <<37, 146>>, <<71, 444>>, <<71, 120>>, <<37, 152>>, <<39, 462>>, <<127, 234>>,
    <<39, 158>>, <<39, 80>>, <<31, 96>>, <<113, 902>>, <<41, 166>>, <<251, 336>>, <<43, 170>>,
    <<21, 86>>, <<43, 174>>, <<45, 176>>, <<45, 178>>, <<161, 120>>, <<89, 182>>, <<323, 184>>,
    <<47, 186>>, <<23, 94>>, <<47, 190>>, <<263, 480>>>>

Sizes == 1..188

\* The sizes in the second column, also lte_interlv_k of pdsch_block.c
BlockSize(i) ==
    CASE i \in 1..60    -> 32 + 8 * i
      [] i \in 61..92   -> 512 + 16 * (i - 60)
      [] i \in 93..124  -> 1024 + 32 * (i - 92)
      [] i \in 125..188 -> 2048 + 64 * (i - 124)

\* lte_interlv_find_param; 0 where there is none
SizeIndex(k) == IF \E i \in Sizes : BlockSize(i) = k THEN CHOOSE i \in Sizes : BlockSize(i) = k ELSE 0

\* gen_deinterlv_map: where output n is taken from
DeinterlvMap(i, n) ==
    LET k == BlockSize(i)
        f == LteInterlvParams[i]
    IN (n * ((f[1] % k) + ((f[2] * n) % k))) % k


\* turbo_interleave and turbo_deinterleave; the empty sequence is -EINVAL
TurboInterleave(in) ==
    LET i == SizeIndex(Len(in))
    IN IF i = 0 THEN << >> ELSE [n \in 1..Len(in) |-> in[DeinterlvMap(i, n - 1) + 1]]

TurboDeinterleave(in) ==
    LET i == SizeIndex(Len(in))
        From(m) == CHOOSE n \in 1..Len(in) : DeinterlvMap(i, n - 1) = m - 1
    IN IF i = 0 THEN << >> ELSE [m \in 1..Len(in) |-> in[From(m)]]

-----------------------------------------------------------------------------
(* Constituent encoders.                                                   *)

\* A turbo code is a record of k, rgen and gen.  encode_n2 and encode_n2p: the
\* parity bits, and the register that is left.
Constituent(code, bits) ==
    LET In(reg, i) == Xor(Parity(reg, code.rgen, code.k), bits[i])
        run[i \in 0..Len(bits)] ==
            IF i = 0 THEN [reg |-> 0, z |-> << >>]
            ELSE LET old == run[i - 1]
                     reg == old.reg + In(old.reg, i) * 2^(code.k - 1)
                 IN [reg |-> reg \div 2, z |-> Append(old.z, Parity(reg, code.gen, code.k))]
    IN run[Len(bits)]

\* The bits that drive a register to zero, with their parities
TailX(code, reg, i) == Parity(reg \div 2^i, code.rgen, code.k)
TailZ(code, reg, i) == Parity(reg \div 2^i, code.gen, code.k)

\* lte_turbo_encode and turbo_term: three streams with four tail bits each
TurboEncode(code, bits) ==
    LET one == Constituent(code, bits)
        two == Constituent(code, TurboInterleave(bits))
        X1(i) == TailX(code, one.reg, i)  Z1(i) == TailZ(code, one.reg, i)
        X2(i) == TailX(code, two.reg, i)  Z2(i) == TailZ(code, two.reg, i)
    IN << bits  \o <<X1(0), Z1(1), X2(0), Z2(1)>>,
          one.z \o <<Z1(0), X1(2), Z2(0), X2(2)>>,
          two.z \o <<X1(1), Z1(2), X2(1), Z2(2)>> >>

\* turbo_unterm after turbo_interleave: what each constituent decoder is given,
\* as its systematic and its parity stream
TurboUnterm(d) ==
    LET len  == Len(d[1]) - 4
        T(s, i) == d[s][len + i]
        Body(s) == SubSeq(d[s], 1, len)
    IN << [x |-> Body(1) \o <<T(1, 1), T(3, 1), T(2, 2)>>,
           z |-> Body(2) \o <<T(2, 1), T(1, 2), T(3, 2)>>],
          [x |-> TurboInterleave(Body(1)) \o <<T(1, 3), T(3, 3), T(2, 4)>>,
           z |-> Body(3) \o <<T(2, 3), T(1, 4), T(3, 4)>>] >>

=============================================================================
