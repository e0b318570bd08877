----------------------------- MODULE DciFormats -----------------------------
(***************************************************************************)
(* Downlink control information: the bit layout of every DCI format (the   *)
(* structures of dci_formats.h), the order in which dci_formats.c unpacks  *)
(* them into vals[], the order in which the enumerations of dci.h name     *)
(* those entries, the table of payload sizes and the lookup of the format  *)
(* from a length (dci.c).  Layouts and orders are sequences; a payload is  *)
(* a sequence of bits.  Printing is left out.                              *)
(***************************************************************************)
EXTENDS Integers, Sequences, FiniteSets, SequencesExt

Bandwidths == {6, 15, 25, 50, 75, 100}
Modes == {"fdd", "tdd"}
NA == -1

\* enum lte_dci_format_type, in its order
Formats == <<"0", "1", "1a", "1b", "1c", "1d", "2", "2a", "3", "3a">>

BlkAssign(n) ==
    CASE n = 6 -> 5 [] n = 15 -> 7 [] n = 25 -> 9 [] n = 50 -> 11 [] n = 75 -> 12 [] n = 100 -> 13

Type0Ra(n) ==
    CASE n = 6 -> 6 [] n = 15 -> 8 [] n = 25 -> 13 [] n = 50 -> 17 [] n = 75 -> 19 [] n = 100 -> 25

BlkAssign1c(n) ==
    CASE n = 6 -> 3 [] n = 15 -> 5 [] n = 25 -> 7 [] n = 50 -> 7 [] n = 75 -> 8 [] n = 100 -> 9

RaHeader(n) == IF n <= 10 THEN 0 ELSE 1
GapBits(n) == IF n < 50 THEN 0 ELSE 1

-----------------------------------------------------------------------------
(* The structures: fields in payload order, each with its width.           *)

Field(name, width) == <<[name |-> name, width |-> width]>>
Harq(mode) == Field("harq", IF mode = "fdd" THEN 3 ELSE 4)
Dai(mode) == IF mode = "fdd" THEN << >> ELSE Field("dai", 2)
Mcs(suffix) == Field("mod" \o suffix, 5) \o Field("ndi" \o suffix, 1) \o Field("rv" \o suffix, 2)

Format0(n, mode) ==
    Field("format", 1) \o Field("hopping", 1) \o Field("blk_assign", BlkAssign(n))
    \o Field("mod", 5) \o Field("ndi", 1) \o Field("tpc", 2) \o Field("cyclic_shift", 3)
    \o Dai(mode) \o Field("cqi_req", 1)

Format1(n, mode) ==
    Field("ra_header", RaHeader(n)) \o Field("blk_assign", Type0Ra(n)) \o Field("mod", 5)
    \o Harq(mode) \o Field("ndi", 1) \o Field("rv", 2) \o Field("tpc", 2) \o Dai(mode)

Format1a(n, mode) ==
    Field("format", 1) \o Field("local_vrb", 1) \o Field("blk_assign", BlkAssign(n))
    \o Field("mod", 5) \o Harq(mode) \o Field("ndi", 1) \o Field("rv", 2) \o Field("tpc", 2) \o Dai(mode)

Format1b(n, mode) ==
    Field("local_vrb", 1) \o Field("blk_assign", BlkAssign(n)) \o Field("mod", 5)
    \o Harq(mode) \o Field("ndi", 1) \o Field("rv", 2) \o Field("tpc", 2) \o Dai(mode)
    \o Field("tpmi", 2) \o Field("pmi", 1)

Format1c(n, mode) ==
    Field("gap", GapBits(n)) \o Field("blk_assign", BlkAssign1c(n)) \o Field("blk_size", 5)

Format1d(n, mode) ==
    Field("local_vrb", 1) \o Field("blk_assign", BlkAssign(n)) \o Field("mod", 5)
    \o Harq(mode) \o Field("ndi", 1) \o Field("rv", 2) \o Field("tpc", 2) \o Dai(mode)
    \o Field("tpmi", 2) \o Field("dl_pwr_offset", 1)

Format2(n, mode) ==
    Field("ra_header", 1) \o Field("blk_assign", Type0Ra(n)) \o Field("tpc", 2) \o Dai(mode)
    \o Harq(mode) \o Field("swap", 1) \o Mcs("") \o Field("precoding", 3)

Format2a(n, mode) ==
    Field("ra_header", RaHeader(n)) \o Field("blk_assign", Type0Ra(n)) \o Field("tpc", 2) \o Dai(mode)
    \o Harq(mode) \o Field("swap", 1) \o Mcs("_1") \o Mcs("_2") \o Field("precoding", 0)

Layout(fmt, n, mode) ==
    CASE fmt = "0"  -> Format0(n, mode)  [] fmt = "1"  -> Format1(n, mode)
      [] fmt = "1a" -> Format1a(n, mode) [] fmt = "1b" -> Format1b(n, mode)
      [] fmt = "1c" -> Format1c(n, mode) [] fmt = "1d" -> Format1d(n, mode)
      [] fmt = "2"  -> Format2(n, mode)  [] fmt = "2a" -> Format2a(n, mode)
      [] OTHER -> << >>                  \* Formats 3 and 3A are empty structures

\* sizeof of the structure: one byte per payload bit
StoredSize(fmt, n, mode) == FoldLeft(LAMBDA sum, f: sum + f.width, 0, Layout(fmt, n, mode))

-----------------------------------------------------------------------------
(* Unpacking: what each entry of vals[] is read from.                      *)

Values0  == <<"format", "hopping", "blk_assign", "mod", "ndi", "tpc", "cyclic_shift", "dai", "cqi_req">>
Values1  == <<"ra_header", "blk_assign", "mod", "harq", "ndi", "rv", "tpc", "dai">>
Values1a == <<"format", "local_vrb", "blk_assign", "mod", "harq", "ndi", "rv", "tpc", "dai">>
Values1b == <<"local_vrb", "blk_assign", "mod", "harq", "ndi", "rv", "tpc", "dai", "tpmi", "pmi">>
Values1c == <<"gap", "blk_assign", "blk_size">>
Values1d == <<"local_vrb", "blk_assign", "mod", "harq", "ndi", "rv", "tpc", "dai", "tpmi", "dl_pwr_offset">>
Values2  == <<"ra_header", "blk_assign", "tpc", "dai", "harq", "swap", "mod", "ndi", "rv", "precoding">>
Values2a == <<"ra_header", "blk_assign", "tpc", "dai", "harq", "swap",
              "mod_1", "ndi_1", "rv_1", "mod_2", "ndi_2", "rv_2", "precoding">>

ValuesOf(fmt) ==
    CASE fmt = "0" -> Values0   [] fmt = "1" -> Values1   [] fmt = "1a" -> Values1a [] fmt = "1b" -> Values1b
      [] fmt = "1c" -> Values1c [] fmt = "1d" -> Values1d [] fmt = "2" -> Values2   [] fmt = "2a" -> Values2a
      [] OTHER -> << >>

\* The enumerations of dci.h: the names under which vals[] is read.
Enum2 == <<"ra_header", "blk_assign", "tpc", "dai", "harq", "swap", "ndi", "rv", "precoding">>
EnumOf(fmt) == IF fmt = "2" THEN Enum2 ELSE ValuesOf(fmt)

\* pack_be
Pack(bits, off, n) ==
    LET v[i \in 0..n] == IF i = 0 THEN 0 ELSE 2 * v[i - 1] + bits[off + i] IN v[n]

Offset(layout, i) == FoldLeft(LAMBDA sum, f: sum + f.width, 0, SubSeq(layout, 1, i - 1))

\* Two entries are read as one byte whatever the width of the field.
ReadWidth(fmt, mode, f) ==
    IF \/ fmt = "1b" /\ f.name = "tpmi"
       \/ fmt = "2a" /\ mode = "tdd" /\ f.name = "ra_header"
    THEN 1 ELSE f.width

\* DCI_DECODE_FORMAT*: a field the mode does not carry is DCI_FORMAT_NA.
Unpack(fmt, n, mode, bits) ==
    LET layout == Layout(fmt, n, mode)
        At(name) == {i \in DOMAIN layout : layout[i].name = name}
        Value(name) ==
            IF At(name) = {} THEN NA
            ELSE LET i == CHOOSE i \in At(name) : TRUE
                 IN Pack(bits, Offset(layout, i), ReadWidth(fmt, mode, layout[i]))
    IN [k \in DOMAIN ValuesOf(fmt) |-> Value(ValuesOf(fmt)[k])]

-----------------------------------------------------------------------------
(* The size table and what is looked up in it.                             *)

Ambiguous(size) == size \in {12, 14, 16, 20, 24, 26, 32, 40, 44, 56}

\* The form0 and form1a part of dci_setup_sizes, as a pair
Sizes01a(n, mode) ==
    LET form0 == StoredSize("0", n, mode)
        form1a == StoredSize("1a", n, mode)
        padded == IF Ambiguous(form1a) THEN form1a + 1 ELSE form1a
    IN IF form1a < form0 THEN <<form0, form0>>
       ELSE <<IF form0 < padded THEN padded ELSE form0, padded>>

\* "while (chk_ambiguous_bits(form1) || form1 == form1a) form1++"
Size1(n, mode) ==
    LET s == StoredSize("1", n, mode)
    IN CHOOSE t \in s..(s + 3) :
        /\ ~Ambiguous(t) /\ t # Sizes01a(n, mode)[2]
        /\ \A u \in s..(t - 1) : Ambiguous(u) \/ u = Sizes01a(n, mode)[2]

\* dci_setup_sizes and lte_dci_format_size
FormatSize(fmt, n, mode) ==
    LET s == StoredSize(fmt, n, mode)
    IN CASE fmt = "0"  -> Sizes01a(n, mode)[1]
         [] fmt = "1a" -> Sizes01a(n, mode)[2]
         [] fmt = "1"  -> Size1(n, mode)
         [] fmt = "2"  -> IF Ambiguous(s) THEN s + 1 ELSE s
         [] OTHER -> s

\* lte_dci_get_type: the first format of that length
GetType(n, mode, len) ==
    LET hits == {i \in DOMAIN Formats : FormatSize(Formats[i], n, mode) = len}
    IN IF hits = {} THEN "none" ELSE Formats[CHOOSE i \in hits : \A j \in hits : i <= j]

\* lte_dci_decode; Format 0 and 1A share a length and differ in the first bit
DciDecode(n, mode, bits, rnti) ==
    LET found == GetType(n, mode, Len(bits))
        type == IF found = "0" /\ bits[1] = 1 THEN "1a" ELSE found
    IN [type |-> type, mode |-> mode, rbs |-> n, rnti |-> rnti,
        vals |-> IF type = "none" THEN << >> ELSE Unpack(type, n, mode, bits)]

\* lte_dci_get_val for the fields of the enumerations
GetVal(dci, name) ==
    LET at == {k \in DOMAIN EnumOf(dci.type) : EnumOf(dci.type)[k] = name}
    IN IF at = {} THEN -1 ELSE dci.vals[CHOOSE k \in at : TRUE]

\* lte_dci_get_mod
GetMod(dci) ==
    IF dci.type \in {"0", "1", "1a", "1b", "1d"} THEN GetVal(dci, "mod")
    ELSE IF dci.type = "1c" THEN GetVal(dci, "blk_size") ELSE -1

-----------------------------------------------------------------------------
(* Sub-fields of the resource block assignment.                            *)

\* lte_dci_format1_type0_bmp_size and lte_dci_format1_type1_bmp_size
Type0BmpSize(dci) ==
    IF dci.type # "1" \/ (dci.rbs > 10 /\ GetVal(dci, "ra_header") # 0) THEN -1 ELSE Type0Ra(dci.rbs)

Type1BmpSize(dci) ==
    IF dci.type # "1" \/ dci.rbs <= 10 \/ GetVal(dci, "ra_header") < 1 THEN -1
    ELSE Type0Ra(dci.rbs) - (IF dci.rbs <= 26 THEN 2 ELSE 3)

\* lte_dci_format1_type1_subval: subset, shift and bitmap of allocation type 1
Type1Sub(dci) ==
    LET ra == GetVal(dci, "blk_assign")
        size == Type0Ra(dci.rbs)
        bmp == CASE dci.rbs = 15 -> 6 [] dci.rbs = 25 -> 11 [] dci.rbs = 50 -> 14
                 [] dci.rbs = 75 -> 16 [] dci.rbs = 100 -> 22
    IN IF dci.rbs <= 26
       THEN [p |-> (ra \div 2^(size - 1)) % 2, shift |-> (ra \div 2^(size - 2)) % 2, bmp |-> ra % 2^bmp]
       ELSE [p |-> (ra \div 2^(size - 2)) % 4, shift |-> (ra \div 2^(size - 3)) % 2, bmp |-> ra % 2^bmp]

\* lte_dci_format1a_subval, lte_dci_format1b_subval, lte_dci_format1d_subval
DistRa(dci) ==
    LET mask == CASE dci.rbs = 6 -> 4 [] dci.rbs = 15 -> 6 [] dci.rbs = 25 -> 8
                  [] dci.rbs = 50 -> 10 [] dci.rbs = 75 -> 11 [] dci.rbs = 100 -> 12
    IN IF GetVal(dci, "local_vrb") # 1 THEN -1 ELSE GetVal(dci, "blk_assign") % 2^mask

DistGap(dci) ==
    IF GetVal(dci, "local_vrb") # 1 THEN -1
    ELSE GetVal(dci, "blk_assign") \div 2^(BlkAssign(dci.rbs) - 1)
=============================================================================
