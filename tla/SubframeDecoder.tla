--------------------------- MODULE SubframeDecoder ---------------------------
(***************************************************************************)
(* One decoder thread and the subframe objects it keeps: a buffer is taken   *)
(* (DecoderPDSCH.cpp), the format indicator is read (pcfich.c), then for     *)
(* each RNTI the control channel is searched (pdcch.c) and every grant found *)
(* is decoded with the handler that outlives it (pdsch.c, pdsch_block.c).    *)
(*                                                                         *)
(* Whether a checksum holds, what a payload says and which control channel   *)
(* elements have power is a choice; the searched lengths are taken to be     *)
(* those of DciFormats.  A grant is what lte_decode_pdsch makes of a payload:  *)
(* a block of A bits in G bits of a modulation, or NoGrant where the         *)
(* allocation, the modulation or the size is refused; it is chosen when it   *)
(* is used.  A DCI is the RNTI its checksum was masked with.                 *)
(***************************************************************************)
EXTENDS ControlRegion, TransportBlock

CONSTANTS
    Cells,          \* the cells a buffer may be stamped with, as records
    SubframeNumbers,
    Rntis,          \* _rntis in the order of the map, a sequence
    SiRnti,
    DciMax,         \* LTE_DCI_MAX
    Masks,          \* sets of control channel elements that may have power
    Payloads,       \* pairs of a format and a grant that a DCI may stand for
    NoGrant, NoCell, NoDci

ASSUME CellsAssumption  == \A c \in Cells : c.rbs \in Nat /\ c.ants \in Nat /\ c.ng \in 0..3
ASSUME DciMaxAssumption == DciMax \in Nat \ {0}
ASSUME RntisAssumption  == Rntis \in Seq(Nat)
ASSUME MasksAssumption  == Masks \subseteq SUBSET (0..7)

\* The sizes of the tables take whole bytes, a block that is not cut takes no
\* filler, and an allocation has as many bits as its symbols carry (pdsch.c: "G =
\* mod * pblk->idx").  They may be more than MAX_G, as they are for the whole of 100
\* blocks with one antenna, 64QAM and one symbol of control.
ASSUME GrantsAssumption ==
    \A p \in Payloads : p.grant # NoGrant =>
        /\ p.grant.A \in MinA..MaxA /\ p.grant.G \in Nat \ {0}
        /\ p.grant.mod \in {2, 4, 6} /\ p.grant.G % p.grant.mod = 0
        /\ (p.grant.A + CrcLen) % 8 = 0
        /\ Segmentation(p.grant.A + CrcLen).C = 1 => Segmentation(p.grant.A + CrcLen).F = 0

VARIABLES
    rx,         \* where the thread is
    lbuf,       \* the stamp of the buffer in hand
    known,      \* the cell the members are set up for; NoCell is !_cellIdValid
    sub,        \* _subframes: reference maps, num_dci and dci[]
    cfi,
    todo,       \* the RNTIs from the current one on
    search,     \* the slot object of lte_decode_pdcch
    ndci,       \* "ndci" of DecoderPDSCH::decode
    block,      \* _block
    sent,       \* the grant whose transport block has just been sent, or NoGrant
    refused     \* history: the last initialisation of _block that did not return at
                \* once was refused

vars == <<rx, lbuf, known, sub, cfi, todo, search, ndci, block, sent, refused>>

-----------------------------------------------------------------------------
(* The search.                                                             *)

\* Aggregation levels and blocks in the order of pdcch_dci_power_search_si
Candidates == <<<<8, 0>>, <<4, 0>>, <<4, 1>>, <<2, 0>>, <<2, 1>>, <<2, 2>>, <<2, 3>>,
                <<1, 0>>, <<1, 1>>, <<1, 2>>, <<1, 3>>, <<1, 4>>, <<1, 5>>, <<1, 6>>, <<1, 7>>>>

Span(c) == (c[1] * c[2]) .. (c[1] * c[2] + c[1] - 1)

\* pdcch_num_cce, and the loop of pdcch_si_search over groups of eight with the
\* elements that are left over
WideCfi == IF lbuf.cell.rbs <= 10 THEN cfi + 1 ELSE cfi
NumCce == PdcchLen(lbuf.cell.rbs, WideCfi, lbuf.cell.ng) \div CceLen
NumGroups(n) == n \div 8 + 1
GroupSize(n, g) == IF g < n \div 8 THEN 8 ELSE n % 8

\* Variant of IsTried: what level 2 has found is not kept from level 1.
IsTriedTwice(s, rnti, c) ==
    /\ Span(c) \subseteq 0..(s.size - 1) \cap s.mask
    /\ rnti = SiRnti => c[1] \in {4, 8}
    /\ c[1] = 2 => c[2] \div 2 \notin s.agg4
    /\ c[1] = 1 => c[2] \div 4 \notin s.agg4

\* The conditions of pdcch_dci_power_search_si, with its masks of what has been
\* found at levels 4 and 2
IsTried(s, rnti, c) ==
    /\ Span(c) \subseteq 0..(s.size - 1) \cap s.mask
    /\ rnti = SiRnti => c[1] \in {4, 8}
    /\ c[1] = 2 => c[2] \div 2 \notin s.agg4
    /\ c[1] = 1 => c[2] \div 4 \notin s.agg4 /\ c[2] \div 2 \notin s.agg2

\* The formats of pdcch_decode_blk; a Format 0 payload is not counted
SearchedFormats(rnti) == IF rnti = SiRnti THEN {"1a", "1c"} ELSE {"1", "1a", "1b", "1c"}

\* Variant of AfterMiss: the search does not go on to the next candidate.
AfterMissStays(s, i) == s

\* The search after candidate i has been tried without, ...
AfterMiss(s, i) == [s EXCEPT !.next = i + 1]

\* ... and with success, which level 8 returns from: what pdcch_decode_bits adds,
\* which is nothing once the table is full
AfterHit(s, rnti, i) ==
    LET c == Candidates[i]
    IN [s EXCEPT !.next = IF c[1] = 8 THEN Len(Candidates) + 1 ELSE i + 1,
                 !.agg4 = IF c[1] = 4 THEN @ \cup {c[2]} ELSE @,
                 !.agg2 = IF c[1] = 2 THEN @ \cup {c[2]} ELSE @,
                 !.dcis = Append(@, rnti),
                 !.cces = Append(@, {8 * s.group + e : e \in Span(c)})]

IsNext(s, rnti, i) ==
    /\ i \in s.next .. Len(Candidates)
    /\ IsTried(s, rnti, Candidates[i])
    /\ \A j \in s.next .. (i - 1) : ~IsTried(s, rnti, Candidates[j])

EmptySearch == [group |-> 0, size |-> 0, next |-> 1, mask |-> {}, agg4 |-> {}, agg2 |-> {},
                dcis |-> << >>, cces |-> << >>]

NoBuffer == [cell |-> NoCell, sf |-> 0]

-----------------------------------------------------------------------------
Init ==
    /\ rx = "read"
    /\ lbuf = NoBuffer
    /\ known = NoCell
    /\ sub = [maps |-> << >>, num_dci |-> 0, dci |-> [i \in 1..DciMax |-> NoDci]]
    /\ cfi = 0
    /\ todo = << >>
    /\ search = EmptySearch
    /\ ndci = 0
    /\ block = EmptyBlock
    /\ sent = NoGrant
    /\ refused = FALSE

\* A reference map is named by its cell and slot, as _pdcchRefMaps is indexed.
Map(cell, slot) == [cell |-> cell, slot |-> slot]

\* Variant of IdChange: only the number of the cell is compared.
IdChangeNumber(cell) == known = NoCell \/ known.id # cell.id

\* "idChange" of readBufferState: any of the members differs
IdChange(cell) == known # cell

\* setCellId, which frees the subframes and allocates them with the maps of the
\* first slots for both slots, or lte_subframe_reset with the buffer's own.  A
\* reset leaves the entries of dci[] as they are.
SetUp(cell, sf) ==
    IF IdChange(cell)
    THEN [maps |-> <<Map(cell, 0), Map(cell, 0)>>, num_dci |-> 0, dci |-> [i \in 1..DciMax |-> NoDci]]
    ELSE [sub EXCEPT !.maps = <<Map(known, 2 * sf), Map(known, 2 * sf + 1)>>, !.num_dci = 0]

\* The queue's read and readBufferState
ReadBuffer ==
    /\ rx = "read"
    /\ \E cell \in Cells, sf \in SubframeNumbers :
          /\ lbuf' = [cell |-> cell, sf |-> sf]
          /\ sub' = SetUp(cell, sf)
          /\ known' = IF IdChange(cell) THEN cell ELSE known
    /\ rx' = "pcfich"
    /\ UNCHANGED <<cfi, todo, search, ndci, block, sent, refused>>

\* The check of pcfich_extract_syms and of the loop of lte_decode_pdcch
TooManyAntennas == lbuf.cell.ants > 2

\* lte_decode_pcfich: more than two antennas end the process; else no codeword is
\* near, or one is
DecodePcfich ==
    /\ rx = "pcfich"
    /\ \/ TooManyAntennas /\ rx' = "exited" /\ UNCHANGED <<cfi, todo>>
       \/ ~TooManyAntennas /\ rx' = "write" /\ UNCHANGED <<cfi, todo>>
       \/ ~TooManyAntennas /\ rx' = "pdcch" /\ cfi' \in 1..4 /\ todo' = Rntis
    /\ UNCHANGED <<lbuf, known, sub, search, ndci, block, sent, refused>>

\* lte_decode_pdcch up to its search: an allocation that fails ends the process, and
\* so would more than two antennas
StartPdcch ==
    /\ rx = "pdcch" /\ todo # << >>
    /\ rx' = IF WideCfi > 3 \/ TooManyAntennas THEN "exited" ELSE "group"
    /\ search' = EmptySearch
    /\ UNCHANGED <<lbuf, known, sub, cfi, todo, ndci, block, sent, refused>>

\* The end of the loop over _rntis
EndDecode ==
    /\ rx = "pdcch" /\ todo = << >>
    /\ rx' = "write"
    /\ UNCHANGED <<lbuf, known, sub, cfi, todo, search, ndci, block, sent, refused>>

\* pdcch_dci_power_search_si: the elements with power in the next group
StartGroup ==
    /\ rx = "group" /\ search.group < NumGroups(NumCce)
    /\ \E mask \in Masks :
          search' = [search EXCEPT !.size = GroupSize(NumCce, search.group), !.mask = mask, !.next = 1,
                                   !.agg4 = {}, !.agg2 = {}]
    /\ rx' = "search"
    /\ UNCHANGED <<lbuf, known, sub, cfi, todo, ndci, block, sent, refused>>

\* pdcch_decode_blk for the next candidate
TryCandidate ==
    /\ rx = "search"
    /\ \E i \in DOMAIN Candidates :
          /\ IsNext(search, Head(todo), i)
          /\ \/ search' = AfterMiss(search, i)
             \/ Len(search.dcis) < DciMax /\ search' = AfterHit(search, Head(todo), i)
    /\ UNCHANGED <<rx, lbuf, known, sub, cfi, todo, ndci, block, sent, refused>>

EndGroup ==
    /\ rx = "search"
    /\ \A i \in search.next .. Len(Candidates) : ~IsTried(search, Head(todo), Candidates[i])
    /\ rx' = "group"
    /\ search' = [search EXCEPT !.group = @ + 1]
    /\ UNCHANGED <<lbuf, known, sub, cfi, todo, ndci, block, sent, refused>>

\* Variant of Copied: the count is kept from an RNTI for which more was found.
CopiedMore(dcis) ==
    [sub EXCEPT !.num_dci = IF Len(dcis) > @ THEN Len(dcis) ELSE @,
                !.dci = [i \in 1..DciMax |-> IF i <= Len(dcis) THEN dcis[i] ELSE @[i]]]

\* The memcpy of lte_decode_pdcch and the count
Copied(dcis) ==
    [sub EXCEPT !.num_dci = Len(dcis),
                !.dci = [i \in 1..DciMax |-> IF i <= Len(dcis) THEN dcis[i] ELSE @[i]]]

\* lte_decode_pdcch after its search: what is there is left alone for no DCI
EndSearch ==
    /\ rx = "group" /\ search.group = NumGroups(NumCce)
    /\ sub' = IF search.dcis = << >> THEN sub ELSE Copied(search.dcis)
    /\ ndci' = Len(search.dcis)
    /\ rx' = "pdsch"
    /\ UNCHANGED <<lbuf, known, cfi, todo, search, block, sent, refused>>

\* The types for which pdsch_get_rv has a version; another one ends the process
HasVersion(type) == type \in {"1", "1a", "1b", "1c", "1d", "2", "2a"}

\* "while (--ndci >= 0)": lte_decode_pdsch for the last one first.  A DCI that is
\* not there or has no grant changes nothing; where the checks hold, the block is
\* sent.  Format 1C is tried again with other redundancy versions.  An initialisation
\* that is refused leaves the handler half set.
DecodePdsch ==
    /\ rx = "pdsch" /\ ndci > 0
    /\ ndci' = ndci - 1
    /\ \E p \in {q \in Payloads : q.type \in SearchedFormats(sub.dci[ndci])} :
          IF ndci > sub.num_dci \/ p.grant = NoGrant
          THEN rx' = rx /\ block' = block /\ sent' = NoGrant /\ refused' = refused
          ELSE \E init \in {BlkInit(block, p.grant.A, p.grant.G, 1, p.grant.mod)} :
                  /\ rx' = IF HasVersion(p.type) /\ init.rc # -2 THEN rx ELSE "exited"
                  /\ block' = IF HasVersion(p.type) THEN init.blk ELSE block
                  /\ refused' = IF HasVersion(p.type) /\ ~Initialised(block, p.grant.A, p.grant.G, 1, p.grant.mod)
                                THEN init.rc = -1 ELSE refused
                  /\ \/ sent' = NoGrant
                     \/ HasVersion(p.type) /\ init.rc = 0 /\ CanDecode(init.blk) /\ sent' = p.grant
    /\ UNCHANGED <<lbuf, known, sub, cfi, todo, search>>

\* The next RNTI
NextRnti ==
    /\ rx = "pdsch" /\ ndci = 0
    /\ todo' = Tail(todo)
    /\ rx' = "pdcch"
    /\ sent' = NoGrant /\ search' = EmptySearch
    /\ UNCHANGED <<lbuf, known, sub, cfi, ndci, block, refused>>

\* setFreqOffset and the queue's write
WriteBuffer ==
    /\ rx = "write"
    /\ rx' = "read"
    /\ lbuf' = NoBuffer /\ cfi' = 0
    /\ UNCHANGED <<known, sub, todo, search, ndci, block, sent, refused>>

Next ==
    \/ ReadBuffer \/ DecodePcfich \/ StartPdcch \/ EndDecode \/ StartGroup \/ TryCandidate
    \/ EndGroup \/ EndSearch \/ DecodePdsch \/ NextRnti \/ WriteBuffer

Spec == Init /\ [][Next]_vars

\* The thread runs; that a buffer comes is not assumed.  A step of DecodePdsch is
\* any that lowers ndci.
Walk == DecodePcfich \/ StartPdcch \/ EndDecode \/ StartGroup \/ TryCandidate \/ EndGroup
        \/ EndSearch \/ NextRnti \/ WriteBuffer
LowerNdci == rx = "pdsch" /\ ndci > 0 /\ ndci' = ndci - 1
FairSpec == Spec /\ WF_vars(Walk) /\ WF_ndci(LowerNdci)

-----------------------------------------------------------------------------
(* Properties.                                                             *)


\* A control channel element lies in at most one of the DCIs that a search has
\* found, and within the elements there are, whose bits have been demodulated
\* (pdcch.c: the masks of pdcch_dci_power_search_si are local to a group of
\* eight, and level 1 "doesn't precheck other aggregation levels").
NoCceTwice ==
    rx \in {"group", "search", "pdsch"} =>
        /\ \A i \in DOMAIN search.cces : search.cces[i] \subseteq 0..(NumCce - 1)
        /\ \A i, j \in DOMAIN search.cces : i # j => search.cces[i] \cap search.cces[j] = {}

\* What lte_decode_pdsch reads from the table of the subframe was found for the
\* current RNTI in this subframe, although the table and its count are left
\* alone by an RNTI for which nothing is found (pdcch.c: "> 0"), and by a reset.
OnlyFreshDcis ==
    rx = "pdsch" /\ ndci > 0 =>
        /\ ndci <= sub.num_dci
        /\ sub.num_dci = Len(search.dcis)
        /\ sub.dci[ndci] = Head(todo)

\* A transport block that is sent was decoded with the segments of its own grant,
\* whatever the handler was used for before (lte_pdsch_blk_init: an early return
\* where four numbers agree), and with the lengths of its own grant, too, unless the
\* last initialisation was refused for more bits than MAX_G.  That one has set the
\* size and its segments and left the number of bits and their lengths of the block
\* before, for which the next grant may then be taken (pdsch_block.c: init_f fails
\* after init_a, and the four numbers agree).
BlockMatchesGrant ==
    sent # NoGrant =>
        \A fresh \in {BlkInit(EmptyBlock, sent.A, sent.G, 1, sent.mod).blk} :
           /\ block.A = sent.A /\ block.G = sent.G /\ block.Q_m = sent.mod /\ block.C = fresh.C
           /\ \A r \in 1..fresh.C : block.K[r] = fresh.K[r]
           /\ ~refused => \A r \in 1..fresh.C : block.E[r] = fresh.E[r]

\* The references of a subframe are those of the cell in its stamp with all its
\* parameters; they are those of its own slots, too, unless the subframe is the
\* first one of that cell, which is given those of subframe 0's first slot in
\* both slots (DecoderPDSCH.cpp: initSubframes).
ReferencesMatch ==
    [][IF rx = "read" /\ rx' = "pcfich"
       THEN /\ known' = lbuf'.cell
            /\ \A s \in 1..2 : sub'.maps[s].cell = lbuf'.cell
            /\ known = lbuf'.cell =>
                  sub'.maps = <<Map(lbuf'.cell, 2 * lbuf'.sf), Map(lbuf'.cell, 2 * lbuf'.sf + 1)>>
       ELSE sub'.maps = sub.maps]_vars

\* Nothing that is found in a subframe ends the process.  More than two antennas do,
\* before the format indicator is known (pcfich_extract_syms), so that the same check
\* of pdcch.c is never reached; with one or two, only an indicator that the band has
\* no room for does, before the search (the allocation in pdcch.c).  The exits of
\* pdsch.c and pdsch_block.c are never reached.
ExitsBeforeSearch ==
    rx = "exited" => IF TooManyAntennas THEN todo = << >> ELSE todo # << >> /\ WideCfi > 3

\* A buffer that is taken is given back unless the process ends
\* (DecoderPDSCH::start and every loop under it).
SubframeComesBack == rx # "read" ~> rx \in {"read", "exited"}
=============================================================================
