----------------------------- MODULE AmrPayload -----------------------------
(***************************************************************************)
(* AMR payloads of the media library (amr_helper.h): frames are packed     *)
(* into an RTP payload, a table of contents before their bits; the payload *)
(* is parsed into frames again, and these are prepared for the decoder.    *)
(*                                                                         *)
(* A turn of each loop is a step.  Positions are counted in bits: position *)
(* 8 * (w - pkt) + w_bitptr is where the cursor w with its w_bitptr        *)
(* stands.  The bits of a frame stay together, so a payload is where the   *)
(* bits of which frame begin; their values, and the permutation by         *)
(* sensitivity that packing and preparing do in opposite directions, are   *)
(* left out.  The payload buffer is large enough.                          *)
(***************************************************************************)
EXTENDS Integers, Sequences

CONSTANTS
    Bands,          \* the codecs: "nb" and "wb"
    Layouts,        \* octet-aligned (TRUE) or bandwidth-efficient (FALSE)
    FrameTypes,     \* frame types of the encoder, by band
    MaxFrames       \* bound on the frames of a payload

VARIABLES
    band,           \* the setting's amr_nb
    aligned,        \* the setting's octet_aligned
    frames,         \* what is packed
    phase,          \* the loop that runs
    turn,           \* its index: i when packing, cnt when parsing
    cursor,         \* its cursor, in bits
    toc,            \* table of contents of the payload: entries by position
    starts,         \* the bits of the payload: where those of each frame begin
    size,           \* pkt_size, in octets
    parsed,         \* the frames parsed, with where their bits are taken to be
    decoded         \* the frames prepared for the decoder

setting == <<band, aligned, frames>>
payload == <<toc, starts, size>>
vars == <<setting, phase, turn, cursor, payload, parsed, decoded>>

Sid(b) == IF b = "nb" THEN 8 ELSE 9
NoData == {14, 15}

ASSUME SettingsAssumption == Bands \subseteq {"nb", "wb"} /\ Layouts \subseteq BOOLEAN
ASSUME FrameTypesAssumption == \A b \in Bands : FrameTypes[b] \subseteq 0 .. Sid(b) \cup NoData
ASSUME MaxFramesAssumption == MaxFrames \in Nat

\* The tables, by frame type: lengths in octets and in bits.
Octets(b) ==
    IF b = "nb"
    THEN <<12, 13, 15, 17, 19, 20, 26, 31, 5, 0, 0, 0, 0, 0, 0, 5>>
    ELSE <<17, 23, 32, 37, 40, 46, 50, 58, 60, 5, 0, 0, 0, 0, 0, 5>>

Bits(b) ==
    IF b = "nb"
    THEN <<95, 103, 118, 134, 148, 159, 204, 244, 39>>
    ELSE <<132, 177, 253, 285, 317, 365, 397, 461, 477, 40>>

OctetsOf(type) == Octets(band)[type + 1]
BitsOf(type) == IF type \in NoData THEN 0 ELSE Bits(band)[type + 1]

\* Frames of the encoder: a SID frame has the mode it stands in for.
Modes(type, b) ==
    IF type \in NoData THEN {-1} ELSE IF type = Sid(b) THEN {0, 7} ELSE {type}
Frame(b) ==
    {f \in [type : FrameTypes[b], good : BOOLEAN, mode : -1 .. 9] :
        f.mode \in Modes(f.type, b)}

Phases == {"pack_toc", "pack_data", "pack_size", "parse_toc", "parse_data", "decode", "done"}

AmrTypeOK ==
    /\ band \in Bands /\ aligned \in Layouts
    /\ frames \in Seq(Frame(band)) /\ Len(frames) \in 1 .. MaxFrames
    /\ phase \in Phases
    /\ turn \in 1 .. Len(frames)
    /\ cursor \in Nat /\ size \in Nat
    /\ phase = "parse_toc" => cursor \in DOMAIN toc
    /\ \A p \in DOMAIN toc : toc[p] \in [more : BOOLEAN, type : 0 .. 15, good : BOOLEAN]
    /\ starts \in Seq(Nat) /\ Len(starts) <= Len(frames)
    /\ Len(parsed) <= Len(frames) /\ Len(decoded) <= Len(parsed)
    /\ \A k \in DOMAIN decoded : decoded[k].mode \in -1 .. 15

\* Where the table of contents begins: behind the mode request.
First == IF aligned THEN 8 ELSE 4

\* A call of pack: the mode request is written already.
Init ==
    /\ band \in Bands
    /\ aligned \in Layouts
    /\ frames \in UNION {[1 .. n -> Frame(band)] : n \in 1 .. MaxFrames}
    /\ phase = "pack_toc"
    /\ turn = 1
    /\ cursor = First
    /\ toc = << >>
    /\ starts = << >>
    /\ size = 0
    /\ parsed = << >>
    /\ decoded = << >>

-----------------------------------------------------------------------------
\* The end of a turn: the last one leads to the next loop.
EndTurn(last, next) ==
    /\ turn' = IF last THEN 1 ELSE turn + 1
    /\ phase' = IF last THEN next ELSE phase

At(f, p, v) == [q \in DOMAIN f \cup {p} |-> IF q = p THEN v ELSE f[q]]

\* The octet after the one position p is in.
Past(p) == 8 * (p \div 8 + 1)

\* Aligned, the cursor goes on to the octet after the one it is in.
Behind(p) == IF aligned THEN Past(p) ELSE p

-----------------------------------------------------------------------------
(* Packing *)

\* Mutant: the last entry announces another one.
PackEntryAlwaysMore ==
    /\ phase = "pack_toc"
    /\ toc' = At(toc, cursor, [more |-> TRUE, type |-> frames[turn].type,
                               good |-> frames[turn].good])
    /\ cursor' = Behind(cursor + 6)
    /\ EndTurn(turn = Len(frames), "pack_data")
    /\ UNCHANGED <<setting, starts, size, parsed, decoded>>

\* An entry has six bits: more to come, the type, the quality.
PackEntry ==
    /\ phase = "pack_toc"
    /\ toc' = At(toc, cursor, [more |-> turn # Len(frames), type |-> frames[turn].type,
                               good |-> frames[turn].good])
    /\ cursor' = Behind(cursor + 6)
    /\ EndTurn(turn = Len(frames), "pack_data")
    /\ UNCHANGED <<setting, starts, size, parsed, decoded>>

\* The bits of a frame, if it has any.
PackBits ==
    /\ phase = "pack_data"
    /\ starts' = Append(starts, cursor)
    /\ cursor' = IF frames[turn].type \in NoData THEN cursor
                 ELSE Behind(cursor + BitsOf(frames[turn].type))
    /\ EndTurn(turn = Len(frames), "pack_size")
    /\ UNCHANGED <<setting, toc, size, parsed, decoded>>

\* Mutant: the octet the cursor is in is not counted.
PackEndsShort ==
    /\ phase = "pack_size"
    /\ size' = cursor \div 8
    /\ phase' = "parse_toc"
    /\ cursor' = First
    /\ UNCHANGED <<setting, turn, toc, starts, parsed, decoded>>

\* The payload's size; then it is parsed.
PackEnds ==
    /\ phase = "pack_size"
    /\ size' = cursor \div 8 + (IF cursor % 8 # 0 THEN 1 ELSE 0)
    /\ phase' = "parse_toc"
    /\ cursor' = First
    /\ UNCHANGED <<setting, turn, toc, starts, parsed, decoded>>

-----------------------------------------------------------------------------
(* Parsing *)

\* The mode of a frame type; SID and no data have none yet.
ModeOf(type) == IF type < Sid(band) THEN type ELSE -1

\* The frame of an entry; where its bits are is not known yet.
ParseEntry ==
    /\ phase = "parse_toc"
    /\ cursor \in DOMAIN toc
    /\ LET entry == toc[cursor]
       IN  /\ parsed' = Append(parsed, [type |-> entry.type, good |-> entry.good,
                                        mode |-> ModeOf(entry.type), at |-> -1])
           /\ EndTurn(~entry.more, "parse_data")
    /\ cursor' = Behind(cursor + 6)
    /\ UNCHANGED <<setting, payload, decoded>>

\* Mutant: the start bit of a frame is always 0.
ParseBitsAtOctets ==
    /\ phase = "parse_data"
    /\ parsed' = [parsed EXCEPT ![turn].at = 8 * (cursor \div 8)]
    /\ cursor' = cursor + (IF aligned THEN 8 * OctetsOf(parsed[turn].type)
                           ELSE BitsOf(parsed[turn].type))
    /\ EndTurn(turn = Len(parsed), "decode")
    /\ UNCHANGED <<setting, payload, decoded>>

\* The bits of a frame begin at the cursor, which goes on by the one table or
\* the other.
ParseBits ==
    /\ phase = "parse_data"
    /\ parsed' = [parsed EXCEPT ![turn].at = cursor]
    /\ cursor' = cursor + (IF aligned THEN 8 * OctetsOf(parsed[turn].type)
                           ELSE BitsOf(parsed[turn].type))
    /\ EndTurn(turn = Len(parsed), "decode")
    /\ UNCHANGED <<setting, payload, decoded>>

\* The frame of this type whose bits begin there; none if they are parts of
\* others.
BitsAt(p, type) == {k \in DOMAIN starts : frames[k].type = type /\ starts[k] = p}

\* The mode of a SID frame is in its last bits: any, if they are not its own.
Predecode ==
    /\ phase = "decode"
    /\ LET p == parsed[turn]
           bits == IF p.type \in NoData THEN {} ELSE BitsAt(p.at, p.type)
       IN  \E mode \in IF p.type # Sid(band) THEN {p.mode}
                       ELSE IF bits = {} THEN 0 .. (IF band = "nb" THEN 7 ELSE 15)
                       ELSE {frames[k].mode : k \in bits} :
              decoded' = Append(decoded, [type |-> p.type, good |-> p.good,
                                          mode |-> mode, bits |-> bits])
    /\ EndTurn(turn = Len(parsed), "done")
    /\ UNCHANGED <<setting, cursor, payload, parsed>>

Next ==
    \/ PackEntry \/ PackBits \/ PackEnds
    \/ ParseEntry \/ ParseBits
    \/ Predecode

Spec == Init /\ [][Next]_vars

-----------------------------------------------------------------------------
(* Properties *)

\* The frames that have bits.
Bearing == {k \in DOMAIN frames : frames[k].type \notin NoData}

Apart(p, m, q, n) == p + m <= q \/ q + n <= p

\* The mode request, the entries of the table of contents and the bits of the
\* frames do not overlap in a payload, and pkt_size counts all of them.
PayloadIsSound ==
    phase \notin {"pack_toc", "pack_data", "pack_size"} =>
        /\ \A p \in DOMAIN toc :
              /\ 4 <= p /\ p + 6 <= 8 * size
              /\ \A q \in DOMAIN toc \ {p} : Apart(p, 6, q, 6)
              /\ \A k \in Bearing : Apart(p, 6, starts[k], BitsOf(frames[k].type))
        /\ \A k \in Bearing :
              /\ 4 <= starts[k] /\ starts[k] + BitsOf(frames[k].type) <= 8 * size
              /\ \A j \in Bearing \ {k} :
                    Apart(starts[j], BitsOf(frames[j].type), starts[k], BitsOf(frames[k].type))

Whole(k) ==
    /\ decoded[k].mode = frames[k].mode
    /\ decoded[k].bits = {k} \cap Bearing

\* A frame after which an octet-aligned payload is taken to go on elsewhere
\* than it does: the table has one octet too many for 14.25 kbit/s and five
\* for a frame without data, and packing adds one to the wide-band SID.
Displaces(k) ==
    /\ aligned
    /\ \/ frames[k].type = 15
       \/ band = "wb" /\ frames[k].type \in {3, 9}

\* What is parsed and prepared for the decoder are the frames that were
\* packed, their types, quality, mode and bits, whatever the number of frames
\* and the places between the octets where they begin; only what follows a
\* frame that displaces is not.
FramesRecovered ==
    phase = "done" =>
        /\ Len(decoded) = Len(frames)
        /\ \A k \in DOMAIN frames :
              /\ decoded[k].type = frames[k].type
              /\ decoded[k].good = frames[k].good
              /\ (\A j \in 1 .. k - 1 : ~Displaces(j)) => Whole(k)

\* Frames come out as they went in, octet-aligned or not ("Parse AMR payload
\* into frames.").
AllRecovered == phase = "done" => \A k \in DOMAIN frames : Whole(k)
=============================================================================
