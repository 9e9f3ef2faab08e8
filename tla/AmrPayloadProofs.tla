-------------------------- MODULE AmrPayloadProofs --------------------------
(***************************************************************************)
(* Payloads with any number of frames, of any types that a codec has: the  *)
(* table of contents and the frames do not overlap, and what is parsed and *)
(* prepared is what was packed.                                            *)
(*                                                                         *)
(* The entries are at places that a formula gives.  Where frames begin is  *)
(* a sum over the frames before, which no formula gives; the invariant     *)
(* says of every frame how far behind the previous one it begins, and      *)
(* parsing arrives where packing did as long as both go on by the same     *)
(* length.                                                                 *)
(***************************************************************************)
EXTENDS AmrPayload, SequenceTheorems, TLAPS

N == Len(frames)
Type(k) == frames[k].type

TocAt(k) == IF aligned THEN 8 * k ELSE 6 * k - 2
EntryOf(k) == [more |-> k # N, type |-> Type(k), good |-> frames[k].good]

\* The first n entries are in the table of contents, and no others.
TocHas(n) ==
    /\ DOMAIN toc = {TocAt(k) : k \in 1 .. n}
    /\ \A k \in 1 .. n : toc[TocAt(k)] = EntryOf(k)

\* How far packing goes on with a frame.
PackedLen(type) ==
    IF type \in NoData THEN 0
    ELSE IF aligned THEN 8 * (BitsOf(type) \div 8 + 1) ELSE BitsOf(type)

\* Where packing stands after n frames.
EndOf(n) == IF n = 0 THEN TocAt(N + 1) ELSE starts[n] + PackedLen(Type(n))

\* The first n frames are in the payload, each behind all before.
StartsHave(n) ==
    /\ Len(starts) = n
    /\ \A k \in 1 .. n :
          /\ starts[k] = EndOf(k - 1)
          /\ starts[k] >= TocAt(N + 1)
          /\ aligned => starts[k] % 8 = 0
          /\ \A j \in 1 .. k - 1 : starts[j] + PackedLen(Type(j)) <= starts[k]

Parsed == [type : 0 .. 15, good : BOOLEAN, mode : -1 .. 9, at : Int]
Decoded == [type : 0 .. 15, good : BOOLEAN, mode : -1 .. 15, bits : SUBSET Nat]

AmrTypes ==
    /\ band \in Bands /\ aligned \in Layouts
    /\ frames \in Seq(Frame(band)) /\ N \in 1 .. MaxFrames
    /\ phase \in Phases
    /\ turn \in 1 .. N
    /\ cursor \in Nat /\ size \in Nat
    /\ starts \in Seq(Nat)
    /\ parsed \in Seq(Parsed)
    /\ decoded \in Seq(Decoded)

Packing == {"pack_toc", "pack_data", "pack_size"}

PackInv ==
    /\ phase = "pack_toc" => TocHas(turn - 1) /\ cursor = TocAt(turn) /\ Len(starts) = 0
    /\ phase = "pack_data" => TocHas(N) /\ StartsHave(turn - 1) /\ cursor = EndOf(turn - 1)
    /\ phase = "pack_size" => TocHas(N) /\ StartsHave(N) /\ cursor = EndOf(N) /\ turn = 1
    /\ phase \in Packing => Len(parsed) = 0
    /\ phase \notin Packing => TocHas(N) /\ StartsHave(N) /\ EndOf(N) <= 8 * size

\* Nothing before frame k displaces it.
Undisplaced(k) == \A j \in 1 .. k - 1 : ~Displaces(j)

ParseInv ==
    /\ phase = "parse_toc" => Len(parsed) = turn - 1 /\ cursor = TocAt(turn)
    /\ phase \in {"parse_data", "decode", "done"} => Len(parsed) = N
    /\ \A k \in 1 .. Len(parsed) :
          /\ parsed[k].type = Type(k) /\ parsed[k].good = frames[k].good
          /\ parsed[k].mode = ModeOf(Type(k))
          /\ (phase = "parse_data" /\ k < turn) \/ phase \in {"decode", "done"} =>
                (Undisplaced(k) => parsed[k].at = starts[k])
    /\ phase = "parse_data" /\ Undisplaced(turn) => cursor = starts[turn]

DecodeInv ==
    /\ phase \notin {"decode", "done"} => Len(decoded) = 0
    /\ phase = "decode" => Len(decoded) = turn - 1
    /\ phase = "done" => Len(decoded) = N
    /\ \A k \in 1 .. Len(decoded) :
          /\ decoded[k].type = Type(k) /\ decoded[k].good = frames[k].good
          /\ Undisplaced(k) => Whole(k)

AmrInv == AmrTypes /\ PackInv /\ ParseInv /\ DecodeInv

-----------------------------------------------------------------------------
(* Lengths *)

\* The two tables: every frame has bits, and fills its octets but for two
\* types of the wide band.
LEMMA Tables ==
  ASSUME NEW b \in {"nb", "wb"}, NEW t \in 0 .. Sid(b)
  PROVE  /\ Bits(b)[t + 1] \in Nat \ {0}
         /\ Octets(b)[t + 1] \in Nat
         /\ ~(b = "wb" /\ t \in {3, 9}) => Octets(b)[t + 1] = Bits(b)[t + 1] \div 8 + 1
  <1>1. CASE b = "nb"
    <2>1. t \in {0, 1, 2, 3, 4, 5, 6, 7, 8}
      BY <1>1 DEF Sid
    <2> QED
      BY <1>1, <2>1 DEF Bits, Octets
  <1>2. CASE b = "wb"
    <2>1. t \in {0, 1, 2, 3, 4, 5, 6, 7, 8, 9}
      BY <1>2 DEF Sid
    <2> QED
      BY <1>2, <2>1 DEF Bits, Octets
  <1> QED
    BY <1>1, <1>2

\* What the frames of a payload are.
LEMMA FrameFacts ==
  ASSUME AmrTypes, NEW k \in 1 .. N
  PROVE  /\ band \in {"nb", "wb"} /\ aligned \in BOOLEAN
         /\ Type(k) \in 0 .. Sid(band) \cup NoData
         /\ Type(k) \in 0 .. 15
         /\ frames[k].good \in BOOLEAN
         /\ frames[k].mode \in -1 .. 9
         /\ frames[k].mode \in Modes(Type(k), band)
  <1>1. band \in {"nb", "wb"} /\ aligned \in BOOLEAN
    BY SettingsAssumption DEF AmrTypes
  <1>2. frames[k] \in Frame(band)
    BY DEF AmrTypes, N
  <1>3. FrameTypes[band] \subseteq 0 .. Sid(band) \cup NoData
    BY FrameTypesAssumption DEF AmrTypes
  <1>4. 0 .. Sid(band) \cup NoData \subseteq 0 .. 15
    BY <1>1 DEF Sid, NoData
  <1> QED
    BY <1>1, <1>2, <1>3, <1>4 DEF Frame, Type

\* Packing goes on by whole octets, if it has to, and by no fewer bits than
\* the frame has; parsing goes on as far after a frame that does not displace.
LEMMA Lengths ==
  ASSUME AmrTypes, NEW k \in 1 .. N
  PROVE  /\ BitsOf(Type(k)) \in Nat
         /\ PackedLen(Type(k)) \in Nat
         /\ BitsOf(Type(k)) <= PackedLen(Type(k))
         /\ OctetsOf(Type(k)) \in Nat
         /\ Type(k) \notin NoData => PackedLen(Type(k)) >= 1
         /\ aligned => PackedLen(Type(k)) % 8 = 0
         /\ aligned /\ ~Displaces(k) => 8 * OctetsOf(Type(k)) = PackedLen(Type(k))
         /\ ~aligned => BitsOf(Type(k)) = PackedLen(Type(k))
  <1>1. /\ band \in {"nb", "wb"} /\ aligned \in BOOLEAN
        /\ Type(k) \in 0 .. Sid(band) \cup NoData
    BY FrameFacts
  <1>2. CASE Type(k) \in NoData
    <2>1. BitsOf(Type(k)) = 0 /\ PackedLen(Type(k)) = 0
      BY <1>2 DEF BitsOf, PackedLen
    <2>2. ~Displaces(k) /\ aligned => Type(k) = 14
      BY <1>2 DEF Displaces, NoData, Type
    <2>3. Octets(band)[14 + 1] = 0 /\ Octets(band)[15 + 1] = 5
      BY <1>1 DEF Octets
    <2> QED
      BY <1>2, <2>1, <2>2, <2>3 DEF OctetsOf, NoData
  <1>3. CASE Type(k) \notin NoData
    <2>1. PICK t \in 0 .. Sid(band) : t = Type(k)
      BY <1>1, <1>3
    <2>2. PICK n \in Nat \ {0} : n = Bits(band)[t + 1]
      BY <1>1, Tables
    <2>3. BitsOf(t) = n
      BY <1>3, <2>1, <2>2 DEF BitsOf
    <2>4. PackedLen(t) = IF aligned THEN 8 * (n \div 8 + 1) ELSE n
      BY <1>3, <2>1, <2>3 DEF PackedLen
    <2>5. /\ 8 * (n \div 8 + 1) \in Nat
          /\ 8 * (n \div 8 + 1) >= n
          /\ (8 * (n \div 8 + 1)) % 8 = 0
      OBVIOUS
    <2>6. /\ OctetsOf(t) \in Nat
          /\ aligned /\ ~Displaces(k) => OctetsOf(t) = n \div 8 + 1
      BY <1>1, <2>1, <2>2, Tables DEF Displaces, OctetsOf, Type
    <2> QED
      BY <1>1, <2>1, <2>3, <2>4, <2>5, <2>6
  <1> QED
    BY <1>2, <1>3

\* Aligned, a cursor at the edge of an octet goes on to the edge of another.
LEMMA BehindEdge ==
  ASSUME aligned \in BOOLEAN, NEW p \in Nat, NEW n \in Nat, aligned => p % 8 = 0
  PROVE  Behind(p + n) = p + (IF aligned THEN 8 * (n \div 8 + 1) ELSE n)
  BY DEF Behind, Past

\* The cursor behind an entry is at the next one's place.
LEMMA EntriesFollow ==
  ASSUME aligned \in BOOLEAN, NEW k \in Nat \ {0}
  PROVE  /\ TocAt(k) \in Nat /\ TocAt(k) >= 4
         /\ Behind(TocAt(k) + 6) = TocAt(k + 1)
         /\ TocAt(k) + 6 <= TocAt(k + 1)
         /\ aligned => TocAt(k) % 8 = 0
         /\ First = TocAt(1)
  BY DEF TocAt, Behind, Past, First

LEMMA EntriesApart ==
  ASSUME aligned \in BOOLEAN, NEW j \in Nat, NEW k \in Nat, j < k
  PROVE  TocAt(j) + 6 <= TocAt(k)
  BY DEF TocAt

-----------------------------------------------------------------------------
(* What a step leaves alone *)

LEMMA SettingStays ==
  ASSUME UNCHANGED setting
  PROVE  /\ N' = N /\ Bearing' = Bearing
         /\ \A k : /\ Type(k)' = Type(k) /\ frames'[k] = frames[k]
                   /\ TocAt(k)' = TocAt(k) /\ EntryOf(k)' = EntryOf(k)
                   /\ Displaces(k)' = Displaces(k) /\ Undisplaced(k)' = Undisplaced(k)
         /\ \A t : PackedLen(t)' = PackedLen(t) /\ ModeOf(t)' = ModeOf(t)
  BY DEF setting, N, Type, Bearing, TocAt, EntryOf, Displaces, Undisplaced, PackedLen, BitsOf,
         ModeOf

LEMMA TocStays ==
  ASSUME UNCHANGED setting, UNCHANGED toc, NEW n, TocHas(n)
  PROVE  TocHas(n)'
  <1>1. \A k : TocAt(k)' = TocAt(k) /\ EntryOf(k)' = EntryOf(k)
    BY SettingStays
  <1> QED
    BY <1>1 DEF TocHas

LEMMA StartsStay ==
  ASSUME UNCHANGED setting, UNCHANGED starts
  PROVE  \A n : EndOf(n)' = EndOf(n) /\ (StartsHave(n) => StartsHave(n)')
  <1>1. /\ aligned' = aligned /\ N' = N
        /\ \A k : TocAt(k)' = TocAt(k) /\ Type(k)' = Type(k)
        /\ \A t : PackedLen(t)' = PackedLen(t)
    BY SettingStays DEF setting
  <1>2. \A n : EndOf(n)' = EndOf(n)
    BY <1>1 DEF EndOf
  <1> QED
    BY <1>1, <1>2 DEF StartsHave

LEMMA ParsedStays ==
  ASSUME UNCHANGED setting, UNCHANGED starts, UNCHANGED parsed, ParseInv,
         phase \in {"decode", "done"}, phase' \in {"decode", "done"}
  PROVE  ParseInv'
  <1>1. /\ N' = N
        /\ \A k : /\ Type(k)' = Type(k) /\ frames'[k] = frames[k]
                  /\ ModeOf(Type(k))' = ModeOf(Type(k)) /\ Undisplaced(k)' = Undisplaced(k)
    BY SettingStays
  <1> QED
    BY <1>1 DEF ParseInv

LEMMA DecodedStays ==
  ASSUME UNCHANGED setting, Len(decoded) = 0, UNCHANGED decoded,
         phase' \notin {"decode", "done"} \/ (phase' = "decode" /\ turn' = 1)
  PROVE  DecodeInv'
  BY DEF DecodeInv

\* The next loop begins with its first turn, and each has as many turns as
\* there are frames.
LEMMA TurnsEnd ==
  ASSUME AmrTypes, NEW next \in Phases, EndTurn(turn = N, next)
  PROVE  /\ turn' \in 1 .. N /\ phase' \in Phases
         /\ turn = N => turn' = 1 /\ phase' = next
         /\ turn # N => turn' = turn + 1 /\ phase' = phase
  BY DEF AmrTypes, EndTurn, N

-----------------------------------------------------------------------------
(* The steps *)

LEMMA AmrInitially == Init => AmrInv
  <1> SUFFICES ASSUME Init PROVE AmrInv
    OBVIOUS
  <1>1. aligned \in BOOLEAN
    BY SettingsAssumption DEF Init
  <1>2. PICK n \in 1 .. MaxFrames : frames \in [1 .. n -> Frame(band)]
    BY DEF Init
  <1>3. frames \in Seq(Frame(band)) /\ N = n
    BY <1>2, MaxFramesAssumption DEF N
  <1>4. cursor = TocAt(1) /\ cursor \in Nat
    <2>1. 1 \in Nat \ {0}
      OBVIOUS
    <2>2. First = TocAt(1) /\ TocAt(1) \in Nat
      BY <1>1, <2>1, EntriesFollow
    <2> QED
      BY <2>2 DEF Init
  <1>5. Len(starts) = 0 /\ Len(parsed) = 0 /\ Len(decoded) = 0
    BY DEF Init
  <1>6. starts \in Seq(Nat) /\ parsed \in Seq(Parsed) /\ decoded \in Seq(Decoded)
    BY DEF Init
  <1>7. AmrTypes
    BY <1>2, <1>3, <1>4, <1>6, MaxFramesAssumption DEF Init, AmrTypes, Phases
  <1>8. TocHas(0)
    BY DEF Init, TocHas
  <1>9. PackInv
    BY <1>4, <1>5, <1>8 DEF Init, PackInv, Packing
  <1> QED
    BY <1>5, <1>7, <1>9 DEF Init, AmrInv, ParseInv, DecodeInv

\* What each step below begins with.
LEMMA Parts ==
  ASSUME AmrInv
  PROVE  /\ AmrTypes /\ PackInv /\ ParseInv /\ DecodeInv
         /\ turn \in 1 .. N /\ N \in Nat /\ aligned \in BOOLEAN
  <1>1. AmrTypes /\ PackInv /\ ParseInv /\ DecodeInv
    BY DEF AmrInv
  <1>2. turn \in 1 .. N /\ N \in Nat /\ aligned \in BOOLEAN
    BY <1>1, SettingsAssumption DEF AmrTypes
  <1> QED
    BY <1>1, <1>2

LEMMA PackEntryKeeps ==
  ASSUME AmrInv, PackEntry
  PROVE  AmrInv'
  <1>0. /\ AmrTypes /\ UNCHANGED setting /\ UNCHANGED <<starts, size, parsed, decoded>>
        /\ phase = "pack_toc" /\ TocHas(turn - 1) /\ cursor = TocAt(turn)
        /\ Len(starts) = 0 /\ Len(parsed) = 0 /\ Len(decoded) = 0
        /\ turn \in 1 .. N /\ N \in Nat /\ aligned \in BOOLEAN
    BY Parts DEF PackInv, DecodeInv, PackEntry, Packing
  <1>1. /\ turn' \in 1 .. N /\ phase' \in Phases
        /\ turn = N => turn' = 1 /\ phase' = "pack_data"
        /\ turn # N => turn' = turn + 1 /\ phase' = "pack_toc"
    BY <1>0, TurnsEnd DEF PackEntry, Phases, N
  <1>2. cursor' = TocAt(turn + 1) /\ cursor' \in Nat
    <2>1. turn \in Nat \ {0} /\ turn + 1 \in Nat \ {0}
      BY <1>0
    <2>2. cursor' = Behind(TocAt(turn) + 6)
      BY <1>0 DEF PackEntry
    <2> QED
      BY <1>0, <2>1, <2>2, EntriesFollow
  <1>3. PICK n \in 1 .. N : n = turn
    BY <1>0
  <1>4. TocHas(n)'
    <2>1. toc' = At(toc, TocAt(n), EntryOf(n))
      BY <1>0, <1>3 DEF PackEntry, EntryOf, Type, N
    <2>2. DOMAIN toc' = {TocAt(k) : k \in 1 .. n}
      BY <1>0, <1>3, <2>1 DEF At, TocHas
    <2>3. \A k \in 1 .. n : toc'[TocAt(k)] = EntryOf(k)
      <3>1. \A k \in 1 .. n - 1 : TocAt(k) # TocAt(n)
        BY <1>0 DEF TocAt
      <3> QED
        BY <1>0, <1>3, <2>1, <3>1 DEF At, TocHas
    <2>4. \A k : TocAt(k)' = TocAt(k) /\ EntryOf(k)' = EntryOf(k)
      BY <1>0, SettingStays
    <2> QED
      BY <2>2, <2>3, <2>4 DEF TocHas
  <1>5. AmrTypes'
    BY <1>0, <1>1, <1>2 DEF AmrTypes, setting, N
  <1>6. /\ N' = N /\ \A k : TocAt(k)' = TocAt(k)
        /\ Len(starts') = 0 /\ Len(parsed') = 0 /\ Len(decoded') = 0
    BY <1>0, SettingStays
  <1>7. PackInv'
    <2>1. CASE turn = N
      <3>1. TocHas(N)' /\ turn' = 1 /\ phase' = "pack_data" /\ cursor' = TocAt(N + 1)'
        BY <1>0, <1>1, <1>2, <1>3, <1>4, <1>6, <2>1
      <3>2. cursor' = EndOf(0)' /\ StartsHave(0)'
        BY <1>6, <3>1 DEF EndOf, StartsHave
      <3> QED
        BY <1>6, <3>1, <3>2 DEF PackInv, Packing
    <2>2. CASE turn # N
      <3>1. turn' = n + 1 /\ turn' - 1 = n /\ phase' = "pack_toc"
        BY <1>0, <1>1, <1>3, <2>2
      <3>2. TocHas(turn - 1)'
        BY <1>4, <3>1 DEF TocHas
      <3>3. cursor' = TocAt(turn)'
        BY <1>0, <1>2, <1>3, <3>1 DEF TocAt, setting
      <3> QED
        BY <1>6, <3>1, <3>2, <3>3 DEF PackInv, Packing
    <2> QED
      BY <2>1, <2>2
  <1> QED
    BY <1>1, <1>5, <1>6, <1>7 DEF AmrInv, ParseInv, DecodeInv

\* After m frames packing stands behind all of them.
LEMMA EndBehindAll ==
  ASSUME AmrTypes, NEW m \in 0 .. N, StartsHave(m)
  PROVE  /\ EndOf(m) \in Nat /\ EndOf(m) >= TocAt(N + 1)
         /\ aligned => EndOf(m) % 8 = 0
         /\ \A j \in 1 .. m : starts[j] + PackedLen(Type(j)) <= EndOf(m)
  <1>0. /\ aligned \in BOOLEAN /\ N \in Nat /\ N + 1 \in Nat \ {0}
        /\ starts \in Seq(Nat) /\ Len(starts) = m
    BY SettingsAssumption DEF AmrTypes, StartsHave
  <1>1. TocAt(N + 1) \in Nat /\ (aligned => TocAt(N + 1) % 8 = 0)
    BY <1>0, EntriesFollow
  <1>2. CASE m = 0
    BY <1>1, <1>2 DEF EndOf
  <1>3. CASE m # 0
    <2>1. m \in 1 .. N /\ m \in 1 .. m /\ starts[m] \in Nat
      BY <1>0, <1>3
    <2>2. PICK l \in Nat : l = PackedLen(Type(m)) /\ (aligned => l % 8 = 0)
      BY <2>1, Lengths
    <2>3. EndOf(m) = starts[m] + l
      BY <1>3, <2>2 DEF EndOf
    <2>4. starts[m] >= TocAt(N + 1) /\ (aligned => starts[m] % 8 = 0)
      BY <2>1 DEF StartsHave
    <2>5. ASSUME NEW j \in 1 .. m PROVE starts[j] + PackedLen(Type(j)) <= EndOf(m)
      <3>1. CASE j = m
        BY <2>1, <2>2, <2>3, <3>1
      <3>2. CASE j # m
        <4>1. j \in 1 .. m - 1 /\ j \in 1 .. N /\ starts[j] \in Nat
          BY <1>0, <3>2
        <4>2. PackedLen(Type(j)) \in Nat
          BY <4>1, Lengths
        <4>3. starts[j] + PackedLen(Type(j)) <= starts[m]
          BY <2>1, <4>1 DEF StartsHave
        <4> QED
          BY <2>1, <2>2, <2>3, <4>1, <4>2, <4>3
      <3> QED
        BY <3>1, <3>2
    <2> QED
      BY <1>1, <2>1, <2>2, <2>3, <2>4, <2>5
  <1> QED
    BY <1>2, <1>3

LEMMA PackBitsKeeps ==
  ASSUME AmrInv, PackBits
  PROVE  AmrInv'
  <1>0. /\ AmrTypes /\ UNCHANGED setting /\ UNCHANGED <<toc, size, parsed, decoded>>
        /\ phase = "pack_data" /\ TocHas(N) /\ StartsHave(turn - 1)
        /\ cursor = EndOf(turn - 1)
        /\ Len(parsed) = 0 /\ Len(decoded) = 0
        /\ turn \in 1 .. N /\ N \in Nat /\ aligned \in BOOLEAN
    BY Parts DEF PackInv, DecodeInv, PackBits, Packing
  <1>1. /\ turn' \in 1 .. N /\ phase' \in Phases
        /\ turn = N => turn' = 1 /\ phase' = "pack_size"
        /\ turn # N => turn' = turn + 1 /\ phase' = "pack_data"
    BY <1>0, TurnsEnd DEF PackBits, Phases, N
  <1>2. PICK n \in 1 .. N : n = turn
    BY <1>0
  <1>3. /\ cursor \in Nat /\ cursor >= TocAt(N + 1)
        /\ aligned => cursor % 8 = 0
        /\ \A j \in 1 .. n - 1 : starts[j] + PackedLen(Type(j)) <= cursor
    BY <1>0, <1>2, EndBehindAll
  <1>4. cursor' = cursor + PackedLen(Type(n)) /\ cursor' \in Nat
    <2>1. /\ BitsOf(Type(n)) \in Nat /\ PackedLen(Type(n)) \in Nat
      BY <1>0, Lengths
    <2>2. CASE Type(n) \in NoData
      BY <1>2, <1>3, <2>2 DEF PackBits, PackedLen, Type
    <2>3. CASE Type(n) \notin NoData
      <3>1. PICK b \in Nat : b = BitsOf(Type(n))
        BY <2>1
      <3>2. cursor' = Behind(cursor + b)
        BY <1>2, <2>3, <3>1 DEF PackBits, Type
      <3>3. PackedLen(Type(n)) = IF aligned THEN 8 * (b \div 8 + 1) ELSE b
        BY <2>3, <3>1 DEF PackedLen
      <3>4. Behind(cursor + b) = cursor + (IF aligned THEN 8 * (b \div 8 + 1) ELSE b)
        BY <1>0, <1>3, BehindEdge
      <3>5. cursor' = cursor + PackedLen(Type(n))
        BY <3>2, <3>3, <3>4
      <3> QED
        BY <1>3, <2>1, <3>5
    <2> QED
      BY <2>2, <2>3
  <1>5. /\ starts' \in Seq(Nat) /\ Len(starts') = n
        /\ starts'[n] = cursor
        /\ \A k \in 1 .. n - 1 : starts'[k] = starts[k]
    <2>1. starts \in Seq(Nat) /\ Len(starts) = n - 1 /\ starts' = Append(starts, cursor)
      BY <1>0, <1>2 DEF AmrTypes, StartsHave, PackBits
    <2> QED
      BY <1>3, <2>1
  <1>6. \A k : TocAt(k)' = TocAt(k) /\ Type(k)' = Type(k)
    BY <1>0, SettingStays
  <1>7. \A t : PackedLen(t)' = PackedLen(t)
    BY <1>0, SettingStays
  <1>8. N' = N /\ aligned' = aligned
    BY <1>0, SettingStays DEF setting
  <1>9. \A k \in 0 .. n - 1 : EndOf(k)' = EndOf(k)
    BY <1>5, <1>6, <1>7, <1>8 DEF EndOf
  <1>10. EndOf(n)' = cursor'
    BY <1>4, <1>5, <1>6, <1>7 DEF EndOf
  <1>11. StartsHave(n)'
    <2>1. ASSUME NEW k \in 1 .. n
          PROVE  /\ starts'[k] = EndOf(k - 1)'
                 /\ starts'[k] >= TocAt(N + 1)'
                 /\ aligned' => starts'[k] % 8 = 0
                 /\ \A j \in 1 .. k - 1 : starts'[j] + PackedLen(Type(j))' <= starts'[k]
      <3>0. /\ k - 1 \in 0 .. n - 1 /\ \A j \in 1 .. k - 1 : j \in 1 .. n - 1
            /\ TocAt(N + 1)' = TocAt(N + 1)
            /\ \A j : PackedLen(Type(j))' = PackedLen(Type(j))
        BY <1>6, <1>7, <1>8
      <3>1. CASE k = n
        BY <1>0, <1>2, <1>3, <1>5, <1>8, <1>9, <3>0, <3>1
      <3>2. CASE k # n
        <4>1. k \in 1 .. n - 1
          BY <3>2
        <4> QED
          BY <1>0, <1>2, <1>5, <1>8, <1>9, <3>0, <4>1 DEF StartsHave
      <3> QED
        BY <3>1, <3>2
    <2> QED
      BY <1>5, <2>1 DEF StartsHave
  <1>12. AmrTypes'
    BY <1>0, <1>1, <1>4, <1>5 DEF AmrTypes, setting, N
  <1>13. TocHas(N)' /\ Len(parsed') = 0 /\ Len(decoded') = 0
    BY <1>0, <1>8, TocStays
  <1>14. PackInv'
    <2>1. CASE turn = N
      <3>1. turn' = 1 /\ phase' = "pack_size" /\ StartsHave(N)' /\ cursor' = EndOf(N)'
        BY <1>1, <1>2, <1>8, <1>10, <1>11, <2>1
      <3> QED
        BY <1>13, <3>1 DEF PackInv, Packing
    <2>2. CASE turn # N
      <3>1. turn' - 1 = n /\ phase' = "pack_data"
        BY <1>1, <1>2, <2>2
      <3>2. StartsHave(turn - 1)' /\ cursor' = EndOf(turn - 1)'
        BY <1>10, <1>11, <3>1 DEF StartsHave, EndOf
      <3> QED
        BY <1>13, <3>1, <3>2 DEF PackInv, Packing
    <2> QED
      BY <2>1, <2>2
  <1> QED
    BY <1>1, <1>12, <1>13, <1>14 DEF AmrInv, ParseInv, DecodeInv

LEMMA PackEndsKeeps ==
  ASSUME AmrInv, PackEnds
  PROVE  AmrInv'
  <1>0. /\ AmrTypes /\ UNCHANGED setting /\ UNCHANGED <<turn, toc, starts, parsed, decoded>>
        /\ TocHas(N) /\ StartsHave(N) /\ cursor = EndOf(N) /\ cursor \in Nat /\ turn = 1
        /\ Len(parsed) = 0 /\ Len(decoded) = 0 /\ phase' = "parse_toc"
        /\ aligned \in BOOLEAN
    <2>1. AmrTypes /\ PackInv /\ DecodeInv /\ aligned \in BOOLEAN /\ phase = "pack_size"
      BY Parts DEF PackEnds
    <2> QED
      BY <2>1 DEF AmrTypes, PackInv, DecodeInv, PackEnds, Packing
  <1>1. size' \in Nat /\ cursor <= 8 * size'
    <2>1. size' = cursor \div 8 + (IF cursor % 8 # 0 THEN 1 ELSE 0)
      BY DEF PackEnds
    <2> QED
      BY <1>0, <2>1
  <1>2. cursor' = TocAt(turn)' /\ cursor' \in Nat
    BY <1>0, EntriesFollow, SettingStays DEF PackEnds, TocAt, setting
  <1>3. AmrTypes'
    BY <1>0, <1>1, <1>2 DEF AmrTypes, setting, N, Phases
  <1>4. TocHas(N)' /\ StartsHave(N)' /\ EndOf(N)' = cursor
    BY <1>0, TocStays, StartsStay, SettingStays
  <1>5. PackInv'
    BY <1>0, <1>1, <1>4 DEF PackInv, Packing
  <1> QED
    BY <1>0, <1>2, <1>3, <1>5 DEF AmrInv, ParseInv, DecodeInv

\* In parsing, the payload stays as it was packed.
LEMMA PayloadStays ==
  ASSUME AmrInv, UNCHANGED setting, UNCHANGED payload, phase \notin Packing, phase' \notin Packing
  PROVE  PackInv'
  <1>1. TocHas(N) /\ StartsHave(N) /\ EndOf(N) <= 8 * size
    BY DEF AmrInv, PackInv
  <1>2. TocHas(N)' /\ StartsHave(N)' /\ EndOf(N)' = EndOf(N)
    BY <1>1, TocStays, StartsStay, SettingStays DEF payload
  <1> QED
    BY <1>1, <1>2 DEF PackInv, Packing, payload

LEMMA ParseEntryKeeps ==
  ASSUME AmrInv, ParseEntry
  PROVE  AmrInv'
  <1>0. /\ AmrTypes /\ ParseInv /\ UNCHANGED setting /\ UNCHANGED payload /\ UNCHANGED decoded
        /\ phase = "parse_toc" /\ TocHas(N) /\ StartsHave(N)
        /\ cursor = TocAt(turn) /\ Len(parsed) = turn - 1 /\ Len(decoded) = 0
        /\ turn \in 1 .. N /\ N \in Nat /\ aligned \in BOOLEAN
    <2>1. /\ AmrTypes /\ PackInv /\ ParseInv /\ DecodeInv
          /\ turn \in 1 .. N /\ N \in Nat /\ aligned \in BOOLEAN
      BY Parts
    <2>2. /\ UNCHANGED setting /\ UNCHANGED payload /\ UNCHANGED decoded
          /\ phase = "parse_toc"
      BY DEF ParseEntry
    <2>3. TocHas(N) /\ StartsHave(N)
      BY <2>1, <2>2 DEF PackInv, Packing
    <2>4. cursor = TocAt(turn) /\ Len(parsed) = turn - 1 /\ Len(decoded) = 0
      BY <2>1, <2>2 DEF ParseInv, DecodeInv
    <2> QED
      BY <2>1, <2>2, <2>3, <2>4
  <1>1. PICK n \in 1 .. N : n = turn
    BY <1>0
  <1>2. toc[cursor] = EntryOf(n)
    BY <1>0, <1>1 DEF TocHas
  <1>3. /\ EndTurn(turn = N, "parse_data")
        /\ parsed' = Append(parsed, [type |-> Type(n), good |-> frames[n].good,
                                     mode |-> ModeOf(Type(n)), at |-> -1])
    <2>1. /\ toc[cursor].type = Type(n) /\ toc[cursor].good = frames[n].good
          /\ toc[cursor].more = (n # N)
      BY <1>2 DEF EntryOf
    <2> QED
      BY <1>1, <2>1 DEF ParseEntry, EndTurn
  <1>4. /\ turn' \in 1 .. N /\ phase' \in Phases
        /\ turn = N => turn' = 1 /\ phase' = "parse_data"
        /\ turn # N => turn' = turn + 1 /\ phase' = "parse_toc"
    BY <1>0, <1>3, TurnsEnd DEF Phases
  <1>5. cursor' = TocAt(n + 1) /\ cursor' \in Nat
    <2>1. n \in Nat \ {0} /\ n + 1 \in Nat \ {0} /\ cursor' = Behind(TocAt(n) + 6)
      BY <1>0, <1>1 DEF ParseEntry
    <2> QED
      BY <1>0, <2>1, EntriesFollow
  <1>6. /\ parsed' \in Seq(Parsed) /\ Len(parsed') = n
        /\ \A k \in 1 .. n - 1 : parsed'[k] = parsed[k]
        /\ parsed'[n].type = Type(n) /\ parsed'[n].good = frames[n].good
        /\ parsed'[n].mode = ModeOf(Type(n))
    <2>1. Type(n) \in 0 .. 15 /\ frames[n].good \in BOOLEAN /\ band \in {"nb", "wb"}
      BY <1>0, FrameFacts
    <2>2. ModeOf(Type(n)) \in -1 .. 9
      BY <2>1 DEF ModeOf, Sid
    <2>3. PICK e \in Parsed : e = [type |-> Type(n), good |-> frames[n].good,
                                   mode |-> ModeOf(Type(n)), at |-> -1]
      <3>1. [type |-> Type(n), good |-> frames[n].good, mode |-> ModeOf(Type(n)), at |-> -1]
               \in Parsed
        BY <2>1, <2>2 DEF Parsed
      <3> QED
        BY <3>1
    <2>4. parsed' = Append(parsed, e) /\ parsed \in Seq(Parsed) /\ Len(parsed) = n - 1
      BY <1>0, <1>1, <1>3, <2>3 DEF AmrTypes
    <2>5. parsed'[n] = e /\ parsed' \in Seq(Parsed) /\ Len(parsed') = n
          /\ \A k \in 1 .. n - 1 : parsed'[k] = parsed[k]
      BY <2>4
    <2> QED
      BY <2>3, <2>5
  <1>7. AmrTypes'
    BY <1>0, <1>4, <1>5, <1>6 DEF AmrTypes, setting, payload, N
  <1>8. PackInv'
    BY <1>0, <1>4, PayloadStays DEF Packing
  <1>9. \A k \in 1 .. n : /\ parsed'[k].type = Type(k)' /\ parsed'[k].good = frames'[k].good
                          /\ parsed'[k].mode = ModeOf(Type(k))'
    <2>1. \A k \in 1 .. n : k \in 1 .. n - 1 \/ k = n
      BY <1>0
    <2>2. \A k \in 1 .. n - 1 : k \in 1 .. Len(parsed)
      BY <1>0, <1>1
    <2>3. \A k : Type(k)' = Type(k) /\ frames'[k] = frames[k]
      BY <1>0, SettingStays
    <2>4. \A k : ModeOf(Type(k))' = ModeOf(Type(k))
      BY <1>0, SettingStays
    <2>5. \A k \in 1 .. n - 1 : /\ parsed[k].type = Type(k) /\ parsed[k].good = frames[k].good
                                /\ parsed[k].mode = ModeOf(Type(k))
      BY <1>0, <2>2 DEF ParseInv
    <2> QED
      BY <1>6, <2>1, <2>3, <2>4, <2>5
  <1>10. ParseInv'
    <2>1. CASE turn = N
      <3>1. phase' = "parse_data" /\ turn' = 1 /\ Len(parsed') = N' /\ Len(parsed') = n
        BY <1>0, <1>1, <1>4, <1>6, <2>1, SettingStays
      <3>2. cursor' = starts'[1]
        <4>1. 1 \in 1 .. N /\ cursor' = TocAt(N + 1)
          BY <1>0, <1>1, <1>5, <2>1
        <4>2. starts[1] = EndOf(1 - 1)
          BY <1>0, <4>1 DEF StartsHave
        <4> QED
          BY <1>0, <4>1, <4>2 DEF EndOf, payload
      <3> QED
        BY <1>9, <3>1, <3>2 DEF ParseInv
    <2>2. CASE turn # N
      <3>1. phase' = "parse_toc" /\ turn' = n + 1 /\ Len(parsed') = turn' - 1 /\ Len(parsed') = n
        BY <1>0, <1>1, <1>4, <1>6, <2>2
      <3>2. cursor' = TocAt(turn)'
        BY <1>0, <1>5, <3>1 DEF TocAt, setting
      <3> QED
        BY <1>9, <3>1, <3>2 DEF ParseInv
    <2> QED
      BY <2>1, <2>2
  <1> QED
    BY <1>0, <1>4, <1>7, <1>8, <1>10 DEF AmrInv, DecodeInv

LEMMA ParseBitsKeeps ==
  ASSUME AmrInv, ParseBits
  PROVE  AmrInv'
  <1>0. /\ AmrTypes /\ ParseInv /\ UNCHANGED setting /\ UNCHANGED payload /\ UNCHANGED decoded
        /\ phase = "parse_data" /\ StartsHave(N) /\ Len(parsed) = N /\ Len(decoded) = 0
        /\ turn \in 1 .. N /\ N \in Nat /\ aligned \in BOOLEAN
    BY Parts DEF PackInv, ParseInv, DecodeInv, ParseBits, Packing
  <1>1. PICK n \in 1 .. N : n = turn
    BY <1>0
  <1>2. /\ turn' \in 1 .. N /\ phase' \in Phases
        /\ turn = N => turn' = 1 /\ phase' = "decode"
        /\ turn # N => turn' = turn + 1 /\ phase' = "parse_data"
    BY <1>0, TurnsEnd DEF ParseBits, Phases
  <1>3. cursor' = cursor + (IF aligned THEN 8 * OctetsOf(Type(n)) ELSE BitsOf(Type(n)))
    <2>1. parsed[n].type = Type(n)
      BY <1>0 DEF ParseInv
    <2> QED
      BY <1>1, <2>1 DEF ParseBits
  <1>4. cursor \in Nat /\ cursor' \in Nat
    <2>1. cursor \in Nat /\ OctetsOf(Type(n)) \in Nat /\ BitsOf(Type(n)) \in Nat
      BY <1>0, Lengths DEF AmrTypes
    <2> QED
      BY <1>0, <1>3, <2>1
  <1>5. /\ parsed' \in Seq(Parsed) /\ Len(parsed') = N
        /\ \A k \in 1 .. N : /\ parsed'[k].type = parsed[k].type
                             /\ parsed'[k].good = parsed[k].good
                             /\ parsed'[k].mode = parsed[k].mode
                             /\ parsed'[k].at = IF k = n THEN cursor ELSE parsed[k].at
    <2>1. parsed \in Seq(Parsed) /\ parsed[n] \in Parsed
      BY <1>0 DEF AmrTypes
    <2>2. PICK e \in Parsed : e = [parsed[n] EXCEPT !.at = cursor]
      <3>1. \A q \in Parsed : \A c \in Nat : [q EXCEPT !.at = c] \in Parsed
        BY DEF Parsed
      <3> QED
        BY <1>4, <2>1, <3>1
    <2>3. parsed' = [parsed EXCEPT ![n] = e]
      BY <1>1, <2>2 DEF ParseBits
    <2>4. /\ parsed' \in Seq(Parsed) /\ Len(parsed') = N
          /\ \A k \in 1 .. N : parsed'[k] = IF k = n THEN e ELSE parsed[k]
      BY <1>0, <2>1, <2>3, ExceptSeq
    <2>5. /\ e.type = parsed[n].type /\ e.good = parsed[n].good
          /\ e.mode = parsed[n].mode /\ e.at = cursor
      BY <2>1, <2>2 DEF Parsed
    <2> QED
      BY <2>4, <2>5
  <1>6. AmrTypes'
    BY <1>0, <1>2, <1>4, <1>5 DEF AmrTypes, setting, payload, N
  <1>7. PackInv'
    BY <1>0, <1>2, PayloadStays DEF Packing
  <1>8. /\ N' = N /\ starts' = starts
        /\ \A k : /\ Type(k)' = Type(k) /\ frames'[k] = frames[k]
                  /\ ModeOf(Type(k))' = ModeOf(Type(k)) /\ Undisplaced(k)' = Undisplaced(k)
    BY <1>0, SettingStays DEF payload
  <1>9. Undisplaced(n) => cursor = starts[n]
    BY <1>0, <1>1 DEF ParseInv
  <1>10. \A k \in 1 .. n : Undisplaced(k) => parsed'[k].at = starts[k]
    <2>1. \A k \in 1 .. n - 1 : Undisplaced(k) => parsed[k].at = starts[k]
      BY <1>0, <1>1 DEF ParseInv
    <2>2. \A k \in 1 .. n : k \in 1 .. N /\ (k = n \/ k \in 1 .. n - 1)
      BY <1>0
    <2> QED
      BY <1>5, <1>9, <2>1, <2>2
  <1>11. \A k \in 1 .. N : /\ parsed'[k].type = Type(k) /\ parsed'[k].good = frames[k].good
                           /\ parsed'[k].mode = ModeOf(Type(k))
    BY <1>0, <1>5 DEF ParseInv
  <1>12. ParseInv'
    <2>1. CASE turn = N
      <3>1. phase' = "decode" /\ turn' = 1 /\ n = N
        BY <1>1, <1>2, <2>1
      <3> QED
        BY <1>5, <1>8, <1>10, <1>11, <3>1 DEF ParseInv
    <2>2. CASE turn # N
      <3>1. phase' = "parse_data" /\ turn' = n + 1
        BY <1>1, <1>2, <2>2
      <3>2. Undisplaced(n + 1) => cursor' = starts[n + 1]
        <4>1. n + 1 \in 1 .. N /\ n \in 1 .. (n + 1) - 1 /\ (n + 1) - 1 = n /\ n # 0
              /\ \A j \in 1 .. n - 1 : j \in 1 .. (n + 1) - 1
          BY <1>0, <1>1, <2>2
        <4>2. Undisplaced(n + 1) => Undisplaced(n) /\ ~Displaces(n)
          BY <4>1 DEF Undisplaced
        <4>3. starts[n + 1] = starts[n] + PackedLen(Type(n))
          BY <1>0, <4>1 DEF StartsHave, EndOf
        <4>4. ~Displaces(n) => cursor' = cursor + PackedLen(Type(n))
          BY <1>0, <1>3, Lengths
        <4> QED
          BY <1>9, <4>2, <4>3, <4>4
      <3>3. \A k \in 1 .. N : k < n + 1 => k \in 1 .. n
        BY <1>0
      <3> QED
        BY <1>5, <1>8, <1>10, <1>11, <3>1, <3>2, <3>3 DEF ParseInv
    <2> QED
      BY <2>1, <2>2
  <1>13. DecodeInv'
    BY <1>0, <1>2 DEF DecodeInv
  <1> QED
    BY <1>6, <1>7, <1>12, <1>13 DEF AmrInv

\* Frames that have bits begin at different places.
LEMMA StartsDiffer ==
  ASSUME AmrTypes, StartsHave(N), NEW j \in Bearing, NEW k \in Bearing, j # k
  PROVE  Apart(starts[j], BitsOf(Type(j)), starts[k], BitsOf(Type(k))) /\ starts[j] # starts[k]
  <1>0. /\ j \in 1 .. N /\ k \in 1 .. N /\ N \in Nat /\ starts \in Seq(Nat) /\ Len(starts) = N
        /\ Type(j) \notin NoData /\ Type(k) \notin NoData
    BY DEF Bearing, AmrTypes, StartsHave, Type, N
  <1>1. ASSUME NEW a \in 1 .. N, NEW b \in 1 .. N, a < b, Type(a) \notin NoData
        PROVE  starts[a] + BitsOf(Type(a)) <= starts[b] /\ starts[a] # starts[b]
    <2>1. a \in 1 .. b - 1
      BY <1>0, <1>1
    <2>2. starts[a] + PackedLen(Type(a)) <= starts[b]
      BY <2>1 DEF StartsHave
    <2>3. /\ BitsOf(Type(a)) \in Nat /\ PackedLen(Type(a)) \in Nat
          /\ BitsOf(Type(a)) <= PackedLen(Type(a)) /\ PackedLen(Type(a)) >= 1
      BY <1>1, Lengths
    <2>4. starts[a] \in Nat /\ starts[b] \in Nat
      BY <1>0
    <2> QED
      BY <2>2, <2>3, <2>4
  <1>2. CASE j < k
    BY <1>0, <1>1, <1>2 DEF Apart
  <1>3. CASE k < j
    BY <1>0, <1>1, <1>3 DEF Apart
  <1> QED
    BY <1>0, <1>2, <1>3

LEMMA PredecodeKeeps ==
  ASSUME AmrInv, Predecode
  PROVE  AmrInv'
  <1>0. /\ AmrTypes /\ ParseInv /\ DecodeInv
        /\ UNCHANGED setting /\ UNCHANGED payload /\ UNCHANGED cursor /\ UNCHANGED parsed
        /\ phase = "decode" /\ StartsHave(N) /\ Len(parsed) = N /\ Len(decoded) = turn - 1
        /\ turn \in 1 .. N /\ N \in Nat
    BY DEF AmrInv, AmrTypes, PackInv, ParseInv, DecodeInv, Predecode, Packing
  <1>1. PICK n \in 1 .. N : n = turn
    BY <1>0
  <1>2. /\ turn' \in 1 .. N /\ phase' \in Phases
        /\ turn = N => turn' = 1 /\ phase' = "done"
        /\ turn # N => turn' = turn + 1 /\ phase' = "decode"
    BY <1>0, TurnsEnd DEF Predecode, Phases
  <1>3. /\ parsed[n].type = Type(n) /\ parsed[n].good = frames[n].good
        /\ parsed[n].mode = ModeOf(Type(n))
        /\ Undisplaced(n) => parsed[n].at = starts[n]
    BY <1>0 DEF ParseInv
  <1> DEFINE bits == IF Type(n) \in NoData THEN {} ELSE BitsAt(parsed[n].at, Type(n))
  <1>4. PICK mode \in IF Type(n) # Sid(band) THEN {ModeOf(Type(n))}
                      ELSE IF bits = {} THEN 0 .. (IF band = "nb" THEN 7 ELSE 15)
                      ELSE {frames[k].mode : k \in bits} :
          decoded' = Append(decoded, [type |-> Type(n), good |-> frames[n].good,
                                      mode |-> mode, bits |-> bits])
    BY <1>1, <1>3 DEF Predecode
  <1>5. bits \in SUBSET (1 .. N)
    BY <1>0 DEF BitsAt, StartsHave, AmrTypes
  <1>6. Undisplaced(n) => bits = {n} \cap Bearing
    <2> SUFFICES ASSUME Undisplaced(n) PROVE bits = {n} \cap Bearing
      OBVIOUS
    <2>1. CASE Type(n) \in NoData
      BY <2>1 DEF Bearing, Type
    <2>2. CASE Type(n) \notin NoData
      <3>1. n \in Bearing
        BY <1>0, <2>2 DEF Bearing, Type, AmrTypes, N
      <3>2. bits = {k \in 1 .. N : Type(k) = Type(n) /\ starts[k] = starts[n]}
        BY <1>0, <1>3, <2>2 DEF BitsAt, Type, StartsHave, AmrTypes
      <3>3. ASSUME NEW k \in 1 .. N, Type(k) = Type(n), starts[k] = starts[n]
            PROVE  k = n
        <4>1. k \in Bearing
          BY <1>0, <2>2, <3>3 DEF Bearing, Type, AmrTypes, N
        <4> QED
          BY <1>0, <3>1, <3>3, <4>1, StartsDiffer
      <3>4. bits = {n}
        BY <3>2, <3>3
      <3> QED
        BY <3>1, <3>4
    <2> QED
      BY <2>1, <2>2
  <1>7. mode \in -1 .. 15 /\ (Undisplaced(n) => mode = frames[n].mode)
    <2>0. /\ band \in {"nb", "wb"} /\ Type(n) \in 0 .. Sid(band) \cup NoData
          /\ frames[n].mode \in Modes(Type(n), band)
      BY <1>0, FrameFacts
    <2>1. CASE Type(n) # Sid(band)
      <3>1. mode = ModeOf(Type(n))
        BY <1>4, <2>1
      <3>2. ModeOf(Type(n)) = frames[n].mode /\ ModeOf(Type(n)) \in -1 .. 9
        BY <2>0, <2>1 DEF ModeOf, Modes, Sid, NoData
      <3> QED
        BY <3>1, <3>2
    <2>2. CASE Type(n) = Sid(band) /\ bits = {}
      <3>1. Type(n) \notin NoData
        BY <2>0, <2>2 DEF Sid, NoData
      <3>2. n \in Bearing
        BY <1>0, <3>1 DEF Bearing, Type, AmrTypes, N
      <3>3. ~Undisplaced(n)
        BY <1>6, <2>2, <3>2
      <3> QED
        BY <1>4, <2>2, <3>3
    <2>3. CASE Type(n) = Sid(band) /\ bits # {}
      <3>1. PICK k \in bits : mode = frames[k].mode
        BY <1>4, <2>3
      <3>2. k \in 1 .. N /\ frames[k].mode \in -1 .. 9
        BY <1>0, <1>5, FrameFacts
      <3>3. Undisplaced(n) => k = n
        BY <1>6
      <3> QED
        BY <3>1, <3>2, <3>3
    <2> QED
      BY <2>1, <2>2, <2>3
  <1> HIDE DEF bits
  <1>8. /\ decoded' \in Seq(Decoded) /\ Len(decoded') = n
        /\ \A k \in 1 .. n - 1 : decoded'[k] = decoded[k]
        /\ decoded'[n].type = Type(n) /\ decoded'[n].good = frames[n].good
        /\ decoded'[n].mode = mode /\ decoded'[n].bits = bits
    <2>1. Type(n) \in 0 .. 15 /\ frames[n].good \in BOOLEAN /\ bits \in SUBSET Nat
      BY <1>0, <1>5, FrameFacts
    <2>2. PICK e \in Decoded : e = [type |-> Type(n), good |-> frames[n].good,
                                    mode |-> mode, bits |-> bits]
      <3>1. [type |-> Type(n), good |-> frames[n].good, mode |-> mode, bits |-> bits] \in Decoded
        BY <1>7, <2>1 DEF Decoded
      <3> QED
        BY <3>1
    <2>3. decoded \in Seq(Decoded) /\ Len(decoded) = n - 1 /\ decoded' = Append(decoded, e)
      BY <1>0, <1>1, <1>4, <2>2 DEF AmrTypes
    <2>4. /\ decoded' \in Seq(Decoded) /\ Len(decoded') = n /\ decoded'[n] = e
          /\ \A k \in 1 .. n - 1 : decoded'[k] = decoded[k]
      BY <2>3
    <2> QED
      BY <2>2, <2>4
  <1>9. AmrTypes'
    BY <1>0, <1>2, <1>8 DEF AmrTypes, setting, payload, N
  <1>10. PackInv'
    BY <1>0, <1>2, PayloadStays DEF Packing, AmrInv
  <1>11. ParseInv'
    BY <1>0, <1>2, ParsedStays DEF payload
  <1>12. \A k \in 1 .. n : /\ decoded'[k].type = Type(k)' /\ decoded'[k].good = frames'[k].good
                           /\ Undisplaced(k)' => Whole(k)'
    <2>1. ASSUME NEW k \in 1 .. n
          PROVE  /\ decoded'[k].type = Type(k) /\ decoded'[k].good = frames[k].good
                 /\ Undisplaced(k) => /\ decoded'[k].mode = frames[k].mode
                                      /\ decoded'[k].bits = {k} \cap Bearing
      <3>1. CASE k = n
        BY <1>6, <1>7, <1>8, <3>1
      <3>2. CASE k # n
        <4>1. k \in 1 .. n - 1 /\ k \in 1 .. Len(decoded)
          BY <1>0, <1>1, <3>2
        <4> QED
          BY <1>0, <1>8, <4>1 DEF DecodeInv, Whole
      <3> QED
        BY <3>1, <3>2
    <2>2. /\ Bearing' = Bearing
          /\ \A k : /\ Type(k)' = Type(k) /\ frames'[k] = frames[k]
                    /\ Undisplaced(k)' = Undisplaced(k)
      BY <1>0, SettingStays
    <2> QED
      BY <2>1, <2>2 DEF Whole
  <1>13. DecodeInv'
    <2>1. N' = N
      BY <1>0, SettingStays
    <2>2. CASE turn = N
      BY <1>1, <1>2, <1>8, <1>12, <2>1, <2>2 DEF DecodeInv
    <2>3. CASE turn # N
      <3>1. phase' = "decode" /\ Len(decoded') = turn' - 1
        BY <1>0, <1>1, <1>2, <1>8, <2>3
      <3> QED
        BY <1>8, <1>12, <3>1 DEF DecodeInv
    <2> QED
      BY <2>2, <2>3
  <1> QED
    BY <1>9, <1>10, <1>11, <1>13 DEF AmrInv

LEMMA StutterKeeps ==
  ASSUME AmrInv, UNCHANGED vars
  PROVE  AmrInv'
  <1>0. /\ UNCHANGED setting /\ UNCHANGED <<phase, turn, cursor, parsed, decoded>>
        /\ UNCHANGED toc /\ UNCHANGED starts /\ UNCHANGED size
        /\ AmrTypes /\ PackInv /\ ParseInv /\ DecodeInv /\ turn \in 1 .. N
    BY DEF vars, payload, AmrInv, AmrTypes
  <1>1. /\ N' = N /\ Bearing' = Bearing
        /\ \A k : /\ Type(k)' = Type(k) /\ frames'[k] = frames[k] /\ TocAt(k)' = TocAt(k)
                  /\ ModeOf(Type(k))' = ModeOf(Type(k)) /\ Undisplaced(k)' = Undisplaced(k)
    BY <1>0, SettingStays
  <1>2. AmrTypes'
    BY <1>0 DEF AmrTypes, setting, N
  <1>3. PICK n \in 1 .. N : n = turn
    BY <1>0
  <1>4. TocAt(turn)' = TocAt(turn)
    BY <1>0 DEF TocAt, setting
  <1>5. PackInv'
    <2>1. CASE phase = "pack_toc"
      <3>1. TocHas(n - 1)'
        BY <1>0, <1>3, <2>1, TocStays DEF PackInv
      <3>2. TocHas(turn - 1)'
        BY <1>0, <1>3, <3>1 DEF TocHas
      <3> QED
        BY <1>0, <1>4, <2>1, <3>2 DEF PackInv, Packing
    <2>2. CASE phase = "pack_data"
      <3>1. TocHas(N) /\ StartsHave(n - 1) /\ cursor = EndOf(n - 1)
        BY <1>0, <1>3, <2>2 DEF PackInv
      <3>2. TocHas(N)' /\ StartsHave(n - 1)' /\ cursor' = EndOf(n - 1)'
        BY <1>0, <1>1, <3>1, TocStays, StartsStay
      <3>3. StartsHave(turn - 1)' /\ cursor' = EndOf(turn - 1)'
        BY <1>0, <1>3, <3>2 DEF StartsHave, EndOf
      <3> QED
        BY <1>0, <2>2, <3>2, <3>3 DEF PackInv, Packing
    <2>3. CASE phase \notin {"pack_toc", "pack_data"}
      <3>1. TocHas(N) /\ StartsHave(N)
        BY <1>0, <2>3 DEF PackInv, Packing
      <3>2. TocHas(N)' /\ StartsHave(N)' /\ EndOf(N)' = EndOf(N)
        BY <1>0, <1>1, <3>1, TocStays, StartsStay
      <3> QED
        BY <1>0, <2>3, <3>2 DEF PackInv, Packing
    <2> QED
      BY <2>1, <2>2, <2>3
  <1>6. ParseInv'
    <2>1. Undisplaced(turn)' = Undisplaced(turn)
      BY <1>0 DEF Undisplaced, Displaces, setting
    <2> QED
      BY <1>0, <1>1, <1>4, <2>1 DEF ParseInv
  <1>7. DecodeInv'
    BY <1>0, <1>1 DEF DecodeInv, Whole
  <1> QED
    BY <1>2, <1>5, <1>6, <1>7 DEF AmrInv

LEMMA AmrInductive == AmrInv /\ [Next]_vars => AmrInv'
  <1> SUFFICES ASSUME AmrInv, [Next]_vars PROVE AmrInv'
    OBVIOUS
  <1>1. CASE UNCHANGED vars
    BY <1>1, StutterKeeps
  <1> QED
    BY <1>1, PackEntryKeeps, PackBitsKeeps, PackEndsKeeps, ParseEntryKeeps, ParseBitsKeeps,
       PredecodeKeeps DEF Next

LEMMA AmrInvariance == Spec => []AmrInv
  BY AmrInitially, AmrInductive, PTL DEF Spec

-----------------------------------------------------------------------------
(* The theorems *)

\* The variables keep their types, and a table of contents that is parsed has
\* an entry wherever one is announced.
THEOREM AmrTypeCorrect == Spec => []AmrTypeOK
  <1>1. AmrInv => AmrTypeOK
    <2> SUFFICES ASSUME AmrInv PROVE AmrTypeOK
      OBVIOUS
    <2>1. /\ band \in Bands /\ aligned \in Layouts /\ frames \in Seq(Frame(band))
          /\ N \in 1 .. MaxFrames /\ N \in Nat /\ phase \in Phases /\ turn \in 1 .. N
          /\ cursor \in Nat /\ size \in Nat /\ starts \in Seq(Nat) /\ decoded \in Seq(Decoded)
      BY DEF AmrInv, AmrTypes
    <2>2. Len(starts) <= N
      BY <2>1 DEF AmrInv, PackInv, StartsHave, Packing
    <2>3. Len(parsed) <= N
      BY <2>1 DEF AmrInv, PackInv, ParseInv, Packing, Phases
    <2>4. Len(decoded) <= Len(parsed)
      BY <2>1 DEF AmrInv, AmrTypes, DecodeInv, ParseInv, Phases
    <2>5. \A p \in DOMAIN toc : toc[p] \in [more : BOOLEAN, type : 0 .. 15, good : BOOLEAN]
      <3>1. PICK n \in 0 .. N : TocHas(n)
        <4>1. turn - 1 \in 0 .. N /\ N \in 0 .. N
          BY <2>1
        <4> QED
          BY <4>1 DEF AmrInv, PackInv, Packing
      <3>2. ASSUME NEW k \in 1 .. n
            PROVE  toc[TocAt(k)] \in [more : BOOLEAN, type : 0 .. 15, good : BOOLEAN]
        <4>1. k \in 1 .. N
          BY <2>1
        <4>2. toc[TocAt(k)] = EntryOf(k)
          BY <3>1 DEF TocHas
        <4>3. Type(k) \in 0 .. 15 /\ frames[k].good \in BOOLEAN
          BY <4>1, FrameFacts DEF AmrInv
        <4> QED
          BY <4>2, <4>3 DEF EntryOf
      <3> QED
        BY <3>1, <3>2 DEF TocHas
    <2>6. phase = "parse_toc" => cursor \in DOMAIN toc
      BY <2>1 DEF AmrInv, PackInv, ParseInv, TocHas, Packing
    <2>7. \A k \in DOMAIN decoded : decoded[k].mode \in -1 .. 15
      <3>1. \A k \in DOMAIN decoded : decoded[k] \in Decoded
        BY <2>1
      <3> QED
        BY <3>1 DEF Decoded
    <2> QED
      BY <2>1, <2>2, <2>3, <2>4, <2>5, <2>6, <2>7 DEF AmrTypeOK, N
  <1> QED
    BY <1>1, AmrInvariance, PTL

\* Mode request, table of contents and frames share a payload without an
\* overlap, within its size, for any number of frames of any types.
THEOREM PayloadAlways == Spec => []PayloadIsSound
  <1>1. AmrInv => PayloadIsSound
    <2> SUFFICES ASSUME AmrInv, phase \notin Packing PROVE PayloadIsSound
      BY DEF PayloadIsSound, Packing
    <2>1. /\ AmrTypes /\ TocHas(N) /\ StartsHave(N) /\ EndOf(N) <= 8 * size
          /\ N \in Nat /\ N + 1 \in Nat \ {0} /\ aligned \in BOOLEAN /\ size \in Nat
          /\ starts \in Seq(Nat) /\ Len(starts) = N
      <3>1. AmrTypes /\ PackInv /\ N \in Nat /\ aligned \in BOOLEAN
        BY Parts
      <3>2. TocHas(N) /\ StartsHave(N) /\ EndOf(N) <= 8 * size
        BY <3>1 DEF PackInv
      <3> QED
        BY <3>1, <3>2 DEF AmrTypes, StartsHave
    <2>2. PICK first \in Nat : first = TocAt(N + 1) /\ first >= 4
      BY <2>1, EntriesFollow
    <2>3. PICK last \in Nat : /\ last = EndOf(N) /\ first <= last
                              /\ \A k \in 1 .. N : starts[k] + PackedLen(Type(k)) <= last
      BY <2>1, <2>2, EndBehindAll
    <2>4. ASSUME NEW k \in 1 .. N
          PROVE  TocAt(k) \in Nat /\ 4 <= TocAt(k) /\ TocAt(k) + 6 <= first
      <3>1. k \in Nat \ {0} /\ k \in Nat /\ N + 1 \in Nat /\ k < N + 1
        BY <2>1
      <3> QED
        BY <2>1, <2>2, <3>1, EntriesFollow, EntriesApart
    <2>5. ASSUME NEW k \in Bearing
          PROVE  /\ k \in 1 .. N /\ Type(k) = frames[k].type
                 /\ starts[k] \in Nat /\ first <= starts[k]
                 /\ BitsOf(Type(k)) \in Nat /\ starts[k] + BitsOf(Type(k)) <= last
      <3>1. k \in 1 .. N
        BY <2>1 DEF Bearing, AmrTypes, N
      <3>2. BitsOf(Type(k)) \in Nat /\ PackedLen(Type(k)) \in Nat
            /\ BitsOf(Type(k)) <= PackedLen(Type(k))
        BY <2>1, <3>1, Lengths
      <3>3. starts[k] \in Nat /\ first <= starts[k]
        BY <2>1, <2>2, <3>1 DEF StartsHave
      <3> QED
        BY <2>3, <3>1, <3>2, <3>3 DEF Type
    <2>6. ASSUME NEW p \in DOMAIN toc
          PROVE  /\ 4 <= p /\ p + 6 <= 8 * size
                 /\ \A q \in DOMAIN toc \ {p} : Apart(p, 6, q, 6)
                 /\ \A k \in Bearing : Apart(p, 6, starts[k], BitsOf(frames[k].type))
      <3>1. PICK j \in 1 .. N : p = TocAt(j)
        BY <2>1 DEF TocHas
      <3>2. \A q \in DOMAIN toc \ {p} : Apart(p, 6, q, 6)
        <4> SUFFICES ASSUME NEW q \in DOMAIN toc, q # p PROVE Apart(p, 6, q, 6)
          OBVIOUS
        <4>1. PICK k \in 1 .. N : q = TocAt(k)
          BY <2>1 DEF TocHas
        <4>2. j \in Nat /\ k \in Nat /\ (j < k \/ k < j)
          BY <2>1, <3>1, <4>1
        <4> QED
          BY <2>1, <3>1, <4>1, <4>2, EntriesApart DEF Apart
      <3>3. \A k \in Bearing : Apart(p, 6, starts[k], BitsOf(frames[k].type))
        BY <2>2, <2>4, <2>5, <3>1 DEF Apart
      <3> QED
        BY <2>1, <2>2, <2>3, <2>4, <3>1, <3>2, <3>3
    <2>7. ASSUME NEW k \in Bearing
          PROVE  /\ 4 <= starts[k] /\ starts[k] + BitsOf(frames[k].type) <= 8 * size
                 /\ \A j \in Bearing \ {k} :
                       Apart(starts[j], BitsOf(frames[j].type), starts[k], BitsOf(frames[k].type))
      BY <2>1, <2>2, <2>3, <2>5, <2>7, StartsDiffer DEF Type
    <2> QED
      BY <2>6, <2>7 DEF PayloadIsSound
  <1> QED
    BY <1>1, AmrInvariance, PTL

\* What was packed is what is decoded, for any number of frames of any types,
\* up to a frame whose length in octets is wrong.
THEOREM RecoveredAlways == Spec => []FramesRecovered
  <1>1. AmrInv => FramesRecovered
    BY DEF AmrInv, DecodeInv, FramesRecovered, AmrTypes, Undisplaced, N, Type
  <1> QED
    BY <1>1, AmrInvariance, PTL

\* A bandwidth-efficient payload, of any number of frames, gives back every
\* frame that was packed: the wrong lengths are only looked up for the other
\* layout.
THEOREM EfficientRecovers == Spec => [](~aligned => AllRecovered)
  <1>1. FramesRecovered => (~aligned => AllRecovered)
    BY DEF FramesRecovered, AllRecovered, Displaces
  <1> QED
    BY <1>1, RecoveredAlways, PTL
=============================================================================
