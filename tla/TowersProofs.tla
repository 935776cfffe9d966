---------------------------- MODULE TowersProofs ----------------------------
(***************************************************************************)
(* Proofs about Towers, for any sensors, temperatures, number of cells, of *)
(* threads and of readings: who owns a cell, that none is used after it    *)
(* was freed unless main ends while a record is being published, in which  *)
(* units the sensors of a message are, and which readings they show.       *)
(***************************************************************************)
EXTENDS Towers, TLAPS

\* The walk of wdcopy, and who may be where.
Shape ==
    /\ walk > 0 => pub = "copy"
    /\ todo # {} => walk > 0 /\ Len(cpy) > 0
    /\ Ended /\ ~late => pub = "wait"
    /\ late => Ended
    /\ \A t \in Threads : thr[t] = "idle" => list[t] = <<>>
    /\ main \in {"temperature", "high"} => cur > 0
    /\ main = "temperature" => readings < MaxReadings

\* While sensors are copied, those of wd are metric and no thread's, whether
\* they are still allocated or not.
Source ==
    walk > 0 => \A i \in 1 .. Len(tower_list) :
        data[tower_list[i]].unit = 0 /\ tower_list[i] \notin ThreadCells

Inv == TypeOK /\ OneOwner /\ MessageUnits /\ NoMisuse /\ Shape /\ Source

CellType == [id : Sensors \cup {NoSensor}, temperature : Temps \cup {Unread},
             high : Temps \cup {Unread, NoHigh}, unit : {0, 1}]
-----------------------------------------------------------------------------
LEMMA InAppend ==
    ASSUME NEW s \in Seq(Cells), NEW e \in Cells
    PROVE  /\ Append(s, e) \in Seq(Cells)
           /\ Len(Append(s, e)) = Len(s) + 1
           /\ In(Append(s, e)) = In(s) \cup {e}
           /\ NoRepeats(s) /\ e \notin In(s) => NoRepeats(Append(s, e))
<1> DEFINE a == Append(s, e)
<1>1. a \in Seq(Cells) /\ Len(a) = Len(s) + 1 /\ Len(s) \in Nat
  OBVIOUS
<1>2. \A i \in 1 .. Len(s) : a[i] = s[i]
  OBVIOUS
<1>3. a[Len(s) + 1] = e
  OBVIOUS
<1> HIDE DEF a
<1>4. \A i \in 1 .. Len(a) : i \in 1 .. Len(s) \/ i = Len(s) + 1
  BY <1>1
<1>5. In(a) = In(s) \cup {e}
  <2>1. In(a) \subseteq In(s) \cup {e}
    BY <1>2, <1>3, <1>4 DEF In
  <2>2. \A i \in 1 .. Len(s) : i \in 1 .. Len(a)
    BY <1>1
  <2>3. Len(s) + 1 \in 1 .. Len(a)
    BY <1>1
  <2>4. In(s) \cup {e} \subseteq In(a)
    BY <1>2, <1>3, <2>2, <2>3 DEF In
  <2> QED
    BY <2>1, <2>4
<1>6. ASSUME NoRepeats(s), e \notin In(s) PROVE NoRepeats(a)
  <2> SUFFICES ASSUME NEW i \in 1 .. Len(a), NEW j \in 1 .. Len(a), a[i] = a[j]
               PROVE  i = j
    BY DEF NoRepeats
  <2>1. \A k \in 1 .. Len(s) : s[k] # e
    BY <1>6 DEF In
  <2>2. CASE i \in 1 .. Len(s) /\ j \in 1 .. Len(s)
    BY <1>2, <1>6, <2>2 DEF NoRepeats
  <2> QED
    BY <1>2, <1>3, <1>4, <2>1, <2>2
<1> QED
  BY <1>1, <1>5, <1>6 DEF a

LEMMA InType == ASSUME NEW s \in Seq(Cells) PROVE In(s) \subseteq Cells
BY DEF In

LEMMA InElement ==
    ASSUME NEW s, NEW i \in 1 .. Len(s) PROVE s[i] \in In(s)
BY DEF In

LEMMA InEmpty == In(<<>>) = {} /\ NoRepeats(<<>>) /\ <<>> \in Seq(Cells) /\ Len(<<>>) = 0
BY DEF In, NoRepeats

LEMMA FreshIsNew ==
    ASSUME alloc \subseteq Cells, alloc # Cells
    PROVE  Fresh \in Cells /\ Fresh \notin alloc
BY DEF Fresh

LEMMA ThreadCellsHold ==
    ASSUME TypeOK PROVE \A t \in Threads : In(list[t]) \subseteq ThreadCells
BY InType DEF ThreadCells, TypeOK

LEMMA CellTypes ==
    ASSUME TypeOK
    PROVE  /\ data \in [Cells -> CellType]
           /\ \A s \in Sensors \cup {NoSensor} : Zero(s) \in CellType
BY DEF TypeOK, CellType, Zero

LEMMA Numbers ==
    /\ Unread \in Int /\ NoHigh \in Int /\ Temps \subseteq Int
    /\ 0 \in {0, 1}
BY TempsAssumption DEF Unread, NoHigh
-----------------------------------------------------------------------------
LEMMA InvInit == Init => Inv
<1> SUFFICES ASSUME Init PROVE Inv
  OBVIOUS
<1> USE InEmpty
<1>1. ThreadCells = {} /\ MainCells = {} /\ \A t \in Threads : list[t] = <<>>
  BY DEF Init, ThreadCells, MainCells, Ended
<1>2. TypeOK
  <2>1. data \in [Cells -> CellType]
    BY DEF Init, Blank, Zero, CellType
  <2>2. 0 \in 0 .. Len(tower_list) /\ 0 \in 0 .. MaxReadings /\ alloc \subseteq Cells
    BY BoundAssumption DEF Init
  <2>3. /\ tower_list \in Seq(Cells) /\ cpy \in Seq(Cells)
        /\ list \in [Threads -> Seq(Cells)] /\ service \in [Threads -> Kinds \cup {"metric"}]
        /\ thr \in [Threads -> {"idle", "convert", "send"}]
    BY DEF Init
  <2> QED
    BY <2>1, <2>2, <2>3 DEF Init, TypeOK, CellType
<1>3. OneOwner
  BY <1>1 DEF OneOwner, Init
<1>4. MessageUnits
  BY <1>1 DEF MessageUnits, Init
<1> QED
  BY <1>1, <1>2, <1>3, <1>4 DEF Inv, NoMisuse, Shape, Source, Init, Ended

\* What the invariant says of places and lists.
LEMMA Facts ==
    ASSUME Inv
    PROVE  /\ alloc \subseteq Cells
           /\ tower_list \in Seq(Cells) /\ cpy \in Seq(Cells)
           /\ list \in [Threads -> Seq(Cells)]
           /\ In(cpy) \subseteq alloc /\ MainCells \subseteq alloc
           /\ ThreadCells \subseteq alloc
           /\ \A t \in Threads : In(list[t]) \subseteq alloc /\ NoRepeats(list[t])
           /\ \A t, u \in Threads : t # u => In(list[t]) \cap In(list[u]) = {}
           /\ ThreadCells \cap (MainCells \cup In(cpy)) = {}
           /\ lost \subseteq alloc
           /\ lost \cap (MainCells \cup In(cpy) \cup ThreadCells) = {}
<1>1. TypeOK /\ OneOwner
  BY DEF Inv
<1>2. ThreadCells \subseteq alloc /\ In(cpy) \subseteq alloc /\ MainCells \subseteq alloc
  BY <1>1 DEF OneOwner
<1>3. \A t \in Threads : In(list[t]) \subseteq alloc
  BY <1>1, <1>2, ThreadCellsHold
<1>4. ThreadCells \cap (MainCells \cup In(cpy)) = {}
  BY <1>1 DEF ThreadCells, OneOwner
<1> QED
  BY <1>1, <1>2, <1>3, <1>4 DEF TypeOK, OneOwner

\* A step that moves no cell from one list to another.
LEMMA SameOwners ==
    ASSUME Inv, UNCHANGED <<alloc, tower_list, cpy, list, lost>>, Ended' <=> Ended
    PROVE  OneOwner' /\ ThreadCells' = ThreadCells /\ MainCells' = MainCells
<1>1. ThreadCells' = ThreadCells
  BY DEF ThreadCells
<1>2. MainCells' = MainCells
  BY DEF MainCells, Ended
<1> QED
  BY <1>1, <1>2 DEF Inv, OneOwner, Ended

\* ... and none to other units.
LEMMA SameUnits ==
    ASSUME Inv, UNCHANGED <<alloc, tower_list, cpy, list, thr, service, lost>>, Ended' <=> Ended,
           \A c \in Cells : data'[c].unit = data[c].unit
    PROVE  MessageUnits' /\ (walk > 0 /\ walk' > 0 => Source')
<1>1. ThreadCells' = ThreadCells /\ MainCells' = MainCells
  BY SameOwners
<1>2. MainCells \cup In(cpy) \subseteq Cells /\ tower_list \in Seq(Cells)
  BY Facts
<1>3. \A c \in MainCells \cup In(cpy) : data'[c].unit = 0
  BY <1>2 DEF Inv, MessageUnits
<1>4. MessageUnits'
  BY <1>1, <1>3 DEF Inv, MessageUnits
<1>5. \A i \in 1 .. Len(tower_list) : tower_list[i] \in Cells
  BY <1>2
<1>6. walk > 0 => Source'
  BY <1>1, <1>5 DEF Inv, Source
<1> QED
  BY <1>4, <1>6

\* The thread that copies or sends owns what it uses.
LEMMA MisuseStays ==
    ASSUME Inv, UNCHANGED <<misused, late>> PROVE NoMisuse'
BY DEF Inv, NoMisuse

-----------------------------------------------------------------------------
LEMMA InvKnown == ASSUME Inv, NEW s \in Sensors, KnownTower(s) PROVE Inv'
<1> USE DEF Inv
<1>1. TypeOK'
  BY DEF TypeOK, KnownTower, heapVars, pubVars, thrVars
<1>2. UNCHANGED <<alloc, data, tower_list, cpy, list, thr, service, lost, walk, pub, todo, misused, late>>
  BY DEF KnownTower, heapVars, pubVars, thrVars
<1>3. ~Ended /\ ~Ended' /\ cur' > 0
  BY DEF KnownTower, Ended, TypeOK
<1>4. OneOwner' /\ MessageUnits' /\ NoMisuse'
  BY <1>2, <1>3, SameOwners, SameUnits, MisuseStays
<1>5. Shape'
  BY <1>2, <1>3 DEF Shape, KnownTower
<1>6. Source'
  BY <1>2, <1>3, SameUnits DEF Source
<1> QED
  BY <1>1, <1>4, <1>5, <1>6

LEMMA InvTemperature == ASSUME Inv, NEW v \in Temps, Temperature(v) PROVE Inv'
<1> USE DEF Inv
<1>1. UNCHANGED <<alloc, tower_list, cpy, list, thr, service, lost, walk, pub, todo, misused, late, cur>>
  BY DEF Temperature, pubVars, thrVars
<1>2. ~Ended /\ ~Ended' /\ cur' > 0
  BY DEF Temperature, Ended, TypeOK, Shape
<1> DEFINE c == tower_list[cur]
<1>3. data' = [data EXCEPT ![c].temperature = v] /\ c \in Cells
  BY DEF Temperature, Shape, TypeOK
<1>4. data' \in [Cells -> CellType] /\ \A d \in Cells : data'[d].unit = data[d].unit
  <2> HIDE DEF c
  <2> QED
    BY <1>3, Numbers, CellTypes DEF CellType
<1>5. readings' \in 0 .. MaxReadings
  BY BoundAssumption DEF Temperature, TypeOK, Shape
<1>6. TypeOK'
  BY <1>1, <1>4, <1>5 DEF Temperature, TypeOK, CellType
<1>7. OneOwner' /\ MessageUnits' /\ NoMisuse'
  BY <1>1, <1>2, <1>4, SameOwners, SameUnits, MisuseStays
<1>8. Shape'
  BY <1>1, <1>2 DEF Shape, Temperature
<1>9. Source'
  BY <1>1, <1>2, <1>4, SameUnits DEF Source
<1> QED
  BY <1>6, <1>7, <1>8, <1>9

LEMMA InvHigh == ASSUME Inv, High PROVE Inv'
<1> USE DEF Inv
<1>1. UNCHANGED <<alloc, tower_list, cpy, list, thr, service, lost, walk, pub, todo, misused, late, readings>>
  BY DEF High, pubVars, thrVars
<1>2. ~Ended /\ ~Ended' /\ main' \in {"temperature", "read"}
  BY DEF High, ReadOn, Ended
<1>3. cur > 0 /\ cur' \in 0 .. Len(tower_list) /\ (main' = "temperature" => cur' > 0 /\ readings < MaxReadings)
  BY DEF High, ReadOn, Shape, TypeOK
<1> DEFINE c == tower_list[cur]
<1>4. data' = IF data[c].temperature > data[c].high
              THEN [data EXCEPT ![c].high = data[c].temperature] ELSE data
  BY DEF High
<1>5. c \in Cells
  BY <1>3 DEF TypeOK
<1>6. data[c].temperature \in Temps \cup {Unread} /\ data \in [Cells -> CellType]
  BY <1>5, CellTypes DEF CellType
<1>7. data' \in [Cells -> CellType] /\ \A d \in Cells : data'[d].unit = data[d].unit
  <2> HIDE DEF c
  <2> QED
    BY <1>4, <1>6 DEF CellType
<1>8. TypeOK'
  BY <1>1, <1>2, <1>3, <1>7 DEF TypeOK, CellType
<1>9. OneOwner' /\ MessageUnits' /\ NoMisuse'
  BY <1>1, <1>2, <1>7, SameOwners, SameUnits, MisuseStays
<1>10. Shape'
  BY <1>1, <1>2, <1>3 DEF Shape
<1>11. Source'
  BY <1>1, <1>2, <1>7, SameUnits DEF Source
<1> QED
  BY <1>8, <1>9, <1>10, <1>11

LEMMA InvNew == ASSUME Inv, NEW s \in Sensors, NewTower(s) PROVE Inv'
<1> USE DEF Inv
<1> DEFINE f == Fresh
           z == [Zero(s) EXCEPT !.high = NoHigh]
<1>1. /\ f \in Cells /\ f \notin alloc
      /\ alloc' = alloc \cup {f} /\ data' = [data EXCEPT ![f] = z]
      /\ tower_list' = Append(tower_list, f)
  BY FreshIsNew DEF NewTower, Malloc, TypeOK
<1>2. UNCHANGED <<cpy, list, thr, service, lost, walk, pub, todo, misused, late, readings>>
  BY DEF NewTower, pubVars, thrVars
<1>3. ~Ended /\ ~Ended' /\ main' = "temperature" /\ readings < MaxReadings
      /\ cur' = Len(tower_list')
  BY DEF NewTower, Ended
<1>4. z \in CellType /\ z.unit = 0
  BY DEF Zero, CellType
<1> HIDE DEF f, z
<1>5. data' \in [Cells -> CellType] /\ \A c \in Cells : c # f => data'[c] = data[c]
  BY <1>1, <1>4, CellTypes
<1>6. data'[f].unit = 0
  BY <1>1, <1>4, CellTypes
<1>7. /\ tower_list' \in Seq(Cells) /\ Len(tower_list') = Len(tower_list) + 1
      /\ In(tower_list') = In(tower_list) \cup {f}
      /\ NoRepeats(tower_list) /\ f \notin In(tower_list) => NoRepeats(tower_list')
  BY <1>1, Facts, InAppend
<1>8. /\ Len(tower_list) \in Nat /\ In(tower_list) \subseteq alloc /\ NoRepeats(tower_list)
  BY <1>3, Facts DEF OneOwner, MainCells
<1>9. TypeOK'
  <2>1. cur' \in 0 .. Len(tower_list') /\ walk' \in 0 .. Len(tower_list') /\ cur' > 0
    BY <1>2, <1>3, <1>7, <1>8 DEF TypeOK
  <2>2. alloc' \subseteq Cells
    BY <1>1 DEF TypeOK
  <2> QED
    BY <1>2, <1>3, <1>5, <1>7, <2>1, <2>2 DEF TypeOK, CellType
<1>10. ThreadCells' = ThreadCells /\ MainCells' = MainCells \cup {f}
  BY <1>2, <1>3, <1>7 DEF ThreadCells, MainCells
<1>11. f \notin ThreadCells /\ f \notin In(cpy) /\ \A t \in Threads : f \notin In(list[t])
  BY <1>1, Facts
<1>12. OneOwner'
  BY <1>1, <1>2, <1>3, <1>7, <1>8, <1>10, <1>11 DEF OneOwner, Ended
<1>13. MessageUnits'
  <2>1. \A c \in MainCells' \cup In(cpy') : data'[c].unit = 0
    BY <1>2, <1>5, <1>6, <1>10, Facts DEF MessageUnits
  <2>2. \A t \in Threads, c \in Cells : c \in In(list[t]) => data'[c] = data[c]
    BY <1>5, <1>11
  <2> QED
    BY <1>2, <2>1, <2>2 DEF MessageUnits
<1>14. Shape' /\ NoMisuse'
  BY <1>2, <1>3, <1>7, <1>8 DEF Shape, NoMisuse
<1>15. Source'
  <2> SUFFICES ASSUME walk > 0, NEW i \in 1 .. Len(tower_list')
               PROVE  data'[tower_list'[i]].unit = 0 /\ tower_list'[i] \notin ThreadCells
    BY <1>2, <1>10 DEF Source
  <2>1. tower_list'[i] \in In(tower_list')
    BY InElement
  <2>2. tower_list'[i] = f \/ tower_list'[i] \in In(tower_list)
    BY <2>1, <1>7
  <2>3. CASE tower_list'[i] = f
    BY <2>3, <1>6, <1>11
  <2>4. CASE tower_list'[i] # f
    <3>1. PICK j \in 1 .. Len(tower_list) : tower_list'[i] = tower_list[j]
      BY <2>2, <2>4 DEF In
    <3>2. data[tower_list[j]].unit = 0 /\ tower_list[j] \notin ThreadCells
      BY DEF Source
    <3>3. tower_list[j] \in Cells
      BY DEF TypeOK
    <3> QED
      BY <2>4, <3>1, <3>2, <3>3, <1>5
  <2> QED
    BY <2>3, <2>4
<1> QED
  BY <1>9, <1>12, <1>13, <1>14, <1>15

LEMMA InvCopySensor == ASSUME Inv, CopySensor PROVE Inv'
<1> USE DEF Inv
<1> DEFINE f == Fresh
           d == data[tower_list[walk]]
           z == [Zero(d.id) EXCEPT !.unit = d.unit]
<1>1. /\ f \in Cells /\ f \notin alloc
      /\ alloc' = alloc \cup {f} /\ data' = [data EXCEPT ![f] = z]
      /\ cpy' = Append(cpy, f)
  BY FreshIsNew DEF CopySensor, Malloc, TypeOK
<1>2. UNCHANGED <<tower_list, main, cur, late, list, thr, service, lost, walk, pub, readings>>
  BY DEF CopySensor, mainVars, thrVars
<1>3. /\ pub = "copy" /\ walk > 0 /\ todo' = Fields
      /\ misused' = (misused \/ tower_list[walk] \notin alloc)
  BY DEF CopySensor
<1>4. walk \in 1 .. Len(tower_list) /\ tower_list[walk] \in Cells /\ d \in CellType /\ d.unit = 0
  <2>1. walk \in 1 .. Len(tower_list) /\ tower_list[walk] \in Cells
    BY <1>3 DEF TypeOK
  <2>2. data[tower_list[walk]] \in CellType
    BY <2>1, CellTypes
  <2> QED
    BY <1>3, <2>1, <2>2 DEF Source
<1>5. z \in CellType /\ z.unit = 0
  BY <1>4 DEF Zero, CellType
<1> HIDE DEF f, z, d
<1>6. data' \in [Cells -> CellType] /\ \A c \in Cells : c # f => data'[c] = data[c]
  BY <1>1, <1>5, CellTypes
<1>7. data'[f].unit = 0
  BY <1>1, <1>5, CellTypes
<1>8. /\ cpy' \in Seq(Cells) /\ Len(cpy') = Len(cpy) + 1 /\ Len(cpy) \in Nat
      /\ In(cpy') = In(cpy) \cup {f}
      /\ NoRepeats(cpy')
  <2>1. f \notin In(cpy) /\ NoRepeats(cpy) /\ cpy \in Seq(Cells)
    BY <1>1, Facts DEF OneOwner
  <2> QED
    BY <1>1, <2>1, InAppend
<1>9. ThreadCells' = ThreadCells /\ MainCells' = MainCells /\ (Ended' <=> Ended)
  BY <1>2 DEF ThreadCells, MainCells, Ended
<1>10. f \notin ThreadCells /\ f \notin MainCells /\ \A t \in Threads : f \notin In(list[t])
  BY <1>1, Facts
<1>11. misused' \in BOOLEAN /\ NoMisuse'
  <2>1. Ended => late
    BY <1>3 DEF Shape
  <2>2. ~Ended => tower_list[walk] \in alloc
    BY <1>4, Facts, InElement DEF MainCells
  <2> QED
    BY <1>2, <1>3, <2>1, <2>2 DEF NoMisuse, TypeOK
<1>12. TypeOK'
  <2>1. alloc' \subseteq Cells
    BY <1>1 DEF TypeOK
  <2> QED
    BY <1>2, <1>3, <1>6, <1>8, <1>11, <2>1 DEF TypeOK, CellType
<1>13. OneOwner'
  BY <1>1, <1>2, <1>8, <1>9, <1>10 DEF OneOwner
<1>14. MessageUnits'
  <2>1. \A c \in MainCells' \cup In(cpy') : data'[c].unit = 0
    BY <1>6, <1>7, <1>8, <1>9, Facts DEF MessageUnits
  <2>2. \A t \in Threads, c \in Cells : c \in In(list[t]) => data'[c] = data[c]
    BY <1>6, <1>10
  <2> QED
    BY <1>2, <2>1, <2>2 DEF MessageUnits
<1>15. Shape'
  BY <1>2, <1>3, <1>8, <1>9 DEF Shape
<1>16. Source'
  <2> SUFFICES ASSUME NEW i \in 1 .. Len(tower_list)
               PROVE  data'[tower_list[i]].unit = 0 /\ tower_list[i] \notin ThreadCells
    BY <1>2, <1>9 DEF Source
  <2>1. tower_list[i] \in Cells /\ data[tower_list[i]].unit = 0 /\ tower_list[i] \notin ThreadCells
    BY <1>3 DEF Source, TypeOK
  <2> QED
    BY <2>1, <1>6, <1>7
<1> QED
  BY <1>11, <1>12, <1>13, <1>14, <1>15, <1>16

LEMMA InvCopyField == ASSUME Inv, NEW g \in Fields, CopyField(g) PROVE Inv'
<1> USE DEF Inv
<1> DEFINE f == cpy[Len(cpy)]
           d == data[tower_list[walk]]
<1>1. /\ data' = [data EXCEPT ![f][g] = d[g]]
      /\ todo' = todo \ {g} /\ g \in todo
      /\ walk' = IF todo' = {} THEN walk - 1 ELSE walk
      /\ misused' = (misused \/ tower_list[walk] \notin alloc)
  BY DEF CopyField
<1>2. UNCHANGED <<alloc, tower_list, main, cur, late, readings, pub, cpy, list, thr, service, lost>>
  BY DEF CopyField, mainVars, thrVars
<1>3. walk > 0 /\ pub = "copy" /\ Len(cpy) > 0
  BY <1>1 DEF Shape
<1>4. walk \in 1 .. Len(tower_list) /\ tower_list[walk] \in Cells /\ f \in Cells
  BY <1>3 DEF TypeOK
<1>5. d \in CellType /\ data \in [Cells -> CellType]
  BY <1>4, CellTypes
<1> HIDE DEF f, d
<1>6. data' \in [Cells -> CellType] /\ \A c \in Cells : data'[c].unit = data[c].unit
  <2>1. CASE g = "temperature"
    <3>1. data' = [data EXCEPT ![f].temperature = d.temperature]
      BY <1>1, <2>1
    <3> QED
      BY <3>1, <1>4, <1>5 DEF CellType
  <2>2. CASE g = "high"
    <3>1. data' = [data EXCEPT ![f].high = d.high]
      BY <1>1, <2>2
    <3> QED
      BY <3>1, <1>4, <1>5 DEF CellType
  <2> QED
    BY <2>1, <2>2 DEF Fields
<1>7. Ended' <=> Ended
  BY <1>2 DEF Ended
<1>8. misused' \in BOOLEAN /\ NoMisuse'
  <2>1. Ended => late
    BY <1>3 DEF Shape
  <2>2. ~Ended => tower_list[walk] \in alloc
    BY <1>4, Facts, InElement DEF MainCells
  <2> QED
    BY <1>1, <1>2, <2>1, <2>2 DEF NoMisuse, TypeOK
<1>9. walk' \in 0 .. Len(tower_list) /\ todo' \subseteq Fields /\ (todo' # {} => walk' > 0)
      /\ Len(tower_list) \in Nat
  BY <1>1, <1>3 DEF TypeOK
<1>10. TypeOK'
  BY <1>2, <1>6, <1>8, <1>9 DEF TypeOK, CellType
<1>11. OneOwner' /\ MessageUnits' /\ Source'
  BY <1>2, <1>3, <1>6, <1>7, SameOwners, SameUnits DEF Source
<1>12. Shape'
  BY <1>2, <1>3, <1>7, <1>9 DEF Shape
<1> QED
  BY <1>8, <1>10, <1>11, <1>12

\* Signalled, WaitAgain and CopyStart touch no cell.
LEMMA InvPublish == ASSUME Inv, Signalled \/ WaitAgain \/ CopyStart PROVE Inv'
<1> USE DEF Inv
<1>1. /\ UNCHANGED <<alloc, data, tower_list, main, cur, late, readings, cpy, todo, list, thr,
                     service, lost, misused>>
      /\ pub \in {"wait", "next"} /\ walk = 0 /\ todo = {}
  BY DEF Signalled, WaitAgain, CopyStart, heapVars, mainVars, thrVars, Shape, TypeOK
<1>2. Ended' <=> Ended
  BY <1>1 DEF Ended
<1>3. /\ pub' \in {"wait", "next", "copy"} /\ walk' \in 0 .. Len(tower_list)
      /\ walk' > 0 => pub' = "copy" /\ ~Ended
      /\ Ended /\ ~late => pub' = "wait"
  BY DEF Signalled, WaitAgain, CopyStart, Shape, TypeOK
<1>4. TypeOK'
  BY <1>1, <1>3 DEF TypeOK
<1>5. OneOwner' /\ MessageUnits' /\ NoMisuse'
  BY <1>1, <1>2, SameOwners, SameUnits, MisuseStays
<1>6. Shape'
  BY <1>1, <1>2, <1>3 DEF Shape
<1>7. Source'
  <2> SUFFICES ASSUME ~Ended, NEW i \in 1 .. Len(tower_list)
               PROVE  data[tower_list[i]].unit = 0 /\ tower_list[i] \notin ThreadCells
    BY <1>1, <1>3, SameOwners, <1>2 DEF Source
  <2>1. tower_list[i] \in MainCells
    BY InElement DEF MainCells
  <2> QED
    BY <2>1, Facts DEF MessageUnits
<1> QED
  BY <1>4, <1>5, <1>6, <1>7

LEMMA InvCreate ==
    ASSUME Inv, NEW t \in Threads, NEW kind \in Kinds, Create(t, kind)
    PROVE  Inv'
<1> USE DEF Inv
<1>1. /\ UNCHANGED <<alloc, data, tower_list, main, cur, late, readings, walk, todo, misused>>
      /\ pub = "copy" /\ todo = {} /\ walk = 0 /\ pub' = "next" /\ thr[t] = "idle"
      /\ thr' = [thr EXCEPT ![t] = "convert"] /\ list' = [list EXCEPT ![t] = cpy]
      /\ service' = [service EXCEPT ![t] = kind] /\ cpy' = <<>> /\ UNCHANGED lost
  BY DEF Create, Copied, heapVars, mainVars
<1>2. (Ended' <=> Ended) /\ MainCells' = MainCells /\ In(cpy') = {} /\ NoRepeats(cpy')
  BY <1>1, InEmpty DEF Ended, MainCells
<1>3. /\ list'[t] = cpy /\ \A u \in Threads \ {t} : list'[u] = list[u]
      /\ thr'[t] = "convert" /\ \A u \in Threads \ {t} : thr'[u] = thr[u]
      /\ \A u \in Threads \ {t} : service'[u] = service[u]
  BY <1>1 DEF TypeOK
<1>4. list[t] = <<>> /\ In(list[t]) = {}
  BY <1>1, InEmpty DEF Shape
<1>5. ThreadCells' = ThreadCells \cup In(cpy)
  <2>1. \A c \in Cells : (\E u \in Threads : c \in In(list'[u])) <=>
                         (c \in In(cpy) \/ \E u \in Threads : c \in In(list[u]))
    BY <1>3, <1>4
  <2> QED
    BY <2>1, InType, Facts DEF ThreadCells
<1>6. TypeOK'
  <2>1. list' \in [Threads -> Seq(Cells)] /\ cpy' \in Seq(Cells)
    BY <1>1, InEmpty DEF TypeOK
  <2>2. /\ thr' \in [Threads -> {"idle", "convert", "send"}]
        /\ service' \in [Threads -> Kinds \cup {"metric"}] /\ lost' \subseteq Cells
    BY <1>1 DEF TypeOK
  <2> QED
    BY <1>1, <2>1, <2>2 DEF TypeOK
<1>7. OneOwner'
  <2>1. /\ alloc' = MainCells' \cup In(cpy') \cup ThreadCells' \cup lost'
        /\ lost' \cap (MainCells' \cup In(cpy') \cup ThreadCells') = {}
    BY <1>1, <1>2, <1>5 DEF OneOwner
  <2>2. In(cpy) \cap MainCells = {} /\ NoRepeats(cpy)
        /\ \A u \in Threads : In(list[u]) \cap In(cpy) = {}
    BY DEF OneOwner
  <2>3. ASSUME NEW u \in Threads
        PROVE  /\ In(list'[u]) \cap (MainCells' \cup In(cpy')) = {}
               /\ \A v \in Threads \ {u} : In(list'[u]) \cap In(list'[v]) = {}
               /\ NoRepeats(list'[u])
    BY <1>2, <1>3, <2>2 DEF OneOwner
  <2> QED
    BY <1>1, <1>2, <2>1, <2>3 DEF OneOwner
<1>8. MessageUnits'
  <2>1. \A c \in MainCells' \cup In(cpy') : data'[c].unit = 0
    BY <1>1, <1>2 DEF MessageUnits
  <2>2. \A c \in Cells : c \in In(cpy) => data[c].unit = 0
    BY DEF MessageUnits
  <2> QED
    BY <1>1, <1>3, <2>1, <2>2 DEF MessageUnits
<1>9. Shape' /\ NoMisuse' /\ Source'
  <2>1. Shape'
    BY <1>1, <1>2, <1>3 DEF Shape
  <2>2. NoMisuse' /\ Source'
    BY <1>1 DEF NoMisuse, Source
  <2> QED
    BY <2>1, <2>2
<1> QED
  BY <1>6, <1>7, <1>8, <1>9

LEMMA AfterFree ==
    ASSUME Inv, NEW q \in Seq(Cells), Free(q)
    PROVE  /\ data' \in [Cells -> CellType] /\ alloc' = alloc \ In(q) /\ alloc' \subseteq Cells
           /\ \A c \in Cells : c \notin In(q) => data'[c] = data[c]
           /\ \A c \in Cells : data[c].unit = 0 => data'[c].unit = 0
           /\ In(q) \subseteq alloc /\ NoRepeats(q) => misused' = misused
           /\ misused' \in BOOLEAN
<1>1. TypeOK /\ data \in [Cells -> CellType] /\ Blank \in CellType /\ Blank.unit = 0
  BY CellTypes DEF Inv, Blank, Zero
<1>2. /\ alloc' = alloc \ In(q)
      /\ data' = [c \in Cells |-> IF c \in In(q) THEN Blank ELSE data[c]]
      /\ misused' = (misused \/ ~(In(q) \subseteq alloc) \/ ~NoRepeats(q))
  BY DEF Free
<1>3. data' \in [Cells -> CellType] /\ \A c \in Cells : c \notin In(q) => data'[c] = data[c]
  BY <1>1, <1>2
<1>4. \A c \in Cells : data[c].unit = 0 => data'[c].unit = 0
  BY <1>1, <1>2
<1>5. alloc' \subseteq Cells
  BY <1>1, <1>2 DEF TypeOK
<1>6. In(q) \subseteq alloc /\ NoRepeats(q) => misused' = misused
  BY <1>1, <1>2 DEF TypeOK
<1>7. misused' \in BOOLEAN
  BY <1>2
<1> QED
  BY <1>2, <1>3, <1>4, <1>5, <1>6, <1>7

LEMMA InvCreateFails == ASSUME Inv, CreateFails PROVE Inv'
<1> USE DEF Inv
<1>1. /\ UNCHANGED <<tower_list, main, cur, late, readings, walk, todo, list, thr, service, lost>>
      /\ pub = "copy" /\ todo = {} /\ walk = 0 /\ pub' = "next" /\ cpy' = <<>> /\ Free(cpy)
  BY DEF CreateFails, Copied, mainVars, thrVars
<1>2. cpy \in Seq(Cells) /\ In(cpy) \subseteq alloc /\ NoRepeats(cpy)
  BY Facts DEF OneOwner
<1>3. /\ data' \in [Cells -> CellType] /\ alloc' = alloc \ In(cpy) /\ alloc' \subseteq Cells
      /\ \A c \in Cells : c \notin In(cpy) => data'[c] = data[c]
      /\ misused' = misused
  BY <1>1, <1>2, AfterFree
<1>4. /\ (Ended' <=> Ended) /\ MainCells' = MainCells /\ ThreadCells' = ThreadCells
      /\ In(cpy') = {} /\ NoRepeats(cpy') /\ cpy' \in Seq(Cells)
  BY <1>1, InEmpty DEF Ended, MainCells, ThreadCells
<1>5. TypeOK'
  BY <1>1, <1>3, <1>4 DEF TypeOK, CellType
<1>6. OneOwner'
  <2>1. In(cpy) \cap MainCells = {} /\ In(cpy) \cap ThreadCells = {}
    BY Facts DEF OneOwner
  <2> QED
    BY <1>1, <1>3, <1>4, <2>1 DEF OneOwner
<1>7. MessageUnits'
  <2>1. \A c \in MainCells : c \in Cells /\ c \notin In(cpy) /\ data[c].unit = 0
    BY Facts DEF OneOwner, MessageUnits
  <2>2. \A t \in Threads, c \in Cells : c \in In(list[t]) => c \notin In(cpy)
    BY DEF OneOwner
  <2> QED
    BY <1>1, <1>3, <1>4, <2>1, <2>2 DEF MessageUnits
<1>8. Shape' /\ NoMisuse' /\ Source'
  BY <1>1, <1>3, <1>4 DEF Shape, NoMisuse, Source
<1> QED
  BY <1>5, <1>6, <1>7, <1>8

LEMMA InvShutdown == ASSUME Inv, Shutdown PROVE Inv'
<1> USE DEF Inv
<1>1. /\ UNCHANGED <<tower_list, cur, readings, pub, cpy, walk, todo, list, thr, service, lost>>
      /\ main = "read" /\ main' = "ended" /\ late' = (pub # "wait") /\ Free(tower_list)
  BY DEF Shutdown, pubVars, thrVars
<1>2. ~Ended /\ Ended' /\ MainCells = In(tower_list) /\ MainCells' = {}
      /\ ThreadCells' = ThreadCells
  BY <1>1 DEF Ended, MainCells, ThreadCells
<1>3. tower_list \in Seq(Cells) /\ In(tower_list) \subseteq alloc /\ NoRepeats(tower_list)
  BY <1>2, Facts DEF OneOwner
<1>4. /\ data' \in [Cells -> CellType] /\ alloc' = alloc \ In(tower_list) /\ alloc' \subseteq Cells
      /\ \A c \in Cells : c \notin In(tower_list) => data'[c] = data[c]
      /\ \A c \in Cells : data[c].unit = 0 => data'[c].unit = 0
      /\ misused' = misused
  BY <1>1, <1>3, AfterFree
<1>5. TypeOK'
  BY <1>1, <1>4 DEF TypeOK, CellType
<1>6. In(cpy) \cap MainCells = {} /\ ThreadCells \cap MainCells = {}
      /\ \A t \in Threads : In(list[t]) \cap MainCells = {}
  BY Facts DEF OneOwner
<1>7. OneOwner'
  BY <1>1, <1>2, <1>4, <1>6 DEF OneOwner
<1>8. MessageUnits'
  <2>1. \A c \in In(cpy) : c \in Cells /\ data'[c].unit = 0
    BY <1>4, Facts DEF MessageUnits
  <2>2. \A t \in Threads, c \in Cells : c \in In(list[t]) => data'[c] = data[c]
    BY <1>2, <1>4, <1>6
  <2> QED
    BY <1>1, <1>2, <2>1, <2>2 DEF MessageUnits
<1>9. NoMisuse'
  <2>1. ~late => ~misused
    BY DEF NoMisuse
  <2>2. late => Ended
    BY DEF Shape
  <2> QED
    BY <1>2, <1>4, <2>1, <2>2 DEF NoMisuse
<1>10. Shape'
  BY <1>1, <1>2 DEF Shape
<1>11. Source'
  <2>1. \A i \in 1 .. Len(tower_list) : tower_list[i] \in Cells
    BY <1>3
  <2> QED
    BY <1>1, <1>2, <1>4, <2>1 DEF Source
<1> QED
  BY <1>5, <1>7, <1>8, <1>9, <1>10, <1>11

LEMMA InvUpdate == ASSUME Inv, NEW t \in Threads, Update(t) PROVE Inv'
<1> USE DEF Inv
<1>1. /\ UNCHANGED <<alloc, tower_list, main, cur, late, readings, pub, cpy, walk, todo, list,
                   service, lost>>
      /\ thr[t] = "convert" /\ thr' = [thr EXCEPT ![t] = "send"]
      /\ (service[t] = "metric" /\ UNCHANGED data) \/ (service[t] # "metric" /\ Converted(list[t]))
      /\ misused' = (misused \/ ~(In(list[t]) \subseteq alloc))
  BY DEF Update, mainVars, pubVars
<1>2. (Ended' <=> Ended) /\ OneOwner' /\ ThreadCells' = ThreadCells /\ MainCells' = MainCells
  BY <1>1, SameOwners DEF Ended
<1>3. misused' = misused
  BY <1>1, Facts DEF TypeOK
<1>4. In(list[t]) \subseteq ThreadCells /\ \A c \in In(list[t]) : c \in Cells /\ data[c].unit = 0
  BY <1>1, ThreadCellsHold, InType DEF MessageUnits, TypeOK
<1>5. /\ data' \in [Cells -> CellType]
      /\ \A c \in Cells : c \notin In(list[t]) => data'[c] = data[c]
      /\ \A c \in In(list[t]) : data'[c].unit = IF service[t] = "metric" THEN 0 ELSE 1
  <2>1. CASE service[t] = "metric" /\ UNCHANGED data
    BY <2>1, <1>4, CellTypes
  <2>2. CASE service[t] # "metric" /\ Converted(list[t])
    <3>1. data' = [c \in Cells |-> IF c \in In(list[t])
                                   THEN [data[c] EXCEPT !.unit = @ + 1] ELSE data[c]]
      BY <2>2 DEF Converted
    <3>2. data \in [Cells -> CellType]
      BY CellTypes
    <3>3. \A c \in In(list[t]) : [data[c] EXCEPT !.unit = @ + 1] \in CellType
                                 /\ [data[c] EXCEPT !.unit = @ + 1].unit = 1
      BY <1>4, <3>2 DEF CellType
    <3> QED
      BY <2>2, <1>4, <3>1, <3>2, <3>3
  <2> QED
    BY <1>1, <2>1, <2>2
<1>6. /\ thr' \in [Threads -> {"idle", "convert", "send"}] /\ thr'[t] = "send"
      /\ \A u \in Threads \ {t} : thr'[u] = thr[u]
  BY <1>1 DEF TypeOK
<1>7. TypeOK'
  BY <1>1, <1>3, <1>5, <1>6 DEF TypeOK, CellType
<1>8. MessageUnits'
  <2>1. \A c \in MainCells \cup In(cpy) : c \in Cells /\ c \notin In(list[t]) /\ data[c].unit = 0
    BY <1>4, Facts DEF MessageUnits
  <2>2. ASSUME NEW u \in Threads, NEW c \in Cells, c \in In(list[u])
        PROVE  data'[c].unit = IF thr'[u] = "send" /\ service[u] # "metric" THEN 1 ELSE 0
    <3>1. CASE u = t
      BY <2>2, <3>1, <1>5, <1>6
    <3>2. CASE u # t
      <4>1. c \notin In(list[t])
        BY <2>2, <3>2, Facts
      <4> QED
        BY <2>2, <3>2, <4>1, <1>5, <1>6 DEF MessageUnits
    <3> QED
      BY <3>1, <3>2
  <2> QED
    BY <1>1, <1>2, <1>5, <2>1, <2>2 DEF MessageUnits
<1>9. NoMisuse' /\ Shape'
  BY <1>1, <1>2, <1>3, <1>6 DEF NoMisuse, Shape
<1>10. Source'
  <2> SUFFICES ASSUME walk > 0, NEW i \in 1 .. Len(tower_list)
               PROVE  data'[tower_list[i]].unit = 0 /\ tower_list[i] \notin ThreadCells
    BY <1>1, <1>2 DEF Source
  <2>1. tower_list[i] \in Cells /\ data[tower_list[i]].unit = 0 /\ tower_list[i] \notin ThreadCells
    BY DEF Source, TypeOK
  <2> QED
    BY <2>1, <1>4, <1>5
<1> QED
  BY <1>2, <1>7, <1>8, <1>9, <1>10

\* A thread that is gone has freed the cells of its copy, or lost them.
LEMMA InvGone ==
    ASSUME Inv, NEW t \in Threads, Gone(t), UNCHANGED misused,
           data' \in [Cells -> CellType],
           \A c \in Cells : c \notin In(list[t]) => data'[c] = data[c],
           \/ alloc' = alloc \ In(list[t]) /\ lost' = lost
           \/ alloc' = alloc /\ lost' = lost \cup In(list[t])
    PROVE  Inv'
<1> USE DEF Inv
<1>1. /\ UNCHANGED <<tower_list, main, cur, late, readings, pub, cpy, walk, todo>>
      /\ list' = [list EXCEPT ![t] = <<>>]
      /\ service' = [service EXCEPT ![t] = "metric"] /\ thr' = [thr EXCEPT ![t] = "idle"]
  BY DEF Gone, mainVars, pubVars
<1>2. list[t] \in Seq(Cells) /\ In(list[t]) \subseteq alloc /\ NoRepeats(list[t])
  BY Facts
<1>3. /\ data' \in [Cells -> CellType] /\ alloc' \subseteq Cells /\ lost' \subseteq Cells
      /\ \A c \in Cells : c \notin In(list[t]) => data'[c] = data[c]
      /\ misused' = misused
  BY <1>2 DEF TypeOK
<1>4. /\ list' \in [Threads -> Seq(Cells)] /\ list'[t] = <<>> /\ thr'[t] = "idle"
      /\ \A u \in Threads \ {t} : list'[u] = list[u] /\ thr'[u] = thr[u] /\ service'[u] = service[u]
      /\ thr' \in [Threads -> {"idle", "convert", "send"}]
      /\ service' \in [Threads -> Kinds \cup {"metric"}]
  BY <1>1, InEmpty DEF TypeOK
<1>5. In(list'[t]) = {} /\ NoRepeats(list'[t])
  BY <1>4, InEmpty
<1>6. (Ended' <=> Ended) /\ MainCells' = MainCells
  BY <1>1 DEF Ended, MainCells
<1>7. ThreadCells' = ThreadCells \ In(list[t])
  <2>1. \A c \in Cells : (\E u \in Threads : c \in In(list'[u])) <=>
                         (c \notin In(list[t]) /\ \E u \in Threads : c \in In(list[u]))
    BY <1>4, <1>5, Facts
  <2> QED
    BY <2>1 DEF ThreadCells
<1>8. In(list[t]) \cap (MainCells \cup In(cpy)) = {} /\ In(list[t]) \subseteq ThreadCells
  BY ThreadCellsHold DEF OneOwner
<1>9. TypeOK'
  BY <1>1, <1>3, <1>4 DEF TypeOK, CellType
<1>10. OneOwner'
  <2>1. /\ alloc' = MainCells' \cup In(cpy') \cup ThreadCells' \cup lost'
        /\ lost' \cap (MainCells' \cup In(cpy') \cup ThreadCells') = {}
    BY <1>1, <1>6, <1>7, <1>8, Facts DEF OneOwner
  <2>2. ASSUME NEW u \in Threads
        PROVE  /\ In(list'[u]) \cap (MainCells' \cup In(cpy')) = {}
               /\ \A v \in Threads \ {u} : In(list'[u]) \cap In(list'[v]) = {}
               /\ NoRepeats(list'[u])
    BY <1>1, <1>4, <1>5, <1>6 DEF OneOwner
  <2> QED
    BY <1>1, <1>6, <2>1, <2>2 DEF OneOwner
<1>11. MessageUnits'
  <2>1. \A c \in MainCells \cup In(cpy) : c \in Cells /\ c \notin In(list[t]) /\ data[c].unit = 0
    BY <1>8, Facts DEF MessageUnits
  <2>2. ASSUME NEW u \in Threads, NEW c \in Cells, c \in In(list'[u])
        PROVE  data'[c].unit = IF thr'[u] = "send" /\ service'[u] # "metric" THEN 1 ELSE 0
    <3>1. u # t /\ c \in In(list[u])
      BY <2>2, <1>4, <1>5
    <3>2. c \notin In(list[t])
      BY <3>1, Facts
    <3>3. data[c].unit = IF thr[u] = "send" /\ service[u] # "metric" THEN 1 ELSE 0
      BY <3>1 DEF MessageUnits
    <3>4. data'[c] = data[c] /\ thr'[u] = thr[u] /\ service'[u] = service[u]
      BY <3>1, <3>2, <1>3, <1>4
    <3> QED
      BY <3>3, <3>4
  <2> QED
    BY <1>1, <1>3, <1>6, <2>1, <2>2 DEF MessageUnits
<1>12. NoMisuse' /\ Shape'
  BY <1>1, <1>3, <1>4, <1>6 DEF NoMisuse, Shape
<1>13. Source'
  <2> SUFFICES ASSUME walk > 0, NEW i \in 1 .. Len(tower_list)
               PROVE  data'[tower_list[i]].unit = 0 /\ tower_list[i] \notin ThreadCells
    BY <1>1, <1>7 DEF Source
  <2>1. tower_list[i] \in Cells /\ data[tower_list[i]].unit = 0 /\ tower_list[i] \notin ThreadCells
    BY DEF Source, TypeOK
  <2> QED
    BY <2>1, <1>3, ThreadCellsHold
<1> QED
  BY <1>9, <1>10, <1>11, <1>12, <1>13

LEMMA InvFinish == ASSUME Inv, NEW t \in Threads, Finish(t) PROVE Inv'
<1>1. list[t] \in Seq(Cells) /\ In(list[t]) \subseteq alloc /\ NoRepeats(list[t])
  BY Facts
<1>2. Free(list[t]) /\ Gone(t) /\ lost' = lost
  BY DEF Finish
<1>3. /\ data' \in [Cells -> CellType] /\ alloc' = alloc \ In(list[t])
      /\ \A c \in Cells : c \notin In(list[t]) => data'[c] = data[c]
      /\ misused' = misused
  BY <1>1, <1>2, AfterFree
<1> QED
  BY <1>2, <1>3, InvGone

LEMMA InvExit == ASSUME Inv, NEW t \in Threads, Exit(t) PROVE Inv'
<1>1. /\ Gone(t) /\ UNCHANGED misused
      /\ alloc' = alloc /\ lost' = lost \cup In(list[t])
      /\ data' = [c \in Cells |-> IF c \in In(list[t]) THEN Blank ELSE data[c]]
  BY DEF Exit
<1>2. data \in [Cells -> CellType] /\ Blank \in CellType
  BY CellTypes DEF Inv, Blank
<1>3. /\ data' \in [Cells -> CellType]
      /\ \A c \in Cells : c \notin In(list[t]) => data'[c] = data[c]
  BY <1>1, <1>2
<1> QED
  BY <1>1, <1>3, InvGone

LEMMA InvStep == Inv /\ [Next]_vars => Inv'
<1> SUFFICES ASSUME Inv, [Next]_vars PROVE Inv'
  OBVIOUS
<1>1. CASE MainNext
  BY <1>1, InvNew, InvKnown, InvTemperature, InvHigh, InvShutdown DEF MainNext
<1>2. CASE PubNext
  BY <1>2, InvPublish, InvCopySensor, InvCopyField, InvCreate, InvCreateFails DEF PubNext
<1>3. ASSUME NEW t \in Threads, ThreadNext(t) PROVE Inv'
  BY <1>3, InvUpdate, InvFinish, InvExit DEF ThreadNext
<1>4. CASE UNCHANGED vars
  <2>1. UNCHANGED <<alloc, data, tower_list, main, cur, readings, late, pub, cpy, walk, todo,
                    thr, list, service, lost, misused>>
    BY <1>4 DEF vars, heapVars, mainVars, pubVars, thrVars
  <2>2. (Ended' <=> Ended) /\ TypeOK' /\ NoMisuse' /\ Shape'
    BY <2>1 DEF Ended, Inv, TypeOK, NoMisuse, Shape
  <2>3. OneOwner' /\ MessageUnits' /\ Source'
    BY <2>1, <2>2, SameOwners, SameUnits DEF Source
  <2> QED
    BY <2>2, <2>3 DEF Inv
<1> QED
  BY <1>1, <1>2, <1>3, <1>4 DEF Next

LEMMA InvAlways == Spec => []Inv
BY InvInit, InvStep, PTL DEF Spec
-----------------------------------------------------------------------------
(***************************************************************************)
(* What copies hold.                                                       *)
(***************************************************************************)

\* What copies are about: all of a cell but its unit.
Alike(d, e) == d.id = e.id /\ d.temperature = e.temperature /\ d.high = e.high

\* The sensor that is being parsed, and the one whose high is still to be
\* compared with its temperature; 0 = none.
Parsed  == IF main \in {"temperature", "high"} THEN cur ELSE 0
Raising == IF main = "high" THEN cur ELSE 0

\* Fields of the sensor at place j of a copy that are not copied yet.
Pending(seq, j, rest) == IF j = Len(seq) THEN rest ELSE {}

\* Cell d was copied from w, but for rest; w is the sensor being raised or not.
Follows(d, w, raised, rest) ==
    /\ d.id = w.id
    /\ "high" \in rest \/ d.high <= w.high
    /\ \/ "temperature" \in rest \/ d.temperature = Unread \/ d.temperature <= w.high
       \/ raised /\ d.temperature = w.temperature

\* A sensor has had a reading, as far as it is copied.
WasRead(d, rest) ==
    /\ "temperature" \in rest \/ d.temperature # Unread
    /\ "high" \in rest \/ d.high # NoHigh

\* seq is a copy of the first n sensors of list l, of which h is being raised.
CopyOf(mem, l, h, seq, n, rest) ==
    /\ n <= Len(l) /\ Len(seq) <= n
    /\ \A j \in 1 .. Len(seq) :
           Follows(mem[seq[j]], mem[l[n + 1 - j]], h = n + 1 - j, Pending(seq, j, rest))

AllRead(mem, seq, rest) ==
    \A j \in 2 .. Len(seq) : WasRead(mem[seq[j]], Pending(seq, j, rest))

\* The place in the list of the first sensor of the copy being made.
From == Len(cpy) + walk - (IF todo = {} THEN 0 ELSE 1)

\* The sensor at place i: the only one of its name, read unless it is the newest
\* and being parsed, and not above its high unless that is being raised.
Sound(mem, l, p, h, i) ==
    /\ \A k \in 1 .. Len(l) : mem[l[k]].id = mem[l[i]].id => k = i
    /\ WasRead(mem[l[i]], {}) \/ (i = Len(l) /\ p = i)
    /\ \/ mem[l[i]].temperature = Unread \/ mem[l[i]].temperature <= mem[l[i]].high
       \/ h = i
    /\ h = i => mem[l[i]].temperature # Unread

Master == ~Ended => \A i \in 1 .. Len(tower_list) : Sound(data, tower_list, Parsed, Raising, i)

Making ==
    /\ pub # "copy" => cpy = <<>>
    /\ ~Ended /\ pub = "copy" => CopyOf(data, tower_list, Raising, cpy, From, todo)
    /\ ~late => AllRead(data, cpy, todo)

Made ==
    /\ ~Ended => \A t \in Threads :
                     CopyOf(data, tower_list, Raising, list[t], Len(list[t]), {})
    /\ ~late => \A t \in Threads : AllRead(data, list[t], {})

Contents == Master /\ Making /\ Made
-----------------------------------------------------------------------------
\* A list that only gets longer and whose highs are only raised still covers
\* its copies.
LEMMA CopyKept ==
    ASSUME NEW m1, NEW m2, NEW l1, NEW l2, NEW h1, NEW h2, NEW seq, NEW n \in Nat, NEW rest,
           Len(l1) \in Nat, Len(l2) \in Nat, Len(seq) \in Nat, Len(l1) <= Len(l2),
           \A j \in 1 .. Len(seq) : Alike(m1[seq[j]], m2[seq[j]])
               /\ m1[seq[j]].temperature \in Int /\ m1[seq[j]].high \in Int,
           \A i \in 1 .. Len(l1) :
               /\ l2[i] = l1[i] /\ m2[l1[i]].id = m1[l1[i]].id
               /\ m1[l1[i]].high \in Int /\ m2[l1[i]].high \in Int
               /\ m1[l1[i]].high <= m2[l1[i]].high
               /\ h1 = i => \/ m1[l1[i]].temperature <= m2[l1[i]].high
                            \/ h2 = i /\ m2[l1[i]].temperature = m1[l1[i]].temperature,
           CopyOf(m1, l1, h1, seq, n, rest)
    PROVE  CopyOf(m2, l2, h2, seq, n, rest)
<1>1. n <= Len(l2) /\ Len(seq) <= n /\ n <= Len(l1)
  BY DEF CopyOf
<1> SUFFICES ASSUME NEW j \in 1 .. Len(seq)
    PROVE  Follows(m2[seq[j]], m2[l2[n + 1 - j]], h2 = n + 1 - j, Pending(seq, j, rest))
  BY <1>1 DEF CopyOf
<1> DEFINE i == n + 1 - j
           r == Pending(seq, j, rest)
<1>2. i \in 1 .. Len(l1)
  BY <1>1
<1>3. Follows(m1[seq[j]], m1[l1[i]], h1 = i, r)
  BY DEF CopyOf
<1> HIDE DEF i, r
<1>4. Follows(m2[seq[j]], m2[l2[i]], h2 = i, r)
  BY <1>2, <1>3 DEF Follows, Alike
<1> QED
  BY <1>4 DEF i, r

LEMMA ReadKept ==
    ASSUME NEW m1, NEW m2, NEW seq, NEW rest, Len(seq) \in Nat,
           \A j \in 1 .. Len(seq) : Alike(m1[seq[j]], m2[seq[j]]),
           AllRead(m1, seq, rest)
    PROVE  AllRead(m2, seq, rest)
BY DEF AllRead, WasRead, Alike

LEMMA NoCopy ==
    ASSUME NEW m, NEW l, NEW h, NEW n \in Nat, n <= Len(l), NEW rest
    PROVE  CopyOf(m, l, h, <<>>, n, rest) /\ AllRead(m, <<>>, rest)
BY DEF CopyOf, AllRead

\* The cells of the lists, and their numbers.
LEMMA ListFacts ==
    ASSUME Inv
    PROVE  /\ Len(tower_list) \in Nat /\ walk \in 0 .. Len(tower_list)
           /\ cur \in 0 .. Len(tower_list)
           /\ \A i \in 1 .. Len(tower_list) :
                  tower_list[i] \in Cells /\ (~Ended => tower_list[i] \in MainCells)
           /\ Len(cpy) \in Nat
           /\ \A j \in 1 .. Len(cpy) : cpy[j] \in Cells /\ cpy[j] \in In(cpy)
           /\ \A t \in Threads : Len(list[t]) \in Nat /\ \A j \in 1 .. Len(list[t]) :
                  list[t][j] \in Cells /\ list[t][j] \in In(list[t])
           /\ \A c \in Cells : data[c].temperature \in Int /\ data[c].high \in Int
<1>1. TypeOK
  BY DEF Inv
<1>2. \A t \in Threads : list[t] \in Seq(Cells)
  BY <1>1 DEF TypeOK
<1>3. \A t \in Threads : Len(list[t]) \in Nat /\ \A j \in 1 .. Len(list[t]) :
          list[t][j] \in Cells /\ list[t][j] \in In(list[t])
  BY <1>2, InElement
<1>4. cpy \in Seq(Cells) /\ tower_list \in Seq(Cells)
  BY <1>1 DEF TypeOK
<1>5. \A j \in 1 .. Len(cpy) : cpy[j] \in Cells /\ cpy[j] \in In(cpy)
  BY <1>4, InElement
<1>6. \A i \in 1 .. Len(tower_list) :
          tower_list[i] \in Cells /\ (~Ended => tower_list[i] \in MainCells)
  BY <1>4, InElement DEF MainCells
<1>7. \A c \in Cells : data[c].temperature \in Int /\ data[c].high \in Int
  BY <1>1, CellTypes, Numbers DEF CellType
<1> QED
  BY <1>1, <1>3, <1>4, <1>5, <1>6, <1>7 DEF TypeOK
-----------------------------------------------------------------------------
(***************************************************************************)
(* The steps of main.                                                      *)
(***************************************************************************)

\* Main adds sensors at the head, and raises highs before it parses the next.
Parses ==
    /\ ~Ended /\ ~Ended' /\ UNCHANGED <<list, cpy, walk, todo, pub, late>>
    /\ Len(tower_list') \in Nat /\ Len(tower_list) <= Len(tower_list')
    /\ \A c \in Cells : c \in alloc /\ c \notin MainCells => Alike(data[c], data'[c])
    /\ \A i \in 1 .. Len(tower_list) :
           LET w == data[tower_list[i]]
               v == data'[tower_list[i]]
           IN  /\ tower_list'[i] = tower_list[i] /\ v.id = w.id
               /\ v.high \in Int /\ w.high <= v.high
               /\ Raising = i => w.temperature <= v.high

LEMMA ParsesKeep ==
    ASSUME Inv, Contents, Parses
    PROVE  Making' /\ Made'
<1>1. \A j \in 1 .. Len(cpy) : Alike(data[cpy[j]], data'[cpy[j]])
  <2>1. \A j \in 1 .. Len(cpy) : cpy[j] \in Cells /\ cpy[j] \in In(cpy)
    BY ListFacts
  <2>2. In(cpy) \subseteq alloc /\ In(cpy) \cap MainCells = {}
    BY Facts DEF Inv, OneOwner
  <2> QED
    BY <2>1, <2>2 DEF Parses
<1>2. \A t \in Threads : \A j \in 1 .. Len(list[t]) : Alike(data[list[t][j]], data'[list[t][j]])
  <2>1. \A t \in Threads : \A j \in 1 .. Len(list[t]) :
            list[t][j] \in Cells /\ list[t][j] \in In(list[t])
    BY ListFacts
  <2>2. \A t \in Threads : In(list[t]) \subseteq alloc /\ In(list[t]) \cap MainCells = {}
    BY Facts DEF Inv, OneOwner
  <2> QED
    BY <2>1, <2>2 DEF Parses
<1>3. ASSUME NEW seq, NEW n \in Nat, NEW rest, Len(seq) \in Nat,
             \A j \in 1 .. Len(seq) : seq[j] \in Cells /\ Alike(data[seq[j]], data'[seq[j]]),
             CopyOf(data, tower_list, Raising, seq, n, rest)
      PROVE  CopyOf(data', tower_list', Raising', seq, n, rest)
  <2>1. Len(tower_list) \in Nat /\ \A c \in Cells : data[c].temperature \in Int /\ data[c].high \in Int
    BY ListFacts
  <2>2. \A i \in 1 .. Len(tower_list) : tower_list[i] \in Cells
    BY ListFacts
  <2> QED
    BY <1>3, <2>1, <2>2, CopyKept, SMTT(30) DEF Parses
<1>4. Making'
  <2>1. ASSUME pub = "copy" PROVE CopyOf(data', tower_list', Raising', cpy, From, todo)
    <3>1. CopyOf(data, tower_list, Raising, cpy, From, todo)
      BY <2>1 DEF Contents, Making, Parses
    <3>2. From \in Nat
      BY ListFacts DEF From, Inv, Shape
    <3> QED
      BY <1>1, <1>3, <3>1, <3>2, ListFacts
  <2>2. ~late => AllRead(data', cpy, todo)
    BY <1>1, ReadKept, ListFacts DEF Contents, Making
  <2>3. From' = From
    BY DEF From, Parses
  <2> QED
    BY <2>1, <2>2, <2>3 DEF Contents, Making, Parses
<1>5. Made'
  <2>1. ASSUME NEW t \in Threads
        PROVE  CopyOf(data', tower_list', Raising', list[t], Len(list[t]), {})
    <3>1. CopyOf(data, tower_list, Raising, list[t], Len(list[t]), {})
      BY DEF Contents, Made, Parses
    <3>2. Len(list[t]) \in Nat /\ \A j \in 1 .. Len(list[t]) : list[t][j] \in Cells
      BY ListFacts
    <3> QED
      BY <1>2, <1>3, <3>1, <3>2
  <2>2. ASSUME NEW t \in Threads, ~late PROVE AllRead(data', list[t], {})
    <3>1. AllRead(data, list[t], {})
      BY <2>2 DEF Contents, Made
    <3>2. Len(list[t]) \in Nat
      BY ListFacts
    <3> QED
      BY <1>2, <3>1, <3>2, ReadKept
  <2> QED
    BY <2>1, <2>2 DEF Made, Parses
<1> QED
  BY <1>4, <1>5

LEMMA CopiesKnown == ASSUME Inv, Contents, NEW s \in Sensors, KnownTower(s) PROVE Contents'
<1>1. /\ UNCHANGED <<alloc, data, tower_list, list, cpy, walk, todo, pub, late>>
      /\ main = "read" /\ main' = "temperature" /\ cur' \in 1 .. Len(tower_list)
  BY DEF KnownTower, heapVars, pubVars, thrVars
<1>2. ~Ended /\ ~Ended' /\ Parsed = 0 /\ Raising = 0 /\ Raising' = 0
  BY <1>1 DEF Ended, Parsed, Raising
<1>3. Parses
  BY <1>1, <1>2, ListFacts DEF Parses, Alike
<1>4. Master'
  <2>1. \A i \in 1 .. Len(tower_list) : Sound(data, tower_list, 0, 0, i)
    BY <1>2 DEF Contents, Master
  <2>2. \A i \in 1 .. Len(tower_list) : Sound(data, tower_list, Parsed', 0, i)
    BY <2>1 DEF Sound
  <2> QED
    BY <1>1, <1>2, <2>2 DEF Master
<1> QED
  BY <1>3, <1>4, ParsesKeep DEF Contents

LEMMA CopiesTemperature == ASSUME Inv, Contents, NEW v \in Temps, Temperature(v) PROVE Contents'
<1> DEFINE c == tower_list[cur]
<1>1. /\ UNCHANGED <<alloc, tower_list, cur, list, cpy, walk, todo, pub, late>>
      /\ main = "temperature" /\ main' = "high"
      /\ data' = [data EXCEPT ![c].temperature = v]
  BY DEF Temperature, pubVars, thrVars
<1>2. /\ ~Ended /\ ~Ended' /\ Parsed = cur /\ Parsed' = cur /\ Raising = 0 /\ Raising' = cur
      /\ cur \in 1 .. Len(tower_list) /\ c \in MainCells /\ c \in Cells
  <2>1. cur \in 1 .. Len(tower_list)
    BY <1>1, ListFacts DEF Inv, Shape
  <2> QED
    BY <1>1, <2>1, ListFacts DEF Ended, Parsed, Raising
<1>3. v # Unread /\ v \in Int
  BY TempsAssumption
<1> HIDE DEF c
<1>4. /\ \A d \in Cells : data'[d].id = data[d].id /\ data'[d].high = data[d].high
      /\ \A d \in Cells : d # c => data'[d].temperature = data[d].temperature
      /\ data'[c].temperature = v
  BY <1>1, <1>2, CellTypes DEF Inv, CellType
<1>5. Parses
  BY <1>1, <1>2, <1>4, ListFacts DEF Parses, Alike
<1>6. Master'
  <2>1. \A i \in 1 .. Len(tower_list) : Sound(data, tower_list, cur, 0, i)
    BY <1>2 DEF Contents, Master
  <2>2. \A i \in 1 .. Len(tower_list) : tower_list[i] = c <=> i = cur
    BY <1>2, <2>1 DEF Sound, c
  <2>3. ASSUME NEW i \in 1 .. Len(tower_list) PROVE Sound(data', tower_list, cur, cur, i)
    <3>1. \A k \in 1 .. Len(tower_list) : tower_list[k] \in Cells
      BY ListFacts
    <3>2. CASE i = cur
      BY <1>2, <1>3, <1>4, <2>1, <3>1, <3>2 DEF Sound, WasRead, c
    <3>3. CASE i # cur
      BY <1>4, <2>1, <2>2, <3>1, <3>3 DEF Sound, WasRead
    <3> QED
      BY <3>2, <3>3
  <2> QED
    BY <1>1, <1>2, <2>3 DEF Master
<1> QED
  BY <1>5, <1>6, ParsesKeep DEF Contents

LEMMA CopiesHigh == ASSUME Inv, Contents, High PROVE Contents'
<1> DEFINE c == tower_list[cur]
           d == data[c]
<1>1. /\ UNCHANGED <<alloc, tower_list, list, cpy, walk, todo, pub, late>>
      /\ main = "high" /\ main' \in {"temperature", "read"}
      /\ data' = IF d.temperature > d.high
                 THEN [data EXCEPT ![c].high = d.temperature] ELSE data
  BY DEF High, ReadOn, pubVars, thrVars
<1>2. /\ ~Ended /\ ~Ended' /\ Parsed = cur /\ Raising = cur /\ Raising' = 0
      /\ cur \in 1 .. Len(tower_list) /\ c \in MainCells /\ c \in Cells
  <2>1. cur \in 1 .. Len(tower_list)
    BY <1>1, ListFacts DEF Inv, Shape
  <2> QED
    BY <1>1, <2>1, ListFacts DEF Ended, Parsed, Raising
<1>3. d.temperature \in Int /\ d.high \in Int /\ d.temperature \in Temps \cup {Unread}
  BY <1>2, ListFacts DEF Inv, TypeOK
<1> HIDE DEF c
<1>4. /\ \A e \in Cells : data'[e].id = data[e].id /\ data'[e].temperature = data[e].temperature
      /\ \A e \in Cells : e # c => data'[e].high = data[e].high
      /\ data'[c].high \in Int /\ d.high <= data'[c].high /\ d.temperature <= data'[c].high
  BY <1>1, <1>2, <1>3, CellTypes DEF Inv, CellType
<1>5. \A i \in 1 .. Len(tower_list) : Sound(data, tower_list, cur, cur, i)
  BY <1>2 DEF Contents, Master
<1>6. \A i \in 1 .. Len(tower_list) : tower_list[i] = c <=> i = cur
  BY <1>2, <1>5 DEF Sound, c
<1>7. Parses
  BY <1>1, <1>2, <1>3, <1>4, <1>6, ListFacts DEF Parses, Alike
<1>8. Master'
  <2>1. d.temperature # Unread /\ d.temperature > NoHigh
    BY <1>2, <1>3, <1>5, TempsAssumption DEF Sound, c
  <2>2. data'[c].high # NoHigh
    BY <1>3, <1>4, <2>1, Numbers
  <2>3. ASSUME NEW i \in 1 .. Len(tower_list)
        PROVE  Sound(data', tower_list, Parsed', 0, i)
    <3>1. \A k \in 1 .. Len(tower_list) : tower_list[k] \in Cells
      BY ListFacts
    <3>2. CASE i = cur
      BY <1>2, <1>3, <1>4, <1>5, <2>1, <2>2, <3>1, <3>2 DEF Sound, WasRead, c
    <3>3. CASE i # cur
      BY <1>4, <1>5, <1>6, <3>1, <3>3 DEF Sound, WasRead
    <3> QED
      BY <3>2, <3>3
  <2> QED
    BY <1>1, <1>2, <2>3 DEF Master
<1> QED
  BY <1>7, <1>8, ParsesKeep DEF Contents

LEMMA CopiesNew == ASSUME Inv, Contents, NEW s \in Sensors, NewTower(s) PROVE Contents'
<1> DEFINE f == Fresh
           z == [Zero(s) EXCEPT !.high = NoHigh]
           n == Len(tower_list)
<1>1. /\ f \in Cells /\ f \notin alloc
      /\ data' = [data EXCEPT ![f] = z] /\ tower_list' = Append(tower_list, f)
      /\ main = "read" /\ main' = "temperature" /\ cur' = Len(tower_list') /\ s \notin OnList
      /\ UNCHANGED <<list, cpy, walk, todo, pub, late>>
  BY FreshIsNew DEF NewTower, Malloc, pubVars, thrVars, Inv, TypeOK
<1>2. ~Ended /\ ~Ended' /\ Parsed = 0 /\ Raising = 0 /\ Raising' = 0 /\ Parsed' = Len(tower_list')
  BY <1>1 DEF Ended, Parsed, Raising
<1>3. z.id = s /\ z.temperature = Unread
  BY DEF Zero
<1> HIDE DEF f, z
<1>4. data'[f] = z /\ \A c \in Cells : c # f => data'[c] = data[c]
  BY <1>1, CellTypes DEF Inv
<1>5. /\ n \in Nat /\ Len(tower_list') = n + 1 /\ tower_list'[n + 1] = f
      /\ \A i \in 1 .. n : tower_list'[i] = tower_list[i]
  BY <1>1, ListFacts DEF Inv, TypeOK
<1> HIDE DEF n
<1>6. \A i \in 1 .. n : tower_list[i] \in Cells /\ tower_list[i] # f
  BY <1>1, <1>2, ListFacts, Facts DEF n
<1>7. Parses
  <2>1. \A c \in Cells : c \in alloc => Alike(data[c], data'[c])
    BY <1>1, <1>4 DEF Alike
  <2>2. \A i \in 1 .. n : data'[tower_list[i]] = data[tower_list[i]]
    BY <1>4, <1>6
  <2>3. \A i \in 1 .. n : data[tower_list[i]].high \in Int
    BY <1>6, ListFacts
  <2> QED
    BY <1>1, <1>2, <1>5, <2>1, <2>2, <2>3 DEF Parses, n
<1>8. Master'
  <2>1. \A i \in 1 .. n : Sound(data, tower_list, 0, 0, i)
    BY <1>2 DEF Contents, Master, n
  <2>2. \A i \in 1 .. n : data[tower_list[i]].id # s
    BY <1>1 DEF OnList, n
  <2>3. \A i \in 1 .. n : data'[tower_list'[i]] = data[tower_list[i]]
    BY <1>4, <1>5, <1>6
  <2>4. data'[tower_list'[n + 1]].id = s /\ data'[tower_list'[n + 1]].temperature = Unread
    BY <1>3, <1>4, <1>5
  <2>5. ASSUME NEW i \in 1 .. n + 1
        PROVE  Sound(data', tower_list', n + 1, 0, i)
    <3>1. CASE i \in 1 .. n
      <4>1. ASSUME NEW k \in 1 .. n + 1, data'[tower_list'[k]].id = data'[tower_list'[i]].id
            PROVE  k = i
        <5>1. k \in 1 .. n
          BY <1>5, <2>2, <2>3, <2>4, <3>1, <4>1
        <5> QED
          BY <2>1, <2>3, <3>1, <4>1, <5>1 DEF Sound, n
      <4> QED
        BY <1>5, <2>1, <2>3, <3>1, <4>1 DEF Sound, WasRead, n
    <3>2. CASE i = n + 1
      BY <1>5, <2>2, <2>3, <2>4, <3>2 DEF Sound
    <3> QED
      BY <1>5, <3>1, <3>2
  <2> QED
    BY <1>2, <1>5, <2>5 DEF Master
<1> QED
  BY <1>7, <1>8, ParsesKeep DEF Contents

\* The publish thread holds no copy while it waits, so none is being made when
\* a cancel is in time.
LEMMA CopiesShutdown == ASSUME Inv, Contents, Shutdown PROVE Contents'
<1>1. /\ UNCHANGED <<list, cpy, pub, todo, walk>> /\ Free(tower_list)
      /\ ~Ended /\ Ended' /\ late' = (pub # "wait")
  BY DEF Shutdown, pubVars, thrVars, Ended
<1>2. ~late
  BY <1>1 DEF Inv, Shape
<1>3. \A c \in Cells : c \notin MainCells => data'[c] = data[c]
  BY <1>1, AfterFree DEF MainCells, Inv, TypeOK
<1>4. \A t \in Threads : AllRead(data', list[t], {})
  <2>1. \A t \in Threads : \A j \in 1 .. Len(list[t]) : data'[list[t][j]] = data[list[t][j]]
    BY <1>3, ListFacts DEF Inv, OneOwner
  <2> QED
    BY <1>2, <2>1 DEF Contents, Made, AllRead
<1>5. pub # "copy" => cpy = <<>>
  BY DEF Contents, Making
<1>6. ~late' => AllRead(data', <<>>, todo')
  BY DEF AllRead
<1>7. Making'
  BY <1>1, <1>5, <1>6 DEF Making
<1>8. Made'
  BY <1>1, <1>4 DEF Made
<1> QED
  BY <1>1, <1>7, <1>8 DEF Contents, Master
-----------------------------------------------------------------------------
(***************************************************************************)
(* The steps of the other threads.                                         *)
(***************************************************************************)

\* Other threads leave the list of wd as it is.
Aside ==
    /\ UNCHANGED mainVars
    /\ \A c \in MainCells : Alike(data[c], data'[c])

LEMMA MasterAside ==
    ASSUME Inv, Contents, Aside
    PROVE  /\ UNCHANGED <<tower_list, late>> /\ (Ended' <=> Ended) /\ Raising' = Raising
           /\ Master'
<1>1. UNCHANGED <<tower_list, main, cur, late>>
  BY DEF Aside, mainVars
<1>2. (Ended' <=> Ended) /\ Raising' = Raising /\ Parsed' = Parsed
  BY <1>1 DEF Ended, Raising, Parsed
<1>3. ASSUME ~Ended, NEW i \in 1 .. Len(tower_list)
      PROVE  Sound(data', tower_list, Parsed, Raising, i)
  <2>1. \A k \in 1 .. Len(tower_list) : Alike(data[tower_list[k]], data'[tower_list[k]])
    BY <1>3, ListFacts DEF Aside
  <2>2. Sound(data, tower_list, Parsed, Raising, i)
    BY <1>3 DEF Contents, Master
  <2> QED
    BY <2>1, <2>2 DEF Sound, WasRead, Alike
<1> QED
  BY <1>1, <1>2, <1>3 DEF Master

\* ... and a copy whose cells they leave as they are stays a copy of it.
LEMMA CopyAside ==
    ASSUME Inv, Aside, NEW seq, Len(seq) \in Nat, NEW n \in Nat, NEW rest,
           \A j \in 1 .. Len(seq) : Alike(data[seq[j]], data'[seq[j]])
    PROVE  /\ ~Ended /\ CopyOf(data, tower_list, Raising, seq, n, rest)
                  => CopyOf(data', tower_list, Raising, seq, n, rest)
           /\ AllRead(data, seq, rest) => AllRead(data', seq, rest)
<1>1. ASSUME ~Ended, CopyOf(data, tower_list, Raising, seq, n, rest)
      PROVE  CopyOf(data', tower_list, Raising, seq, n, rest)
  <2>1. n <= Len(tower_list) /\ Len(seq) <= n
    BY <1>1 DEF CopyOf
  <2>2. ASSUME NEW j \in 1 .. Len(seq)
        PROVE  Follows(data'[seq[j]], data'[tower_list[n + 1 - j]], Raising = n + 1 - j,
                       Pending(seq, j, rest))
    <3>1. n + 1 - j \in 1 .. Len(tower_list)
      BY <2>1, ListFacts
    <3>2. Alike(data[tower_list[n + 1 - j]], data'[tower_list[n + 1 - j]])
      BY <1>1, <3>1, ListFacts DEF Aside
    <3>3. Follows(data[seq[j]], data[tower_list[n + 1 - j]], Raising = n + 1 - j,
                  Pending(seq, j, rest))
      BY <1>1 DEF CopyOf
    <3> QED
      BY <3>2, <3>3 DEF Follows, Alike
  <2> QED
    BY <2>1, <2>2 DEF CopyOf
<1>2. AllRead(data, seq, rest) => AllRead(data', seq, rest)
  BY ReadKept
<1> QED
  BY <1>1, <1>2

\* A step that leaves the copies of the threads as they are.
LEMMA MadeAside ==
    ASSUME Inv, Contents, Aside, UNCHANGED list,
           \A c \in ThreadCells : Alike(data[c], data'[c])
    PROVE  Made'
<1>1. ASSUME NEW t \in Threads
      PROVE  /\ Len(list[t]) \in Nat
             /\ \A j \in 1 .. Len(list[t]) : Alike(data[list[t][j]], data'[list[t][j]])
  <2>1. In(list[t]) \subseteq ThreadCells
    BY ThreadCellsHold DEF Inv
  <2> QED
    BY <2>1, ListFacts
<1>2. ASSUME NEW t \in Threads, ~Ended
      PROVE  CopyOf(data', tower_list, Raising, list[t], Len(list[t]), {})
  BY <1>1, <1>2, CopyAside DEF Contents, Made
<1>3. ASSUME NEW t \in Threads, ~late PROVE AllRead(data', list[t], {})
  BY <1>1, <1>3, CopyAside DEF Contents, Made
<1> QED
  BY <1>2, <1>3, MasterAside DEF Made

LEMMA CopiesPublish ==
    ASSUME Inv, Contents, Signalled \/ WaitAgain \/ CopyStart PROVE Contents'
<1>1. /\ UNCHANGED <<data, mainVars, list, cpy, todo>> /\ pub # "copy"
      /\ pub' = "copy" => walk' = IF Ended THEN 0 ELSE Len(tower_list)
  BY DEF Signalled, WaitAgain, CopyStart, heapVars, thrVars
<1>2. Aside
  BY <1>1 DEF Aside, Alike
<1>3. Master' /\ Made' /\ UNCHANGED <<tower_list, late>> /\ (Ended' <=> Ended) /\ Raising' = Raising
  <2>1. \A c \in ThreadCells : Alike(data[c], data'[c])
    BY <1>1 DEF Alike
  <2> QED
    BY <1>1, <1>2, <2>1, MasterAside, MadeAside
<1>4. cpy = <<>> /\ todo = {} /\ Len(cpy) = 0
  BY <1>1 DEF Contents, Making, Inv, Shape
<1>5. ASSUME ~Ended, pub' = "copy"
      PROVE  CopyOf(data', tower_list, Raising, <<>>, From', todo)
  <2>1. From' = Len(tower_list)
    BY <1>1, <1>4, <1>5, ListFacts DEF From
  <2> QED
    BY <2>1, NoCopy, ListFacts
<1>6. AllRead(data', <<>>, todo)
  BY DEF AllRead
<1>7. Making'
  BY <1>1, <1>3, <1>4, <1>5, <1>6 DEF Making
<1> QED
  BY <1>3, <1>7 DEF Contents

LEMMA CopiesCreate ==
    ASSUME Inv, Contents, NEW t \in Threads, NEW kind \in Kinds, Create(t, kind)
    PROVE  Contents'
<1>1. /\ UNCHANGED <<data, mainVars, todo, walk>> /\ pub = "copy" /\ pub' = "next"
      /\ todo = {} /\ walk = 0 /\ cpy' = <<>> /\ list' = [list EXCEPT ![t] = cpy]
  BY DEF Create, Copied, heapVars
<1>2. Aside
  BY <1>1 DEF Aside, Alike
<1>3. Master' /\ UNCHANGED <<tower_list, late>> /\ (Ended' <=> Ended) /\ Raising' = Raising
  BY <1>2, MasterAside
<1>4. list'[t] = cpy /\ \A u \in Threads \ {t} : list'[u] = list[u]
  BY <1>1 DEF Inv, TypeOK
<1>5. From = Len(cpy)
  BY <1>1, ListFacts DEF From
<1>6. Made'
  BY <1>1, <1>3, <1>4, <1>5 DEF Contents, Made, Making
<1>7. Making'
  BY <1>1 DEF Making, AllRead
<1> QED
  BY <1>3, <1>6, <1>7 DEF Contents

LEMMA CopiesCreateFails == ASSUME Inv, Contents, CreateFails PROVE Contents'
<1>1. UNCHANGED <<mainVars, list>> /\ pub' = "next" /\ cpy' = <<>> /\ Free(cpy)
  BY DEF CreateFails, thrVars
<1>2. cpy \in Seq(Cells) /\ \A c \in Cells : c \notin In(cpy) => data'[c] = data[c]
  BY <1>1, Facts, AfterFree
<1>3. Aside /\ \A c \in ThreadCells : Alike(data[c], data'[c])
  <2>1. /\ MainCells \cap In(cpy) = {} /\ ThreadCells \cap In(cpy) = {}
        /\ MainCells \subseteq Cells /\ ThreadCells \subseteq Cells
    BY Facts DEF Inv, OneOwner
  <2> QED
    BY <1>1, <1>2, <2>1 DEF Aside, Alike
<1>4. Making'
  BY <1>1 DEF Making, AllRead
<1> QED
  BY <1>1, <1>3, <1>4, MasterAside, MadeAside DEF Contents

LEMMA CopiesUpdate == ASSUME Inv, Contents, NEW t \in Threads, Update(t) PROVE Contents'
<1>1. /\ UNCHANGED <<mainVars, list, pub, cpy, walk, todo>>
      /\ UNCHANGED data \/ Converted(list[t])
  BY DEF Update, pubVars
<1>2. \A c \in Cells : Alike(data[c], data'[c])
  <2>1. CASE UNCHANGED data
    BY <2>1 DEF Alike
  <2>2. CASE Converted(list[t])
    <3>1. data \in [Cells -> CellType]
      BY CellTypes DEF Inv
    <3> QED
      BY <2>2, <3>1 DEF Converted, Alike, CellType
  <2> QED
    BY <1>1, <2>1, <2>2
<1>3. MainCells \subseteq Cells /\ ThreadCells \subseteq Cells
  BY Facts
<1>4. Aside
  BY <1>1, <1>2, <1>3 DEF Aside
<1>5. Master' /\ Made' /\ UNCHANGED <<tower_list, late>> /\ (Ended' <=> Ended) /\ Raising' = Raising
  BY <1>1, <1>2, <1>3, <1>4, MasterAside, MadeAside
<1>6. Making'
  <2>1. Len(cpy) \in Nat /\ \A j \in 1 .. Len(cpy) : Alike(data[cpy[j]], data'[cpy[j]])
    BY <1>2, ListFacts
  <2>2. From \in Nat /\ From' = From
    BY <1>1, ListFacts DEF From, Inv, Shape
  <2>3. ~Ended /\ pub = "copy" => CopyOf(data', tower_list, Raising, cpy, From, todo)
    BY <1>4, <2>1, <2>2, CopyAside DEF Contents, Making
  <2>4. ~late => AllRead(data', cpy, todo)
    BY <1>4, <2>1, <2>2, CopyAside DEF Contents, Making
  <2> QED
    BY <1>1, <1>5, <2>2, <2>3, <2>4 DEF Contents, Making
<1> QED
  BY <1>5, <1>6 DEF Contents

LEMMA CopiesGone ==
    ASSUME Inv, Contents, NEW t \in Threads, Gone(t),
           \A c \in Cells : c \notin In(list[t]) => data'[c] = data[c]
    PROVE  Contents'
<1>1. /\ UNCHANGED <<mainVars, pub, cpy, walk, todo>>
      /\ list' = [list EXCEPT ![t] = <<>>]
  BY DEF Gone, pubVars
<1>2. \A c \in Cells : c \notin In(list[t]) => data'[c] = data[c]
  OBVIOUS
<1>3. Aside
  <2>1. MainCells \subseteq Cells /\ MainCells \cap In(list[t]) = {}
    BY Facts DEF Inv, OneOwner
  <2> QED
    BY <1>1, <1>2, <2>1 DEF Aside, Alike
<1>4. Master' /\ UNCHANGED <<tower_list, late>> /\ (Ended' <=> Ended) /\ Raising' = Raising
  BY <1>3, MasterAside
<1>5. list'[t] = <<>> /\ \A u \in Threads \ {t} : list'[u] = list[u]
  BY <1>1, Facts
<1>6. Made'
  <2>1. ASSUME NEW u \in Threads \ {t}
        PROVE  /\ Len(list[u]) \in Nat
               /\ \A j \in 1 .. Len(list[u]) : Alike(data[list[u][j]], data'[list[u][j]])
    <3>1. In(list[u]) \cap In(list[t]) = {}
      BY Facts
    <3> QED
      BY <1>2, <3>1, ListFacts DEF Alike
  <2>2. ASSUME NEW u \in Threads \ {t}, ~Ended
        PROVE  CopyOf(data', tower_list, Raising, list[u], Len(list[u]), {})
    BY <1>3, <2>1, <2>2, CopyAside DEF Contents, Made
  <2>3. ASSUME NEW u \in Threads \ {t}, ~late PROVE AllRead(data', list[u], {})
    BY <1>3, <2>1, <2>3, CopyAside DEF Contents, Made
  <2>4. CopyOf(data', tower_list, Raising, <<>>, Len(<<>>), {}) /\ AllRead(data', <<>>, {})
    BY NoCopy, ListFacts
  <2> QED
    BY <1>4, <1>5, <2>2, <2>3, <2>4 DEF Made
<1>7. Making'
  <2>1. Len(cpy) \in Nat /\ \A j \in 1 .. Len(cpy) : Alike(data[cpy[j]], data'[cpy[j]])
    BY <1>2, ListFacts DEF Alike, Inv, OneOwner
  <2>2. From \in Nat /\ From' = From
    BY <1>1, ListFacts DEF From, Inv, Shape
  <2>3. ~Ended /\ pub = "copy" => CopyOf(data', tower_list, Raising, cpy, From, todo)
    BY <1>3, <2>1, <2>2, CopyAside DEF Contents, Making
  <2>4. ~late => AllRead(data', cpy, todo)
    BY <1>3, <2>1, <2>2, CopyAside DEF Contents, Making
  <2> QED
    BY <1>1, <1>4, <2>2, <2>3, <2>4 DEF Contents, Making
<1> QED
  BY <1>4, <1>6, <1>7 DEF Contents

LEMMA CopiesFinish == ASSUME Inv, Contents, NEW t \in Threads, Finish(t) PROVE Contents'
<1>1. Gone(t) /\ Free(list[t])
  BY DEF Finish
<1>2. \A c \in Cells : c \notin In(list[t]) => data'[c] = data[c]
  BY <1>1, Facts, AfterFree
<1> QED
  BY <1>1, <1>2, CopiesGone

LEMMA CopiesExit == ASSUME Inv, Contents, NEW t \in Threads, Exit(t) PROVE Contents'
<1>1. Gone(t) /\ \A c \in Cells : c \notin In(list[t]) => data'[c] = data[c]
  BY DEF Exit
<1> QED
  BY <1>1, CopiesGone

\* The cell that wdcopy mallocs takes its sensor from the place of the walk.
LEMMA CopiesSensor == ASSUME Inv, Contents, CopySensor PROVE Contents'
<1> DEFINE f == Fresh
           w == data[tower_list[walk]]
           z == [Zero(w.id) EXCEPT !.unit = w.unit]
<1>1. /\ f \in Cells /\ f \notin alloc
      /\ data' = [data EXCEPT ![f] = z] /\ cpy' = Append(cpy, f)
      /\ UNCHANGED <<mainVars, pub, walk, list>>
      /\ pub = "copy" /\ todo = {} /\ walk > 0 /\ todo' = Fields
  BY FreshIsNew DEF CopySensor, Malloc, thrVars, Inv, TypeOK
<1>2. z.id = w.id
  BY DEF Zero
<1> HIDE DEF f, z
<1>3. data'[f] = z /\ \A c \in Cells : c # f => data'[c] = data[c]
  BY <1>1, CellTypes DEF Inv
<1>4. Aside /\ \A c \in ThreadCells : Alike(data[c], data'[c])
  BY <1>1, <1>3, Facts DEF Aside, Alike
<1>5. Master' /\ Made' /\ UNCHANGED <<tower_list, late>> /\ (Ended' <=> Ended) /\ Raising' = Raising
  BY <1>1, <1>4, MasterAside, MadeAside
<1>6. /\ Len(cpy) \in Nat /\ Len(cpy') = Len(cpy) + 1 /\ cpy'[Len(cpy) + 1] = f
      /\ \A j \in 1 .. Len(cpy) : cpy'[j] = cpy[j] /\ data'[cpy[j]] = data[cpy[j]]
  <2>1. cpy \in Seq(Cells) /\ \A j \in 1 .. Len(cpy) : cpy[j] \in Cells /\ cpy[j] # f
    BY <1>1, Facts, ListFacts
  <2> QED
    BY <1>1, <1>3, <2>1
<1>7. From \in Nat /\ From' = From /\ From = Len(cpy) + walk /\ Len(cpy') <= From
  <2>1. walk \in Nat /\ walk > 0 /\ walk' = walk /\ todo = {} /\ todo' # {}
    BY <1>1, ListFacts DEF Fields
  <2>2. Len(cpy) \in Nat /\ Len(cpy') = Len(cpy) + 1
    BY <1>6
  <2> QED
    BY <2>1, <2>2 DEF From
<1>8. ASSUME ~Ended PROVE CopyOf(data', tower_list, Raising, cpy', From, Fields)
  <2>1. CopyOf(data, tower_list, Raising, cpy, From, {})
    BY <1>1, <1>8 DEF Contents, Making
  <2>2. ASSUME NEW j \in 1 .. Len(cpy)
        PROVE  Follows(data'[cpy'[j]], data'[tower_list[From + 1 - j]], Raising = From + 1 - j,
                       Pending(cpy', j, Fields))
    <3>1. From + 1 - j \in 1 .. Len(tower_list)
      BY <1>7, <2>1 DEF CopyOf
    <3>2. Alike(data[tower_list[From + 1 - j]], data'[tower_list[From + 1 - j]])
      BY <1>4, <1>8, <3>1, ListFacts DEF Aside
    <3>3. Pending(cpy', j, Fields) = {} /\ Pending(cpy, j, {}) = {}
      BY <1>6 DEF Pending
    <3>4. Follows(data[cpy[j]], data[tower_list[From + 1 - j]], Raising = From + 1 - j, {})
      BY <2>1, <3>3 DEF CopyOf
    <3> QED
      BY <1>6, <3>2, <3>3, <3>4 DEF Follows, Alike
  <2>3. Follows(data'[f], data'[tower_list[walk]], Raising = walk, Fields)
    <3>1. Alike(w, data'[tower_list[walk]])
      BY <1>1, <1>4, <1>8, ListFacts DEF Aside
    <3> QED
      BY <1>2, <1>3, <3>1 DEF Follows, Alike, Fields
  <2>4. From + 1 - (Len(cpy) + 1) = walk /\ Pending(cpy', Len(cpy) + 1, Fields) = Fields
    BY <1>6, <1>7, ListFacts DEF Pending
  <2>5. \A j \in 1 .. Len(cpy') : j \in 1 .. Len(cpy) \/ j = Len(cpy) + 1
    BY <1>6
  <2>6. From <= Len(tower_list)
    BY <2>1 DEF CopyOf
  <2> QED
    BY <1>6, <1>7, <2>2, <2>3, <2>4, <2>5, <2>6 DEF CopyOf
<1>9. ASSUME ~late PROVE AllRead(data', cpy', Fields)
  <2> SUFFICES ASSUME NEW j \in 2 .. Len(cpy')
               PROVE  WasRead(data'[cpy'[j]], Pending(cpy', j, Fields))
    BY DEF AllRead
  <2>1. CASE j = Len(cpy')
    BY <2>1 DEF WasRead, Pending, Fields
  <2>2. CASE j # Len(cpy')
    <3>1. j \in 2 .. Len(cpy) /\ Pending(cpy', j, Fields) = {} /\ Pending(cpy, j, {}) = {}
      BY <1>6, <2>2 DEF Pending
    <3>2. WasRead(data[cpy[j]], {})
      BY <1>1, <1>9, <3>1 DEF Contents, Making, AllRead
    <3>3. j \in 1 .. Len(cpy)
      BY <1>6, <3>1
    <3> QED
      BY <1>6, <3>1, <3>2, <3>3
  <2> QED
    BY <2>1, <2>2
<1>10. Making'
  BY <1>1, <1>5, <1>7, <1>8, <1>9 DEF Making
<1> QED
  BY <1>5, <1>10 DEF Contents

\* memcpy takes a field as it is in wd at that moment: the temperature may be one
\* whose high is not raised yet, and only the newest tower has none.
LEMMA CopiesField == ASSUME Inv, Contents, NEW g \in Fields, CopyField(g) PROVE Contents'
<1> DEFINE n == Len(cpy)
           c == cpy[n]
           w == data[tower_list[walk]]
<1>1. /\ g \in todo /\ data' = [data EXCEPT ![c][g] = w[g]] /\ todo' = todo \ {g}
      /\ walk' = IF todo' = {} THEN walk - 1 ELSE walk
      /\ UNCHANGED <<mainVars, pub, cpy, list>>
  BY DEF CopyField, thrVars
<1>2. walk > 0 /\ n \in Nat /\ n > 0 /\ pub = "copy" /\ walk \in 1 .. Len(tower_list)
      /\ (Ended => late) /\ Len(tower_list) \in Nat
  BY <1>1, ListFacts DEF Inv, Shape
<1>3. c \in Cells /\ c \in In(cpy) /\ data[c] \in CellType
  BY <1>2, ListFacts, CellTypes DEF Inv
<1>4. \A j \in 1 .. n : j # n => cpy[j] # c
  BY <1>2 DEF Inv, OneOwner, NoRepeats
<1> HIDE DEF c
<1>5. /\ \A e \in Cells : e # c => data'[e] = data[e]
      /\ data'[c].id = data[c].id
      /\ g = "temperature" => data'[c].temperature = w.temperature /\ data'[c].high = data[c].high
      /\ g = "high" => data'[c].high = w.high /\ data'[c].temperature = data[c].temperature
  BY <1>1, <1>3, CellTypes DEF Inv, CellType, Fields
<1>6. Aside /\ \A e \in ThreadCells : Alike(data[e], data'[e])
  <2>1. /\ MainCells \subseteq Cells /\ ThreadCells \subseteq Cells
        /\ c \notin MainCells /\ c \notin ThreadCells
    BY <1>3, Facts DEF Inv, OneOwner
  <2> QED
    BY <1>1, <1>5, <2>1 DEF Aside, Alike
<1>7. Master' /\ Made' /\ UNCHANGED <<tower_list, late>> /\ (Ended' <=> Ended) /\ Raising' = Raising
  BY <1>1, <1>6, MasterAside, MadeAside
<1>8. From' = From /\ From = n + walk - 1 /\ From \in Nat
  BY <1>1, <1>2 DEF From
<1>9. ~Ended => Sound(data, tower_list, Parsed, Raising, walk)
  BY <1>2 DEF Contents, Master
<1>10. ASSUME ~Ended
       PROVE  CopyOf(data', tower_list, Raising, cpy, From, todo')
  <2>1. CopyOf(data, tower_list, Raising, cpy, From, todo)
    BY <1>2, <1>10 DEF Contents, Making
  <2>2. ASSUME NEW j \in 1 .. n, j # n
        PROVE  Follows(data'[cpy[j]], data'[tower_list[From + 1 - j]], Raising = From + 1 - j,
                       Pending(cpy, j, todo'))
    <3>1. From + 1 - j \in 1 .. Len(tower_list)
      BY <1>8, <2>1 DEF CopyOf
    <3>2. Alike(data[tower_list[From + 1 - j]], data'[tower_list[From + 1 - j]])
      BY <1>6, <1>10, <3>1, ListFacts DEF Aside
    <3>3. Pending(cpy, j, todo') = Pending(cpy, j, todo)
      BY <2>2 DEF Pending
    <3>4. data'[cpy[j]] = data[cpy[j]]
      BY <1>4, <1>5, <2>2, ListFacts
    <3>5. Follows(data[cpy[j]], data[tower_list[From + 1 - j]], Raising = From + 1 - j,
                  Pending(cpy, j, todo))
      BY <2>1 DEF CopyOf
    <3> QED
      BY <3>2, <3>3, <3>4, <3>5 DEF Follows, Alike
  <2>3. Follows(data'[c], data'[tower_list[walk]], Raising = walk, todo')
    <3>1. Alike(w, data'[tower_list[walk]])
      BY <1>2, <1>6, <1>10, ListFacts DEF Aside
    <3>2. From + 1 - n = walk /\ n \in 1 .. n
      BY <1>2, <1>8
    <3>3. Follows(data[c], w, Raising = walk, todo)
      BY <2>1, <3>2 DEF CopyOf, Pending, c
    <3>4. tower_list[walk] \in Cells /\ w.high \in Int
      BY <1>2, ListFacts
    <3>5. CASE g = "high"
      BY <1>1, <1>5, <3>1, <3>3, <3>4, <3>5 DEF Follows, Alike
    <3>6. CASE g = "temperature"
      BY <1>1, <1>5, <1>9, <1>10, <3>1, <3>3, <3>4, <3>6 DEF Follows, Alike, Sound
    <3> QED
      BY <3>5, <3>6 DEF Fields
  <2>4. From + 1 - n = walk /\ Pending(cpy, n, todo') = todo'
    BY <1>2, <1>8 DEF Pending
  <2>5. From <= Len(tower_list) /\ n <= From
    BY <2>1 DEF CopyOf
  <2>6. ASSUME NEW j \in 1 .. n
        PROVE  Follows(data'[cpy[j]], data'[tower_list[From + 1 - j]], Raising = From + 1 - j,
                       Pending(cpy, j, todo'))
    BY <2>2, <2>3, <2>4 DEF c
  <2> QED
    BY <2>5, <2>6 DEF CopyOf
<1>11. ASSUME ~late PROVE AllRead(data', cpy, todo')
  <2> SUFFICES ASSUME NEW j \in 2 .. n
               PROVE  WasRead(data'[cpy[j]], Pending(cpy, j, todo'))
    BY DEF AllRead
  <2>1. WasRead(data[cpy[j]], Pending(cpy, j, todo))
    BY <1>11 DEF Contents, Making, AllRead
  <2>2. CASE j # n
    <3>1. data'[cpy[j]] = data[cpy[j]] /\ Pending(cpy, j, todo') = Pending(cpy, j, todo)
      BY <1>2, <1>4, <1>5, <2>2, ListFacts DEF Pending
    <3> QED
      BY <2>1, <3>1
  <2>3. CASE j = n
    <3>1. ~Ended /\ CopyOf(data, tower_list, Raising, cpy, From, todo)
      BY <1>2, <1>11 DEF Contents, Making
    <3>2. walk # Len(tower_list)
      BY <1>2, <1>8, <2>3, <3>1 DEF CopyOf
    <3>3. WasRead(w, {})
      BY <1>9, <3>1, <3>2 DEF Sound
    <3>4. WasRead(data[c], todo) /\ Pending(cpy, j, todo') = todo'
      BY <2>1, <2>3 DEF Pending, c
    <3>5. WasRead(data'[c], todo')
      BY <1>1, <1>5, <3>3, <3>4 DEF WasRead, Fields
    <3> QED
      BY <2>3, <3>4, <3>5 DEF c
  <2> QED
    BY <2>2, <2>3
<1>12. Making'
  BY <1>1, <1>2, <1>7, <1>8, <1>10, <1>11 DEF Making
<1> QED
  BY <1>7, <1>12 DEF Contents
-----------------------------------------------------------------------------
LEMMA ContentsInit == Init => Contents
<1> SUFFICES ASSUME Init PROVE Contents
  OBVIOUS
<1>1. tower_list = <<>> /\ cpy = <<>> /\ pub = "wait" /\ \A t \in Threads : list[t] = <<>>
  BY DEF Init
<1>2. \A rest : AllRead(data, <<>>, rest) /\ CopyOf(data, <<>>, Raising, <<>>, 0, rest)
  BY DEF AllRead, CopyOf
<1>3. Master /\ Making
  BY <1>1, <1>2 DEF Master, Making
<1>4. Made
  BY <1>1, <1>2 DEF Made
<1> QED
  BY <1>3, <1>4 DEF Contents

LEMMA ContentsStep == Inv /\ Contents /\ [Next]_vars => Contents'
<1> SUFFICES ASSUME Inv, Contents, [Next]_vars PROVE Contents'
  OBVIOUS
<1>1. CASE MainNext
  BY <1>1, CopiesNew, CopiesKnown, CopiesTemperature, CopiesHigh, CopiesShutdown DEF MainNext
<1>2. CASE PubNext
  BY <1>2, CopiesPublish, CopiesSensor, CopiesField, CopiesCreate, CopiesCreateFails DEF PubNext
<1>3. ASSUME NEW t \in Threads, ThreadNext(t) PROVE Contents'
  BY <1>3, CopiesUpdate, CopiesFinish, CopiesExit DEF ThreadNext
<1>4. CASE UNCHANGED vars
  <2>1. UNCHANGED <<data, tower_list, main, cur, late, pub, cpy, walk, todo, list>>
    BY <1>4 DEF vars, heapVars, mainVars, pubVars, thrVars
  <2>2. UNCHANGED <<Ended, Parsed, Raising, From>>
    BY <2>1 DEF Ended, Parsed, Raising, From
  <2> QED
    BY <2>1, <2>2 DEF Contents, Master, Making, Made
<1> QED
  BY <1>1, <1>2, <1>3, <1>4 DEF Next

LEMMA ContentsAlways == Spec => []Contents
BY InvAlways, ContentsInit, ContentsStep, PTL DEF Spec
-----------------------------------------------------------------------------
\* wfp_tower_parse, wdcopy, unit_convert and wdfree keep their data in its types.
THEOREM TypeCorrect == Spec => []TypeOK
BY InvAlways, PTL DEF Inv

\* wdcopy (wfp-send.c:83-98) and wdfree (:103-121) neither share a sensor's cell
\* between two lists nor lose one, for any number of threads, but for the copies
\* that CWOP's threads leave when they end in update (wfp-cwop.c:85, :92).
THEOREM CellsOwnedOnce == Spec => []OneOwner
BY InvAlways, PTL DEF Inv

\* The list may be read without a lock (wfp-send.c:82-99) until main frees it
\* (wfpublish.c:206-215), and then while the publish thread waits.
THEOREM NothingMisused == Spec => []NoMisuse
BY InvAlways, PTL DEF Inv

\* unit_convert (wfp-util.c:479-485) converts a thread's own sensors once.
THEOREM SensorsInUnits == Spec => []MessageUnits
BY InvAlways, PTL DEF Inv

\* The copy seq has the n towers that came first, once each; the newest of them was
\* copied first.
HasFirst(seq, n) ==
    /\ n <= Len(tower_list)
    /\ \A j \in 1 .. Len(seq) :
        j <= n /\ data[seq[j]].id = data[tower_list[n + 1 - j]].id

\* A copy has every tower that was on the list when the walk began, each once,
\* although main puts others in front meanwhile.
CopyComplete ==
    ~Ended =>
        /\ \A i, j \in 1 .. Len(tower_list) :
            data[tower_list[i]].id = data[tower_list[j]].id => i = j
        /\ pub = "copy" =>
            HasFirst(cpy, Len(cpy) + walk - (IF todo = {} THEN 0 ELSE 1))
        /\ \A t \in Threads : HasFirst(list[t], Len(list[t]))

\* wdcopy (wfp-send.c:84-98) copies every tower that was on the list when its
\* walk began, and once, although main puts others in front meanwhile.
THEOREM EveryTowerCopied == Spec => []CopyComplete
<1>1. Inv /\ Contents => CopyComplete
  <2> SUFFICES ASSUME Inv, Contents, ~Ended PROVE CopyComplete
    BY DEF CopyComplete
  <2>1. \A i, j \in 1 .. Len(tower_list) :
            data[tower_list[i]].id = data[tower_list[j]].id => i = j
    BY DEF Contents, Master, Sound
  <2>2. ASSUME NEW seq, NEW n \in Nat, NEW rest, Len(seq) \in Nat,
               CopyOf(data, tower_list, Raising, seq, n, rest)
        PROVE  HasFirst(seq, n)
    <3>1. \A j \in 1 .. Len(seq) : j <= n
      BY <2>2 DEF CopyOf
    <3> QED
      BY <2>2, <3>1 DEF CopyOf, Follows, HasFirst
  <2>3. pub = "copy" => HasFirst(cpy, From)
    <3>1. From \in Nat
      BY ListFacts DEF From, Inv, Shape
    <3> QED
      BY <2>2, <3>1, ListFacts DEF Contents, Making
  <2>4. \A t \in Threads : HasFirst(list[t], Len(list[t]))
    BY <2>2, ListFacts DEF Contents, Made
  <2> QED
    BY <2>1, <2>3, <2>4 DEF CopyComplete, From
<1> QED
  BY <1>1, InvAlways, ContentsAlways, PTL

\* A tower is put on the list before its first reading is parsed (wfpublish.c:456),
\* which only the first sensor of a message can show.
THEOREM OnlyNewestUnread == Spec => []UnreadOnlyNewest
<1>1. Contents => UnreadOnlyNewest
  BY DEF Contents, Made, AllRead, WasRead, Pending, UnreadOnlyNewest
<1> QED
  BY <1>1, ContentsAlways, PTL

\* The memcpy of wdcopy (wfp-send.c:89) and the parser that raises the high after
\* the temperature (wfpublish.c:472-476): a copy is never above the high of wd, but
\* for the tower that is being parsed.
THEOREM CopiesBelowHigh == Spec => []CopyBelowHigh
<1>1. Inv /\ Contents => CopyBelowHigh
  <2> SUFFICES ASSUME Inv, Contents, ~Ended, NEW t \in Threads, NEW j \in 1 .. Len(list[t])
      PROVE  LET i == Len(list[t]) + 1 - j
                 d == data[list[t][j]]
                 w == data[tower_list[i]]
             IN  /\ d.high <= w.high
                 /\ d.temperature = Unread \/ cur = i \/ d.temperature <= w.high
    BY DEF CopyBelowHigh
  <2>1. Follows(data[list[t][j]], data[tower_list[Len(list[t]) + 1 - j]],
                Raising = Len(list[t]) + 1 - j, {})
    BY DEF Contents, Made, CopyOf, Pending
  <2>2. Len(list[t]) + 1 - j > 0
    BY ListFacts
  <2> QED
    BY <2>1, <2>2 DEF Follows, Raising
<1> QED
  BY <1>1, InvAlways, ContentsAlways, PTL
-----------------------------------------------------------------------------
(***************************************************************************)
(* Refinement.  Under the mapping of Abstract a new tower enters, a high   *)
(* that is raised raises, the start of a walk asks, the creation of a      *)
(* thread sends, its failure withdraws and the end of a thread delivers;   *)
(* every other step, the copying among them, is invisible.                 *)
(***************************************************************************)

\* A step leaves what messages say of the sensor in cell c.
Says(c) == data'[c].id = data[c].id /\ data'[c].high = data[c].high

LEMMA EntriesAre ==
    ASSUME NEW s \in Seq(Cells)
    PROVE  /\ Len(Entries(s)) = Len(s) /\ DOMAIN Entries(s) = 1 .. Len(s)
           /\ \A i \in 1 .. Len(s) : /\ Entries(s)[i] = Entry(s[i])
                                     /\ Entries(s)[i].id = data[s[i]].id
                                     /\ Entries(s)[i].high = data[s[i]].high
BY DEF Entries, Entry

LEMMA RegisterKept ==
    ASSUME Inv, UNCHANGED tower_list, Ended' <=> Ended,
           ~Ended => \A c \in MainCells : Says(c)
    PROVE  register' = register
<1>1. CASE Ended
  BY <1>1 DEF register
<1>2. CASE ~Ended
  <2>1. \A i \in 1 .. Len(tower_list) : Says(tower_list[i])
    BY <1>2, ListFacts
  <2> QED
    BY <1>2, <2>1 DEF register, Entries, Entry, Says
<1> QED
  BY <1>1, <1>2

LEMMA MessageKept ==
    ASSUME Inv, NEW t \in Threads, list'[t] = list[t], \A c \in In(list[t]) : Says(c)
    PROVE  Entries(list[t])' = Entries(list[t])
<1>1. \A j \in 1 .. Len(list[t]) : Says(list[t][j])
  BY ListFacts
<1> QED
  BY <1>1 DEF Entries, Entry, Says

LEMMA OutgoingKept ==
    ASSUME Inv, UNCHANGED list, \A t \in Threads : thr'[t] = "idle" <=> thr[t] = "idle",
           \A c \in ThreadCells : Says(c)
    PROVE  outgoing' = outgoing
<1>1. \A t \in Threads : Entries(list[t])' = Entries(list[t])
  BY MessageKept, ThreadCellsHold DEF Inv
<1> QED
  BY <1>1 DEF outgoing

Invisible == UNCHANGED <<register, asked, outgoing>> /\ UNCHANGED Ended

LEMMA AsNew == ASSUME Inv, Contents, NEW s \in Sensors, NewTower(s) PROVE Abstract!Enter(s)
<1> DEFINE f == Fresh
           n == Len(tower_list)
           e == [id |-> s, high |-> NoHigh]
<1>1. /\ f \in Cells /\ f \notin alloc
      /\ data' = [data EXCEPT ![f] = [Zero(s) EXCEPT !.high = NoHigh]]
      /\ tower_list' = Append(tower_list, f)
      /\ main = "read" /\ main' = "temperature" /\ s \notin OnList
      /\ UNCHANGED <<list, thr, cpy, walk, todo, pub>>
  BY FreshIsNew DEF NewTower, Malloc, pubVars, thrVars, Inv, TypeOK
<1>2. ~Ended /\ ~Ended' /\ UNCHANGED Ended
  BY <1>1 DEF Ended
<1> HIDE DEF f
<1>3. /\ data'[f].id = s /\ data'[f].high = NoHigh
      /\ \A c \in Cells : c # f => Says(c)
  BY <1>1, CellTypes DEF Inv, Says, Zero
<1>4. tower_list \in Seq(Cells) /\ n \in Nat
  BY Facts
<1>5. /\ tower_list' \in Seq(Cells) /\ Len(tower_list') = n + 1 /\ tower_list'[n + 1] = f
      /\ \A i \in 1 .. n : tower_list'[i] = tower_list[i]
  BY <1>1, <1>4
<1>6. \A i \in 1 .. n : Says(tower_list[i])
  BY <1>1, <1>2, <1>3, Facts, ListFacts
<1>7. register = Entries(tower_list)
  BY <1>2 DEF register
<1>13. Len(register) = n /\ \A i \in 1 .. n : /\ register[i] = Entry(tower_list[i])
                                           /\ register[i].id = data[tower_list[i]].id
  BY <1>4, <1>7, EntriesAre
<1>8. register' = [i \in 1 .. n + 1 |-> [id |-> data'[tower_list'[i]].id,
                                         high |-> data'[tower_list'[i]].high]]
  BY <1>2, <1>5 DEF register, Entries, Entry
<1>9. register' = Append(register, e)
  <2>1. Append(register, e) = [i \in 1 .. n + 1 |-> IF i <= n THEN register[i] ELSE e]
    BY <1>13
  <2>3. \A i \in 1 .. n : [id |-> data'[tower_list'[i]].id,
                           high |-> data'[tower_list'[i]].high] = register[i]
    BY <1>5, <1>6, <1>13 DEF Says, Entry
  <2>4. [id |-> data'[tower_list'[n + 1]].id, high |-> data'[tower_list'[n + 1]].high] = e
    BY <1>3, <1>5
  <2>5. \A i \in 1 .. n + 1 : i \in 1 .. n \/ i = n + 1
    BY <1>4
  <2> QED
    BY <1>4, <1>8, <2>1, <2>3, <2>4, <2>5
<1>10. \A i \in 1 .. Len(register) : register[i].id # s
  <2>1. \A i \in 1 .. n : data[tower_list[i]].id # s
    BY <1>1 DEF OnList
  <2> QED
    BY <1>13, <2>1
<1>11. UNCHANGED asked
  BY <1>1 DEF asked
<1>12. UNCHANGED outgoing
  <2>1. ThreadCells \subseteq Cells /\ f \notin ThreadCells
    BY <1>1, Facts
  <2> QED
    BY <1>1, <1>3, <2>1, OutgoingKept
<1> QED
  BY <1>2, <1>9, <1>10, <1>11, <1>12 DEF Abstract!Enter

LEMMA AsKnown == ASSUME Inv, NEW s \in Sensors, KnownTower(s) PROVE Invisible
<1>1. UNCHANGED <<data, tower_list, list, thr, cpy, walk, todo, pub>>
      /\ ~Ended /\ ~Ended' /\ UNCHANGED Ended
  BY DEF KnownTower, heapVars, pubVars, thrVars, Ended
<1>2. \A c \in MainCells \cup ThreadCells : Says(c)
  BY <1>1 DEF Says
<1>3. UNCHANGED asked
  BY <1>1 DEF asked
<1> QED
  BY <1>1, <1>2, <1>3, RegisterKept, OutgoingKept DEF Invisible

LEMMA AsTemperature == ASSUME Inv, NEW v \in Temps, Temperature(v) PROVE Invisible
<1>1. /\ UNCHANGED <<tower_list, list, thr, cpy, walk, todo, pub>>
      /\ ~Ended /\ ~Ended' /\ UNCHANGED Ended
      /\ data' = [data EXCEPT ![tower_list[cur]].temperature = v]
  BY DEF Temperature, pubVars, thrVars, Ended
<1>2. \A c \in Cells : Says(c)
  BY <1>1, CellTypes DEF Inv, CellType, Says
<1>3. MainCells \subseteq Cells /\ ThreadCells \subseteq Cells
  BY Facts
<1>4. UNCHANGED asked
  BY <1>1 DEF asked
<1> QED
  BY <1>1, <1>2, <1>3, <1>4, RegisterKept, OutgoingKept DEF Invisible

LEMMA AsHigh ==
    ASSUME Inv, Contents, High
    PROVE  Invisible \/ \E i \in 1 .. Len(register), h \in Temps : Abstract!Raise(i, h)
<1> DEFINE c == tower_list[cur]
           d == data[c]
<1>1. /\ UNCHANGED <<tower_list, list, thr, cpy, walk, todo, pub>>
      /\ main = "high" /\ ~Ended /\ ~Ended' /\ UNCHANGED Ended
      /\ data' = IF d.temperature > d.high
                 THEN [data EXCEPT ![c].high = d.temperature] ELSE data
  BY DEF High, ReadOn, pubVars, thrVars, Ended
<1>2. /\ cur \in 1 .. Len(tower_list) /\ c \in MainCells /\ c \in Cells /\ Raising = cur
  <2>1. cur \in 1 .. Len(tower_list)
    BY <1>1, ListFacts DEF Inv, Shape
  <2> QED
    BY <1>1, <2>1, ListFacts DEF Raising
<1>3. UNCHANGED asked
  BY <1>1 DEF asked
<1>4. CASE ~(d.temperature > d.high)
  <2>1. \A x \in MainCells \cup ThreadCells : Says(x)
    BY <1>1, <1>4 DEF Says
  <2> QED
    BY <1>1, <1>3, <2>1, RegisterKept, OutgoingKept DEF Invisible
<1>5. CASE d.temperature > d.high
  <2>1. \A i \in 1 .. Len(tower_list) : Sound(data, tower_list, Parsed, Raising, i)
    BY <1>1 DEF Contents, Master
  <2>2. d.temperature \in Temps
    BY <1>2, <2>1, CellTypes DEF Sound, Inv, CellType
  <2>3. \A i \in 1 .. Len(tower_list) : tower_list[i] = c <=> i = cur
    BY <1>2, <2>1 DEF Sound
  <2> DEFINE h == d.temperature
  <2> HIDE DEF c
  <2>4. /\ \A x \in Cells : x # c => Says(x)
        /\ data'[c].id = d.id /\ data'[c].high = h
    BY <1>1, <1>2, <1>5, CellTypes DEF Inv, CellType, Says
  <2>5. UNCHANGED outgoing
    <3>1. ThreadCells \subseteq Cells /\ c \notin ThreadCells
      BY <1>2, Facts
    <3> QED
      BY <1>1, <2>4, <3>1, OutgoingKept
  <2>6. register = Entries(tower_list) /\ Len(register) = Len(tower_list)
        /\ \A i \in 1 .. Len(tower_list) : /\ register[i] = Entry(tower_list[i])
                                            /\ register[i].high = data[tower_list[i]].high
    BY <1>1, Facts, EntriesAre DEF register
  <2>7. register' = [register EXCEPT ![cur].high = h]
    <3>1. register' = [i \in 1 .. Len(tower_list) |-> [id |-> data'[tower_list[i]].id,
                                                       high |-> data'[tower_list[i]].high]]
      BY <1>1 DEF register, Entries, Entry
    <3>2. register = [i \in 1 .. Len(tower_list) |-> register[i]]
      BY <2>6 DEF Entries
    <3>3. ASSUME NEW i \in 1 .. Len(tower_list), i # cur
          PROVE  [id |-> data'[tower_list[i]].id, high |-> data'[tower_list[i]].high]
                   = register[i]
      BY <2>3, <2>4, <2>6, <3>3, ListFacts DEF Says, Entry
    <3>5. register[cur] = [id |-> d.id, high |-> d.high]
      BY <1>2, <2>6 DEF Entry, c
    <3>4. [id |-> data'[tower_list[cur]].id, high |-> data'[tower_list[cur]].high]
            = [register[cur] EXCEPT !.high = h]
      BY <2>4, <3>5 DEF c
    <3> QED
      BY <1>2, <3>1, <3>2, <3>3, <3>4
  <2>8. h > register[cur].high
    BY <1>2, <1>5, <2>6 DEF c
  <2>9. Abstract!Raise(cur, h)
    BY <1>1, <1>3, <2>5, <2>7, <2>8 DEF Abstract!Raise
  <2> QED
    BY <1>2, <2>2, <2>6, <2>9
<1> QED
  BY <1>4, <1>5

LEMMA AsShutdown == ASSUME Inv, Shutdown PROVE Abstract!Close
<1>1. /\ UNCHANGED <<tower_list, pub, cpy, walk, todo, list, thr>>
      /\ main = "read" /\ main' = "ended" /\ Free(tower_list)
  BY DEF Shutdown, pubVars, thrVars
<1>2. ~Ended /\ Ended' /\ MainCells = In(tower_list)
  BY <1>1 DEF Ended, MainCells
<1>3. \A c \in ThreadCells : Says(c)
  <2>1. ThreadCells \subseteq Cells /\ ThreadCells \cap MainCells = {}
    BY Facts
  <2> QED
    BY <1>1, <1>2, <2>1, Facts, AfterFree DEF Says
<1>4. UNCHANGED <<asked, outgoing>> /\ register' = <<>>
  BY <1>1, <1>2, <1>3, OutgoingKept DEF asked, register
<1> QED
  BY <1>2, <1>4 DEF Abstract!Close

LEMMA AsRound == ASSUME Inv, Signalled \/ WaitAgain PROVE Invisible
<1>1. /\ UNCHANGED <<data, tower_list, main, list, thr, cpy, walk, todo>>
      /\ pub # "copy" /\ pub' # "copy"
  BY DEF Signalled, WaitAgain, heapVars, mainVars, thrVars
<1>2. \A c \in MainCells \cup ThreadCells : Says(c)
  BY <1>1 DEF Says
<1>3. UNCHANGED Ended /\ (Ended' <=> Ended) /\ UNCHANGED asked
  BY <1>1 DEF Ended, asked
<1> QED
  BY <1>1, <1>2, <1>3, RegisterKept, OutgoingKept DEF Invisible

LEMMA AsCopyStart == ASSUME Inv, Contents, CopyStart PROVE Abstract!Ask
<1>1. /\ UNCHANGED <<data, tower_list, main, list, thr, cpy, todo>>
      /\ pub = "next" /\ pub' = "copy"
      /\ walk' = IF Ended THEN 0 ELSE Len(tower_list)
  BY DEF CopyStart, heapVars, mainVars, thrVars
<1>2. \A c \in MainCells \cup ThreadCells : Says(c)
  BY <1>1 DEF Says
<1>3. UNCHANGED Ended /\ (Ended' <=> Ended)
  BY <1>1 DEF Ended
<1>4. Len(cpy) = 0 /\ todo = {}
  BY <1>1 DEF Contents, Making, Inv, Shape
<1>5. asked = -1 /\ asked' = walk'
  BY <1>1, <1>4, ListFacts DEF asked
<1>6. Len(register) = walk'
  BY <1>1, Facts, EntriesAre DEF register
<1> QED
  BY <1>1, <1>2, <1>3, <1>5, <1>6, RegisterKept, OutgoingKept DEF Abstract!Ask, Abstract!Nothing

LEMMA AsCopySensor == ASSUME Inv, CopySensor PROVE Invisible
<1> DEFINE f == Fresh
<1>1. /\ f \in Cells /\ f \notin alloc
      /\ \A c \in Cells : c # f => data'[c] = data[c]
      /\ cpy' = Append(cpy, f) /\ UNCHANGED <<tower_list, main, pub, walk, list, thr>>
      /\ todo = {} /\ todo' = Fields
  BY FreshIsNew DEF CopySensor, Malloc, mainVars, thrVars, Inv, TypeOK
<1> HIDE DEF f
<1>2. \A c \in MainCells \cup ThreadCells : Says(c)
  BY <1>1, Facts DEF Says
<1>3. UNCHANGED Ended /\ (Ended' <=> Ended)
  BY <1>1 DEF Ended
<1>4. Len(cpy') = Len(cpy) + 1 /\ Len(cpy) \in Nat /\ todo' # {} /\ walk \in Nat
  <2>1. cpy \in Seq(Cells)
    BY Facts
  <2> QED
    BY <1>1, <2>1, ListFacts DEF Fields
<1>5. UNCHANGED asked
  BY <1>1, <1>4 DEF asked
<1> QED
  BY <1>1, <1>2, <1>3, <1>5, RegisterKept, OutgoingKept DEF Invisible

LEMMA AsCopyField == ASSUME Inv, NEW g \in Fields, CopyField(g) PROVE Invisible
<1> DEFINE c == cpy[Len(cpy)]
<1>1. /\ g \in todo /\ data' = [data EXCEPT ![c][g] = data[tower_list[walk]][g]]
      /\ todo' = todo \ {g} /\ walk' = IF todo' = {} THEN walk - 1 ELSE walk
      /\ UNCHANGED <<tower_list, main, pub, cpy, list, thr>>
  BY DEF CopyField, mainVars, thrVars
<1>2. c \in In(cpy) /\ walk \in Nat /\ Len(cpy) \in Nat
  BY <1>1, ListFacts DEF Inv, Shape
<1> HIDE DEF c
<1>3. c \notin MainCells /\ c \notin ThreadCells /\ MainCells \cup ThreadCells \subseteq Cells
  BY <1>2, Facts DEF Inv, OneOwner
<1>4. \A e \in MainCells \cup ThreadCells : Says(e)
  BY <1>1, <1>3, CellTypes DEF Inv, Says
<1>5. UNCHANGED Ended /\ (Ended' <=> Ended)
  BY <1>1 DEF Ended
<1>6. UNCHANGED asked
  BY <1>1, <1>2 DEF asked
<1> QED
  BY <1>1, <1>4, <1>5, <1>6, RegisterKept, OutgoingKept DEF Invisible

\* A copy that is complete is what was asked for.
LEMMA AsCreate ==
    ASSUME Inv, Contents, NEW t \in Threads, NEW kind \in Kinds, Create(t, kind)
    PROVE  Abstract!Send(t)
<1> DEFINE m == Entries(cpy)
<1>1. /\ UNCHANGED <<data, tower_list, main>>
      /\ pub = "copy" /\ pub' = "next" /\ todo = {} /\ walk = 0 /\ thr[t] = "idle"
      /\ thr' = [thr EXCEPT ![t] = "convert"] /\ list' = [list EXCEPT ![t] = cpy]
  BY DEF Create, Copied, heapVars, mainVars
<1>2. UNCHANGED Ended /\ (Ended' <=> Ended) /\ UNCHANGED register
  <2>1. \A c \in MainCells : Says(c)
    BY <1>1 DEF Says
  <2>2. UNCHANGED Ended /\ (Ended' <=> Ended)
    BY <1>1 DEF Ended
  <2> QED
    BY <1>1, <2>1, <2>2, RegisterKept
<1>3. asked = Len(cpy) /\ Len(cpy) \in Nat /\ asked' = -1
  BY <1>1, ListFacts DEF asked
<1>4. /\ Len(m) = Len(cpy)
      /\ \A j \in 1 .. Len(cpy) : m[j].id = data[cpy[j]].id /\ m[j].high = data[cpy[j]].high
  BY Facts, EntriesAre
<1>5. outgoing' = [outgoing EXCEPT ![t] = {m}]
  <2>1. thr'[t] # "idle" /\ \A u \in Threads \ {t} : thr'[u] = thr[u]
    BY <1>1 DEF Inv, TypeOK
  <2>2. list'[t] = cpy /\ \A u \in Threads \ {t} : list'[u] = list[u]
    BY <1>1, Facts
  <2>3. Entries(list[t])' = m
    BY <1>1, <2>2 DEF Entries, Entry
  <2>4. \A u \in Threads \ {t} : Entries(list[u])' = Entries(list[u])
    BY <1>1, <2>2 DEF Entries, Entry
  <2> HIDE DEF m
  <2> QED
    BY <2>1, <2>3, <2>4 DEF outgoing
<1>6. outgoing[t] = {} /\ outgoing'[t] = {m}
  BY <1>1, <1>5 DEF outgoing
<1> HIDE DEF m
<1>7. ASSUME ~Ended
      PROVE  asked <= Len(register) /\ Abstract!Faithful(m, asked)
  <2>1. CopyOf(data, tower_list, Raising, cpy, Len(cpy), {})
    BY <1>1, <1>3, <1>7 DEF Contents, Making, From
  <2>2. /\ Len(register) = Len(tower_list) /\ Len(tower_list) \in Nat
        /\ \A i \in 1 .. Len(tower_list) : /\ register[i].id = data[tower_list[i]].id
                                            /\ register[i].high = data[tower_list[i]].high
    BY <1>7, Facts, ListFacts, EntriesAre DEF register
  <2>3. Len(cpy) <= Len(tower_list)
    BY <2>1 DEF CopyOf
  <2>4. ASSUME NEW j \in 1 .. Len(cpy)
        PROVE  /\ m[j].id = register[Len(cpy) + 1 - j].id
               /\ m[j].high <= register[Len(cpy) + 1 - j].high
    <3>1. Len(cpy) + 1 - j \in 1 .. Len(tower_list)
      BY <1>3, <2>2, <2>3
    <3>2. /\ data[cpy[j]].id = data[tower_list[Len(cpy) + 1 - j]].id
          /\ data[cpy[j]].high <= data[tower_list[Len(cpy) + 1 - j]].high
      BY <2>1 DEF CopyOf, Follows, Pending
    <3> QED
      BY <1>4, <2>2, <3>1, <3>2
  <2> QED
    BY <1>3, <2>2, <2>3, <2>4 DEF Abstract!Faithful
<1>8. \E x \in outgoing'[t] :
        /\ Len(x) = asked
        /\ ~Ended => asked <= Len(register) /\ Abstract!Faithful(x, asked)
        /\ outgoing' = [outgoing EXCEPT ![t] = {x}]
  <2>1. m \in outgoing'[t] /\ Len(m) = asked
    BY <1>3, <1>4, <1>6
  <2> QED
    BY <1>5, <1>7, <2>1, Zenon
<1>9. asked # -1
  BY <1>3
<1> QED
  BY <1>2, <1>3, <1>6, <1>8, <1>9, Zenon DEF Abstract!Send, Abstract!Nothing

LEMMA AsCreateFails == ASSUME Inv, CreateFails PROVE Abstract!Withdraw
<1>1. /\ UNCHANGED <<tower_list, main, list, thr>>
      /\ pub = "copy" /\ pub' = "next" /\ todo = {} /\ walk = 0 /\ Free(cpy)
  BY DEF CreateFails, Copied, mainVars, thrVars
<1>2. \A c \in MainCells \cup ThreadCells : Says(c)
  <2>1. MainCells \cup ThreadCells \subseteq Cells
        /\ In(cpy) \cap (MainCells \cup ThreadCells) = {}
    BY Facts DEF Inv, OneOwner
  <2> QED
    BY <1>1, <2>1, Facts, AfterFree DEF Says
<1>3. UNCHANGED Ended /\ (Ended' <=> Ended)
  BY <1>1 DEF Ended
<1>4. asked = Len(cpy) /\ Len(cpy) \in Nat /\ asked' = -1
  BY <1>1, ListFacts DEF asked
<1> QED
  BY <1>1, <1>2, <1>3, <1>4, RegisterKept, OutgoingKept DEF Abstract!Withdraw, Abstract!Nothing

LEMMA AsUpdate == ASSUME Inv, NEW t \in Threads, Update(t) PROVE Invisible
<1>1. /\ UNCHANGED <<tower_list, main, list, pub, cpy, walk, todo>>
      /\ UNCHANGED data \/ Converted(list[t])
      /\ thr[t] = "convert" /\ thr' = [thr EXCEPT ![t] = "send"]
  BY DEF Update, mainVars, pubVars
<1>2. \A c \in Cells : Says(c)
  <2>1. data \in [Cells -> CellType]
    BY CellTypes DEF Inv
  <2> QED
    BY <1>1, <2>1 DEF Converted, Says, CellType
<1>3. MainCells \subseteq Cells /\ ThreadCells \subseteq Cells
  BY Facts
<1>4. \A u \in Threads : thr'[u] = "idle" <=> thr[u] = "idle"
  BY <1>1 DEF Inv, TypeOK
<1>5. UNCHANGED Ended /\ (Ended' <=> Ended) /\ UNCHANGED asked
  BY <1>1 DEF Ended, asked
<1> QED
  BY <1>1, <1>2, <1>3, <1>4, <1>5, RegisterKept, OutgoingKept DEF Invisible

LEMMA AsGone ==
    ASSUME Inv, NEW t \in Threads, Gone(t), thr[t] = "send",
           \A c \in Cells : c \notin In(list[t]) => data'[c] = data[c]
    PROVE  Abstract!Deliver(t)
<1>1. /\ UNCHANGED <<tower_list, main, pub, cpy, walk, todo>>
      /\ thr[t] = "send" /\ thr' = [thr EXCEPT ![t] = "idle"]
      /\ list' = [list EXCEPT ![t] = <<>>]
  BY DEF Gone, mainVars, pubVars
<1>2. \A c \in Cells : c \notin In(list[t]) => Says(c)
  BY DEF Says
<1>3. UNCHANGED Ended /\ (Ended' <=> Ended) /\ UNCHANGED asked
  BY <1>1 DEF Ended, asked
<1>4. UNCHANGED register
  <2>1. MainCells \subseteq Cells /\ MainCells \cap In(list[t]) = {}
    BY Facts DEF Inv, OneOwner
  <2> QED
    BY <1>1, <1>2, <1>3, <2>1, RegisterKept
<1>5. outgoing' = [outgoing EXCEPT ![t] = {}]
  <2>1. thr'[t] = "idle" /\ \A u \in Threads \ {t} : thr'[u] = thr[u] /\ list'[u] = list[u]
    BY <1>1 DEF Inv, TypeOK
  <2>2. ASSUME NEW u \in Threads \ {t} PROVE Entries(list[u])' = Entries(list[u])
    <3>1. In(list[u]) \subseteq Cells /\ In(list[u]) \cap In(list[t]) = {}
      BY Facts
    <3> QED
      BY <1>2, <2>1, <3>1, MessageKept
  <2> QED
    BY <2>1, <2>2 DEF outgoing
<1>6. outgoing[t] # {}
  BY <1>1 DEF outgoing
<1> QED
  BY <1>3, <1>4, <1>5, <1>6 DEF Abstract!Deliver

LEMMA AsFinish == ASSUME Inv, NEW t \in Threads, Finish(t) PROVE Abstract!Deliver(t)
<1>1. Gone(t) /\ Free(list[t]) /\ thr[t] = "send"
  BY DEF Finish
<1>2. \A c \in Cells : c \notin In(list[t]) => data'[c] = data[c]
  BY <1>1, Facts, AfterFree
<1> QED
  BY <1>1, <1>2, AsGone

LEMMA AsExit == ASSUME Inv, NEW t \in Threads, Exit(t) PROVE Abstract!Deliver(t)
<1>1. /\ Gone(t) /\ thr[t] = "send"
      /\ \A c \in Cells : c \notin In(list[t]) => data'[c] = data[c]
  BY DEF Exit
<1> QED
  BY <1>1, AsGone
-----------------------------------------------------------------------------
LEMMA AbstractInit == Init => Abstract!Init
<1> SUFFICES ASSUME Init PROVE Abstract!Init
  OBVIOUS
<1>1. tower_list = <<>> /\ main = "read" /\ pub = "wait" /\ \A t \in Threads : thr[t] = "idle"
  BY DEF Init
<1>2. register = <<>>
  BY <1>1, InEmpty DEF register, Entries
<1>3. asked = -1 /\ outgoing = [t \in Threads |-> {}] /\ Ended = FALSE
  BY <1>1 DEF asked, outgoing, Ended
<1> QED
  BY <1>2, <1>3 DEF Abstract!Init, Abstract!Nothing

LEMMA AbstractStep ==
    Inv /\ Contents /\ [Next]_vars => [Abstract!Next]_(Abstract!rvars)
<1> SUFFICES ASSUME Inv, Contents, [Next]_vars PROVE Abstract!Next \/ Invisible
  BY DEF Abstract!rvars, Invisible
<1>1. CASE MainNext
  <2>1. ASSUME NEW s \in Sensors, NewTower(s) PROVE Abstract!Next
    BY <2>1, AsNew DEF Abstract!Next
  <2>2. CASE High
    BY <2>2, AsHigh DEF Abstract!Next
  <2>3. CASE Shutdown
    BY <2>3, AsShutdown DEF Abstract!Next
  <2> QED
    BY <1>1, <2>1, <2>2, <2>3, AsKnown, AsTemperature DEF MainNext
<1>2. CASE PubNext
  <2>1. CASE CopyStart
    BY <2>1, AsCopyStart DEF Abstract!Next
  <2>2. ASSUME NEW t \in Threads, NEW kind \in Kinds, Create(t, kind) PROVE Abstract!Next
    BY <2>2, AsCreate DEF Abstract!Next
  <2>3. CASE CreateFails
    BY <2>3, AsCreateFails DEF Abstract!Next
  <2> QED
    BY <1>2, <2>1, <2>2, <2>3, AsRound, AsCopySensor, AsCopyField DEF PubNext
<1>3. ASSUME NEW t \in Threads, ThreadNext(t) PROVE Abstract!Next \/ Invisible
  <2>1. CASE Finish(t)
    BY <2>1, AsFinish DEF Abstract!Next
  <2>2. CASE Exit(t)
    BY <2>2, AsExit DEF Abstract!Next
  <2> QED
    BY <1>3, <2>1, <2>2, AsUpdate DEF ThreadNext
<1>4. CASE UNCHANGED vars
  <2>1. UNCHANGED <<data, tower_list, main, pub, cpy, walk, todo, thr, list>>
    BY <1>4 DEF vars, heapVars, mainVars, pubVars, thrVars
  <2> QED
    BY <2>1 DEF Invisible, register, asked, outgoing, Ended, Entries, Entry
<1> QED
  BY <1>1, <1>2, <1>3, <1>4 DEF Next

\* The list of wfp_tower_parse and the copies of wdcopy implement the register:
\* however main and the publish thread interleave, a message has the towers that
\* were on the list when its walk began, once each, the newest copied first, with a
\* high that is not above theirs, and nobody changes it until it is sent.
THEOREM Implements == Spec => ImplementsRegister
<1>1. Spec => Abstract!Init
  BY AbstractInit DEF Spec
<1>2. Spec => [][Abstract!Next]_(Abstract!rvars)
  BY AbstractStep, InvAlways, ContentsAlways, PTL DEF Spec
<1> QED
  BY <1>1, <1>2, PTL DEF ImplementsRegister, Abstract!Spec
=============================================================================
