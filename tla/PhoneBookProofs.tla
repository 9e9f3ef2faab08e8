--------------------------- MODULE PhoneBookProofs ---------------------------
(***************************************************************************)
(* Proofs about PhoneBook, for any number of contacts, any fields and any  *)
(* texts.                                                                  *)
(*                                                                         *)
(* The inductive invariant says that the form covers the entry the         *)
(* document's index names, that ids are used once, and what a save has     *)
(* done so far: one contact less in the database while the new one is not  *)
(* created yet, and its entry the only one without a contact.              *)
(***************************************************************************)
EXTENDS PhoneBook, FiniteSetTheorems, TLAPS

\* Ids are handed out once, and every entry has its own.
IdsUsed ==
    /\ \A id \in DOMAIN db : id < nextId
    /\ \A i \in DOMAIN contacts : contacts[i].id < nextId
    /\ \A i, j \in DOMAIN contacts : contacts[i].id = contacts[j].id => i = j

\* The form was opened on the current item of the list box under it.
FormCovers ==
    form # "closed" /\ listBox => found # << >> /\ found[cursor] = modifyIndex

\* A save runs in the form, and has found an id free.
SaveInForm ==
    /\ step # "idle" => form = "edit"
    /\ step = "create" => nextId <= MaxId

\* Between the deletion and the creation the entry of the form is without a
\* contact.
EntriesExist ==
    calm => \A i \in DOMAIN contacts :
        \/ contacts[i].id \in DOMAIN db \cup removed
        \/ step = "create" /\ i = modifyIndex

\* The contact a save has deleted is not there twice.
Room ==
    Cardinality(DOMAIN db) + Cardinality(removed)
        + (IF step = "create" THEN 1 ELSE 0) <= Initial

Indexes == IndexesInRange /\ FormCovers

IInv ==
    /\ TypeOK
    /\ SaveInForm
    /\ Indexes
    /\ ListSorted
    /\ IdsUsed
    /\ EntriesExist
    /\ FormIsStored
    /\ Room

-----------------------------------------------------------------------------
(* The list that is loaded, and its filters *)

\* There are finitely many contacts.
LEMMA FiniteDb ==
  ASSUME DatabaseOK
  PROVE  /\ IsFiniteSet(DOMAIN db) /\ IsFiniteSet(removed)
         /\ Cardinality(DOMAIN db) \in Nat /\ Cardinality(removed) \in Nat
  <1>1. IsFiniteSet(Ids)
    BY IdsAssumption, FS_Interval DEF Ids
  <1> QED
    BY <1>1, FS_Subset, FS_CardinalityType DEF DatabaseOK

\* LoadContactsL makes an entry of every contact, and SortContactsL sorts
\* the entries.
LEMMA ListsSound ==
  ASSUME DatabaseOK, NEW list \in Lists
  PROVE  /\ list \in Seq(Entry)
         /\ DOMAIN list = 1 .. Cardinality(DOMAIN db)
         /\ \A i \in DOMAIN list : list[i].id \in DOMAIN db
         /\ \A i, j \in DOMAIN list : list[i].id = list[j].id => i = j
         /\ \A i, j \in DOMAIN list : i <= j => list[i].name <= list[j].name
         /\ list = << >> <=> DOMAIN db = {}
  <1> DEFINE n == Cardinality(DOMAIN db)
  <1>1. n \in Nat /\ (n = 0 <=> DOMAIN db = {})
    BY FiniteDb, FS_EmptySet
  <1>2. \A id \in DOMAIN db : Listed(id) \in Entry /\ Listed(id).id = id
    BY FieldsAssumption DEF DatabaseOK, Listed, Entry, Contact
  <1>3. list \in [1 .. n -> {Listed(id) : id \in DOMAIN db}]
    BY DEF Lists
  <1>4. list \in [1 .. n -> Entry]
    BY <1>2, <1>3
  <1>5. list \in Seq(Entry) /\ Len(list) = n
    BY <1>1, <1>4
  <1>6. DOMAIN list = 1 .. n
    BY <1>3
  <1>7. \A i \in 1 .. n : list[i].id \in DOMAIN db
    BY <1>2, <1>3
  <1>8. list = << >> <=> n = 0
    BY <1>1, <1>5
  <1> QED
    BY <1>1, <1>5, <1>6, <1>7, <1>8 DEF Lists

\* The filter of an empty find box lets every entry through.
LEMMA AllSound ==
  ASSUME NEW list \in Seq(Entry)
  PROVE  /\ All(list) \in Seq(DOMAIN list)
         /\ DOMAIN All(list) = DOMAIN list
         /\ All(list) = << >> <=> list = << >>
  BY DEF All

\* A filter is a list of entries.
LEMMA FiltersSound ==
  ASSUME contacts \in Seq(Entry), NEW names, NEW f \in Filters(names)
  PROVE  f \in Seq(DOMAIN contacts)
  <1> DEFINE S == {i \in DOMAIN contacts : contacts[i].name \in names}
  <1>1. IsFiniteSet(DOMAIN contacts)
    BY FS_Interval
  <1>2. Cardinality(S) \in Nat
    BY <1>1, FS_Subset, FS_CardinalityType
  <1>3. f \in [1 .. Cardinality(S) -> DOMAIN contacts]
    BY DEF Filters
  <1> HIDE DEF S
  <1> QED
    BY <1>2, <1>3

-----------------------------------------------------------------------------
(* Starting the application *)

\* A new process finds everything in order, whatever the one before it left.
LEMMA RestartSound ==
  ASSUME DatabaseOK, \A id \in DOMAIN db : id < nextId, Restart
  PROVE  /\ TypeOK' /\ SaveInForm' /\ Indexes' /\ ListSorted' /\ IdsUsed'
         /\ EntriesExist' /\ FormIsStored'
  <1>1. /\ contacts' \in Seq(Entry)
        /\ DOMAIN contacts' = 1 .. Cardinality(DOMAIN db)
        /\ \A i \in DOMAIN contacts' : contacts'[i].id \in DOMAIN db
        /\ \A i, j \in DOMAIN contacts' : contacts'[i].id = contacts'[j].id => i = j
        /\ \A i, j \in DOMAIN contacts' : i <= j => contacts'[i].name <= contacts'[j].name
        /\ contacts' = << >> <=> DOMAIN db = {}
    BY ListsSound DEF Restart
  <1>2. /\ found' \in Seq(DOMAIN contacts')
        /\ DOMAIN found' = DOMAIN contacts'
        /\ found' = << >> <=> contacts' = << >>
    BY <1>1, AllSound DEF Restart
  <1>3. NoLines \in Lines
    BY DEF NoLines, Lines, Value
  <1>4. TypeOK'
    BY <1>1, <1>2, <1>3 DEF Restart, TypeOK, DatabaseOK, ListOK, FormOK
  <1>5. SaveInForm' /\ FormCovers' /\ FormIsStored'
    BY DEF Restart, SaveInForm, FormCovers, FormIsStored, InForm
  <1>6. IndexesInRange'
    <2>1. DOMAIN db # {} => 1 \in DOMAIN found'
      BY <1>1, <1>2, FiniteDb, FS_EmptySet
    <2> QED
      BY <1>1, <1>2, <2>1 DEF Restart, IndexesInRange
  <1>7. ListSorted' /\ IdsUsed' /\ EntriesExist'
    BY <1>1 DEF Restart, ListSorted, IdsUsed, EntriesExist
  <1> QED
    BY <1>4, <1>5, <1>6, <1>7 DEF Indexes

LEMMA Initially == Init => IInv
  <1> SUFFICES ASSUME Init PROVE IInv
    OBVIOUS
  <1>1. /\ DOMAIN db = 1 .. Initial
        /\ \A id \in DOMAIN db : db[id] \in Contact
    BY DEF Init, Contact, Value
  <1>2. DatabaseOK
    BY <1>1, IdsAssumption DEF Init, DatabaseOK, Ids
  <1>3. Cardinality(DOMAIN db) = Initial /\ Initial >= 1
    BY <1>1, IdsAssumption, FS_Interval
  <1>4. /\ contacts \in Seq(Entry)
        /\ DOMAIN contacts = 1 .. Initial
        /\ \A i \in DOMAIN contacts : contacts[i].id \in DOMAIN db
        /\ \A i, j \in DOMAIN contacts : contacts[i].id = contacts[j].id => i = j
        /\ \A i, j \in DOMAIN contacts : i <= j => contacts[i].name <= contacts[j].name
    BY <1>2, <1>3, ListsSound DEF Init
  <1>5. found \in Seq(DOMAIN contacts) /\ DOMAIN found = DOMAIN contacts
    BY <1>4, AllSound DEF Init
  <1>6. NoLines \in Lines
    BY DEF NoLines, Lines, Value
  <1>7. TypeOK
    BY <1>2, <1>4, <1>5, <1>6 DEF Init, TypeOK, ListOK, FormOK
  <1>8. 1 \in DOMAIN found
    BY <1>3, <1>4, <1>5
  <1>9. Indexes
    BY <1>5, <1>8 DEF Init, Indexes, IndexesInRange, FormCovers
  <1>10. SaveInForm /\ ListSorted /\ EntriesExist /\ FormIsStored
    BY <1>4 DEF Init, SaveInForm, ListSorted, EntriesExist, FormIsStored, InForm
  <1>11. IdsUsed
    BY <1>1, <1>4, IdsAssumption DEF Init, IdsUsed
  <1>12. Room
    BY <1>3, FS_EmptySet, IdsAssumption DEF Init, Room
  <1> QED
    BY <1>7, <1>9, <1>10, <1>11, <1>12 DEF IInv

-----------------------------------------------------------------------------
(* The other steps, one part of the invariant at a time *)

\* The steps of the list and of the form that touch no contact.
Browse ==
    /\ \/ MoveCursor \/ FindText \/ LeaveList \/ ReturnToList \/ NewContact \/ OpenForm
       \/ CallFromForm \/ EditForm \/ TypeLine \/ CloseForm \/ Discard
    /\ ~Restart

\* The contact under the cursor goes.
DeletesChosen == DeleteContact /\ ~Restart

LEMMA StepCases ==
  Next => \/ Restart \/ Browse \/ DeletesChosen \/ SaveDelete \/ SaveCreate \/ SaveCopy
          \/ OtherDeletes \/ OtherEdits
  BY DEF Next, Application, Browse, DeletesChosen

LEMMA BrowseKeeps ==
  ASSUME Browse
  PROVE  /\ UNCHANGED <<db, nextId, removed, calm, contacts, step, outcome>>
         /\ step = "idle"
  BY DEF Browse, MoveCursor, FindText, LeaveList, ReturnToList, NewContact, OpenForm,
         CallFromForm, EditForm, TypeLine, CloseForm, Discard, AtList, InForm, Idle,
         database, selection, saving

LEMMA DeletesKeeps ==
  ASSUME DeletesChosen
  PROVE  /\ step = "idle" /\ form # "edit"
         /\ listBox /\ found # << >> /\ Exists(Chosen)
         /\ db' = Without(Chosen) /\ removed' = removed \cup {Chosen}
         /\ UNCHANGED <<nextId, calm, contacts, listBox, found, cursor, modifyIndex,
                        form, lines, step, outcome>>
  BY DEF DeletesChosen, DeleteContact, Idle, selection, saving

\* An entry, and what SetEntryId makes of it.
LEMMA EntryFields ==
  \A e \in Entry : /\ e.id \in Ids
                    /\ \A id \in Ids : /\ [e EXCEPT !.id = id] \in Entry
                                        /\ [e EXCEPT !.id = id].id = id
                                        /\ [e EXCEPT !.id = id].name = e.name
  BY DEF Entry

\* The entry a form is about, and the entry under the cursor.
LEMMA EntriesTyped ==
  ASSUME TypeOK, Indexes
  PROVE  /\ form # "closed" => Edited \in Ids
         /\ listBox /\ found # << >> =>
               found[cursor] \in DOMAIN contacts /\ Chosen \in Ids
  <1>1. \A i \in DOMAIN contacts : contacts[i] \in Entry /\ contacts[i].id \in Ids
    BY EntryFields DEF TypeOK, ListOK
  <1>2. form # "closed" => modifyIndex \in DOMAIN contacts
    BY DEF Indexes, IndexesInRange
  <1>3. listBox /\ found # << >> => found[cursor] \in DOMAIN contacts
    <2>1. listBox /\ found # << >> => cursor \in DOMAIN found
      BY DEF Indexes, IndexesInRange
    <2>2. \A k \in DOMAIN found : found[k] \in DOMAIN contacts
      BY DEF TypeOK, ListOK
    <2> QED
      BY <2>1, <2>2
  <1> QED
    BY <1>1, <1>2, <1>3 DEF Edited, Chosen

LEMMA DomainWith == ASSUME NEW id, NEW c PROVE DOMAIN With(id, c) = DOMAIN db \cup {id}
  BY DEF With

LEMMA DomainWithout == ASSUME NEW id PROVE DOMAIN Without(id) = DOMAIN db \ {id}
  BY DEF Without

\* Copying the form to the new contact adds no contact.
LEMMA SaveCopyDomain ==
  ASSUME SaveCopy
  PROVE  DOMAIN db' = DOMAIN db /\ UNCHANGED <<nextId, removed, contacts>>
  <1>1. Exists(Edited) => DOMAIN With(Edited, Filled) = DOMAIN db
    BY DomainWith DEF Exists
  <1> QED
    BY <1>1 DEF SaveCopy, SaveLeaves

\* Writing or removing a contact keeps the database typed.
LEMMA WithTyped ==
  ASSUME DatabaseOK, NEW id \in Ids, NEW c \in Contact
  PROVE  /\ DOMAIN With(id, c) \subseteq Ids
         /\ \A i \in DOMAIN With(id, c) : With(id, c)[i] \in Contact
  BY DEF With, DatabaseOK

LEMMA WithoutTyped ==
  ASSUME DatabaseOK, NEW id
  PROVE  /\ DOMAIN Without(id) \subseteq Ids
         /\ \A i \in DOMAIN Without(id) : Without(id)[i] \in Contact
  BY DEF Without, DatabaseOK

LEMMA ContactsTyped ==
  ASSUME TypeOK
  PROVE  /\ Filled \in Contact
         /\ [f \in Fields |-> Blank] \in Contact
         /\ \A c \in [Fields -> Texts] : c \in Contact
  BY DEF TypeOK, FormOK, Lines, Filled, Contact, Value

LEMMA NextDatabase ==
  ASSUME TypeOK, Indexes, SaveInForm, Next, ~Restart
  PROVE  DatabaseOK'
  <1>0. /\ DatabaseOK
        /\ DOMAIN db \subseteq Ids /\ calm \in BOOLEAN /\ removed \subseteq Ids
        /\ nextId \in 1 .. MaxId + 1 /\ (step # "idle" => form # "closed")
    BY DEF TypeOK, DatabaseOK, SaveInForm
  <1>1. CASE Browse
    BY <1>0, <1>1, BrowseKeeps DEF DatabaseOK
  <1>2. CASE DeletesChosen
    BY <1>0, <1>2, DeletesKeeps, EntriesTyped, WithoutTyped DEF DatabaseOK
  <1>3. CASE SaveDelete
    BY <1>0, <1>3, WithoutTyped DEF DatabaseOK, SaveDelete, SaveLeaves
  <1>4. CASE SaveCreate
    <2>1. step = "create" /\ nextId \in Ids /\ nextId + 1 \in 1 .. MaxId + 1
      BY <1>0, <1>4, IdsAssumption DEF SaveCreate, SaveInForm, Ids
    <2> QED
      BY <1>0, <1>4, <2>1, WithTyped, ContactsTyped DEF DatabaseOK, SaveCreate, SaveLeaves
  <1>5. CASE SaveCopy
    <2>1. Edited \in Ids
      BY <1>0, <1>5, EntriesTyped DEF SaveCopy
    <2> QED
      BY <1>0, <1>5, <2>1, WithTyped, ContactsTyped DEF DatabaseOK, SaveCopy, SaveLeaves
  <1>6. CASE OtherDeletes
    BY <1>0, <1>6, WithoutTyped DEF DatabaseOK, OtherDeletes
  <1>7. CASE OtherEdits
    BY <1>0, <1>7, WithTyped, ContactsTyped DEF DatabaseOK, OtherEdits
  <1> QED
    BY <1>1, <1>2, <1>3, <1>4, <1>5, <1>6, <1>7, StepCases

\* The entries of the list: only SaveCreate changes one, and only its id.
LEMMA NextContacts ==
  ASSUME TypeOK, Indexes, SaveInForm, ListSorted, Next, ~Restart
  PROVE  /\ contacts' \in Seq(Entry)
         /\ DOMAIN contacts' = DOMAIN contacts
         /\ ListSorted'
  <1>0. contacts \in Seq(Entry)
    BY DEF TypeOK, ListOK
  <1>1. CASE contacts' = contacts
    BY <1>0, <1>1 DEF ListSorted
  <1>2. CASE /\ step = "create"
             /\ contacts' = [contacts EXCEPT ![modifyIndex].id = nextId]
    <2>1. nextId \in Ids
      BY <1>2, IdsAssumption DEF SaveInForm, TypeOK, DatabaseOK, Ids
    <2>0. modifyIndex \in DOMAIN contacts
      BY <1>2 DEF SaveInForm, Indexes, IndexesInRange
    <2>2. /\ [contacts[modifyIndex] EXCEPT !.id = nextId] \in Entry
          /\ [contacts[modifyIndex] EXCEPT !.id = nextId].name = contacts[modifyIndex].name
      BY <1>0, <2>0, <2>1, EntryFields
    <2>3. /\ contacts' \in Seq(Entry)
          /\ DOMAIN contacts' = DOMAIN contacts
      BY <1>0, <1>2, <2>0, <2>1, <2>2
    <2>4. \A i \in DOMAIN contacts : contacts'[i].name = contacts[i].name
      BY <1>0, <1>2, <2>0, <2>2
    <2> QED
      BY <2>3, <2>4 DEF ListSorted
  <1>3. \/ contacts' = contacts
        \/ step = "create" /\ contacts' = [contacts EXCEPT ![modifyIndex].id = nextId]
    BY StepCases, BrowseKeeps, DeletesKeeps
    DEF SaveDelete, SaveCreate, SaveCopy, SaveLeaves, OtherDeletes, OtherEdits
  <1> QED
    BY <1>1, <1>2, <1>3

\* The current item and the index in the document stay within the list, and
\* the form stays on its entry.
LEMMA NextSelection ==
  ASSUME TypeOK, Indexes, SaveInForm, ListSorted, Next, ~Restart
  PROVE  ListOK' /\ Indexes'
  <1>0. /\ contacts' \in Seq(Entry)
        /\ DOMAIN contacts' = DOMAIN contacts
    BY NextContacts
  <1>1. /\ contacts \in Seq(Entry) /\ listBox \in BOOLEAN
        /\ found \in Seq(DOMAIN contacts) /\ cursor \in Nat /\ modifyIndex \in Nat
    BY DEF TypeOK, ListOK
  <1>2. /\ listBox => IF found = << >> THEN cursor = 0 ELSE cursor \in DOMAIN found
        /\ form # "closed" => modifyIndex \in DOMAIN contacts
        /\ form # "closed" /\ listBox => found # << >> /\ found[cursor] = modifyIndex
    BY DEF Indexes, IndexesInRange, FormCovers
  <1> HIDE DEF Entry
  <1>3. ASSUME UNCHANGED <<listBox, found, cursor, modifyIndex>>,
               form' # "closed" => form # "closed"
        PROVE  ListOK' /\ Indexes'
    BY <1>0, <1>1, <1>2, <1>3 DEF ListOK, Indexes, IndexesInRange, FormCovers
  <1>4. CASE Browse
    <2>1. CASE MoveCursor
      <3>1. cursor' \in Nat
        BY <1>1, <2>1 DEF MoveCursor
      <3> QED
        BY <1>0, <1>1, <1>2, <2>1, <3>1
        DEF MoveCursor, AtList, ListOK, Indexes, IndexesInRange, FormCovers
    <2>2. CASE FindText
      <3>1. found' \in Seq(DOMAIN contacts)
        BY <1>1, <2>2, FiltersSound DEF FindText
      <3>2. cursor' \in Nat /\ IF found' = << >> THEN cursor' = 0 ELSE cursor' \in DOMAIN found'
        BY <2>2, <3>1 DEF FindText
      <3>3. form' = "closed" /\ UNCHANGED <<listBox, modifyIndex>>
        BY <2>2 DEF FindText, AtList
      <3> QED
        BY <1>0, <1>1, <3>1, <3>2, <3>3 DEF ListOK, Indexes, IndexesInRange, FormCovers
    <2>3. CASE LeaveList
      BY <1>0, <1>1, <2>3
      DEF LeaveList, AtList, ListOK, Indexes, IndexesInRange, FormCovers
    <2>4. CASE ReturnToList
      <3>1. /\ found' \in Seq(DOMAIN contacts)
            /\ DOMAIN found' = DOMAIN contacts
            /\ found' = << >> <=> contacts = << >>
        BY <1>1, <2>4, AllSound DEF ReturnToList
      <3>2. contacts # << >> => 1 \in DOMAIN contacts
        BY <1>1
      <3>3. /\ cursor' = IF modifyIndex \in DOMAIN contacts THEN modifyIndex
                         ELSE IF contacts = << >> THEN 0 ELSE 1
            /\ listBox' = TRUE /\ form' = "closed" /\ modifyIndex' = modifyIndex
        BY <2>4 DEF ReturnToList
      <3>4. cursor' \in Nat /\ IF found' = << >> THEN cursor' = 0 ELSE cursor' \in DOMAIN found'
        BY <1>1, <3>1, <3>2, <3>3
      <3> QED
        BY <1>0, <1>1, <3>1, <3>3, <3>4 DEF ListOK, Indexes, IndexesInRange, FormCovers
    <2>5. CASE NewContact
      BY <1>0, <1>1, <1>2, <2>5
      DEF NewContact, AtList, ListOK, Indexes, IndexesInRange, FormCovers
    <2>6. CASE OpenForm
      <3>1. /\ found[cursor] \in DOMAIN contacts /\ found[cursor] \in Nat
            /\ modifyIndex' = found[cursor]
        BY <1>1, <2>6, EntriesTyped DEF OpenForm, AtList
      <3> QED
        BY <1>0, <1>1, <1>2, <2>6, <3>1
        DEF OpenForm, AtList, ListOK, Indexes, IndexesInRange, FormCovers
    <2>7. CASE CallFromForm
      BY <1>0, <1>1, <1>2, <1>4, <2>7
      DEF Browse, CallFromForm, ListOK, Indexes, IndexesInRange, FormCovers
    <2>8. CASE EditForm \/ TypeLine \/ CloseForm \/ Discard
      BY <1>3, <2>8 DEF EditForm, TypeLine, CloseForm, Discard, InForm, selection
    <2> QED
      BY <1>4, <2>1, <2>2, <2>3, <2>4, <2>5, <2>6, <2>7, <2>8 DEF Browse
  <1>5. CASE DeletesChosen
    BY <1>3, <1>5, DeletesKeeps
  <1>6. CASE SaveDelete \/ SaveCreate
    BY <1>3, <1>6 DEF SaveDelete, SaveCreate, SaveLeaves, selection
  <1>7. CASE SaveCopy
    BY <1>3, <1>7 DEF SaveCopy, SaveLeaves, selection, SaveInForm
  <1>8. CASE OtherDeletes \/ OtherEdits
    BY <1>3, <1>8 DEF OtherDeletes, OtherEdits, selection
  <1> QED
    BY <1>4, <1>5, <1>6, <1>7, <1>8, StepCases

\* The form and the progress of its save.
LEMMA NextForm ==
  ASSUME TypeOK, SaveInForm, Next, ~Restart
  PROVE  FormOK' /\ SaveInForm'
  <1>1. FormOK /\ nextId \in Int
    BY DEF TypeOK, DatabaseOK
  <1>2. NoLines \in Lines /\ \A f \in Shown, t \in Value : [lines EXCEPT ![f] = t] \in Lines
    BY <1>1 DEF NoLines, Lines, Value, FormOK
  <1>3. \A id \in DOMAIN db : LinesOf(id) \in Lines
    BY FieldsAssumption DEF TypeOK, DatabaseOK, Contact, LinesOf, Lines
  <1> HIDE DEF Lines
  <1>4. CASE Browse
    BY <1>1, <1>2, <1>3, <1>4, BrowseKeeps
    DEF Browse, MoveCursor, FindText, LeaveList, ReturnToList, NewContact, OpenForm,
        CallFromForm, EditForm, TypeLine, CloseForm, Discard, AtList, InForm, Idle,
        Exists, FormOK, SaveInForm
  <1>5. CASE DeletesChosen
    BY <1>1, <1>5, DeletesKeeps DEF FormOK, SaveInForm
  <1>6. CASE SaveDelete \/ SaveCreate \/ SaveCopy
    BY <1>1, <1>6 DEF SaveDelete, SaveCreate, SaveCopy, SaveLeaves, InForm, Idle,
       FormOK, SaveInForm
  <1>7. CASE OtherDeletes \/ OtherEdits
    BY <1>1, <1>7 DEF OtherDeletes, OtherEdits, saving, FormOK, SaveInForm
  <1> QED
    BY <1>4, <1>5, <1>6, <1>7, StepCases

\* Ids are not used twice: the new contact gets one that no contact and no
\* entry has.
LEMMA NextIds ==
  ASSUME TypeOK, Indexes, SaveInForm, ListSorted, IdsUsed, Next, ~Restart
  PROVE  IdsUsed'
  <1>0. /\ nextId \in Nat /\ \A i \in DOMAIN contacts : contacts[i] \in Entry
        /\ \A id \in DOMAIN db : id \in Nat
        /\ \A i \in DOMAIN contacts : contacts[i].id \in Nat
    BY IdsAssumption, EntryFields DEF TypeOK, DatabaseOK, ListOK, Ids
  <1>1. ASSUME DOMAIN db' \subseteq DOMAIN db, UNCHANGED <<nextId, contacts>>
        PROVE  IdsUsed'
    BY <1>1 DEF IdsUsed
  <1>2. CASE Browse
    BY <1>1, <1>2, BrowseKeeps
  <1>3. CASE DeletesChosen
    BY <1>1, <1>3, DeletesKeeps, DomainWithout
  <1>4. CASE SaveDelete
    BY <1>1, <1>4, DomainWithout DEF SaveDelete, SaveLeaves
  <1>5. CASE SaveCreate
    <2>1. CASE SaveLeaves(TRUE)
      BY <1>1, <2>1 DEF SaveLeaves
    <2>2. CASE ~SaveLeaves(TRUE)
      <3>1. /\ DOMAIN db' = DOMAIN db \cup {nextId}
            /\ nextId' = nextId + 1
            /\ contacts' = [contacts EXCEPT ![modifyIndex].id = nextId]
        BY <1>5, <2>2, DomainWith DEF SaveCreate
      <3>2. modifyIndex \in DOMAIN contacts /\ nextId \in Ids
        BY <1>5, IdsAssumption
        DEF SaveCreate, SaveInForm, Indexes, IndexesInRange, TypeOK, DatabaseOK, Ids
      <3>3. /\ DOMAIN contacts' = DOMAIN contacts
            /\ contacts'[modifyIndex].id = nextId
            /\ \A i \in DOMAIN contacts : i # modifyIndex => contacts'[i].id = contacts[i].id
        BY <1>0, <3>1, <3>2, EntryFields
      <3> QED
        BY <1>0, <3>1, <3>3 DEF IdsUsed
    <2> QED
      BY <2>1, <2>2
  <1>6. CASE SaveCopy
    <2>1. DOMAIN db' = DOMAIN db /\ UNCHANGED <<nextId, contacts>>
      BY <1>6, SaveCopyDomain
    <2> QED
      BY <1>1, <2>1
  <1>7. CASE OtherDeletes
    BY <1>1, <1>7, DomainWithout DEF OtherDeletes
  <1>8. CASE OtherEdits
    BY <1>1, <1>8, DomainWith DEF OtherEdits
  <1> QED
    BY <1>2, <1>3, <1>4, <1>5, <1>6, <1>7, <1>8, StepCases

\* What is missing from the database was deleted, or is being saved.
LEMMA NextExist ==
  ASSUME TypeOK, Indexes, SaveInForm, IdsUsed, EntriesExist, Next, ~Restart
  PROVE  EntriesExist'
  <1>0. calm \in BOOLEAN /\ \A i \in DOMAIN contacts : contacts[i] \in Entry
    BY DEF TypeOK, DatabaseOK, ListOK
  <1>1. CASE Browse
    <2>1. step = "idle" /\ UNCHANGED <<db, removed, calm, contacts, step>>
      BY <1>1, BrowseKeeps
    <2> QED
      BY <2>1 DEF EntriesExist
  <1>2. CASE DeletesChosen
    BY <1>2, DeletesKeeps, DomainWithout DEF EntriesExist
  <1>3. CASE SaveDelete
    <2>1. CASE SaveLeaves(Exists(Edited))
      BY <1>3, <2>1 DEF SaveDelete, SaveLeaves, InForm, Idle, EntriesExist
    <2>2. CASE ~SaveLeaves(Exists(Edited))
      <3>1. /\ step = "idle" /\ step' = "create"
            /\ DOMAIN db' = DOMAIN db \ {Edited}
            /\ UNCHANGED <<removed, calm, contacts, modifyIndex>>
        BY <1>3, <2>2, DomainWithout DEF SaveDelete, InForm, Idle, selection
      <3>2. modifyIndex \in DOMAIN contacts
        BY <1>3 DEF SaveDelete, InForm, Indexes, IndexesInRange
      <3> QED
        BY <3>1, <3>2 DEF EntriesExist, Edited, IdsUsed
    <2> QED
      BY <2>1, <2>2
  <1>4. CASE SaveCreate
    <2>1. CASE SaveLeaves(TRUE)
      BY <2>1 DEF SaveLeaves, EntriesExist
    <2>2. CASE ~SaveLeaves(TRUE)
      <3>1. /\ DOMAIN db' = DOMAIN db \cup {nextId}
            /\ contacts' = [contacts EXCEPT ![modifyIndex].id = nextId]
            /\ UNCHANGED <<removed, calm, modifyIndex>>
        BY <1>4, <2>2, DomainWith DEF SaveCreate, selection
      <3>2. modifyIndex \in DOMAIN contacts /\ nextId \in Ids
        BY <1>4, IdsAssumption
        DEF SaveCreate, SaveInForm, Indexes, IndexesInRange, TypeOK, DatabaseOK, Ids
      <3>3. /\ DOMAIN contacts' = DOMAIN contacts
            /\ contacts'[modifyIndex].id = nextId
            /\ \A i \in DOMAIN contacts : i # modifyIndex => contacts'[i].id = contacts[i].id
        BY <1>0, <3>1, <3>2, EntryFields
      <3> QED
        BY <3>1, <3>3 DEF EntriesExist
    <2> QED
      BY <2>1, <2>2
  <1>5. CASE SaveCopy
    <2>1. CASE SaveLeaves(Exists(Edited))
      BY <1>5, <2>1 DEF SaveCopy, SaveLeaves, EntriesExist
    <2>2. CASE ~SaveLeaves(Exists(Edited))
      <3>1. DOMAIN db' = DOMAIN db /\ UNCHANGED <<removed, contacts>>
        BY <1>5, SaveCopyDomain
      <3>2. step = "copy" /\ (calm' => calm)
        BY <1>0, <1>5, <2>2 DEF SaveCopy
      <3> QED
        BY <3>1, <3>2 DEF EntriesExist
    <2> QED
      BY <2>1, <2>2
  <1>6. CASE OtherDeletes \/ OtherEdits
    BY <1>6 DEF OtherDeletes, OtherEdits, EntriesExist
  <1> QED
    BY <1>1, <1>2, <1>3, <1>4, <1>5, <1>6, StepCases

\* What a form in view mode shows is read from the database or written to it.
LEMMA NextStored ==
  ASSUME TypeOK, Indexes, SaveInForm, FormIsStored, Next, ~Restart
  PROVE  FormIsStored'
  <1>0. calm \in BOOLEAN /\ lines \in Lines
    BY DEF TypeOK, DatabaseOK, FormOK
  <1>1. CASE Browse
    <2>0. UNCHANGED <<db, calm, contacts, step>>
      BY <1>1, BrowseKeeps
    <2>1. CASE form' # "view"
      BY <2>1 DEF FormIsStored, InForm
    <2>2. CASE form' = "view" /\ UNCHANGED <<form, lines, modifyIndex>>
      BY <2>0, <2>2 DEF FormIsStored, InForm, Idle, Exists, Edited, LinesOf
    <2>3. CASE OpenForm /\ form' = "view"
      <3>1. modifyIndex' = found[cursor] /\ lines' = LinesOf(Chosen)
        BY <2>3 DEF OpenForm, AtList
      <3> QED
        BY <2>0, <3>1 DEF FormIsStored, Edited, Chosen, LinesOf
    <2>4. CASE Discard /\ form' = "view"
      BY <2>0, <2>4 DEF Discard, FormIsStored, Edited, LinesOf, selection
    <2> QED
      BY <1>1, <2>1, <2>2, <2>3, <2>4
      DEF Browse, MoveCursor, FindText, LeaveList, ReturnToList, NewContact, OpenForm,
          CallFromForm, EditForm, TypeLine, CloseForm, Discard, AtList, InForm, selection
  <1>2. CASE DeletesChosen
    <2>1. CASE form = "view"
      <3>1. Chosen = Edited
        BY <1>2, <2>1, DeletesKeeps DEF Indexes, FormCovers, Chosen, Edited
      <3>2. Edited' = Edited /\ DOMAIN db' = DOMAIN db \ {Edited}
        BY <1>2, <3>1, DeletesKeeps, DomainWithout DEF Edited
      <3> QED
        BY <3>2 DEF FormIsStored, Exists
    <2>2. CASE form # "view"
      BY <1>2, <2>2, DeletesKeeps DEF FormIsStored, InForm
    <2> QED
      BY <2>1, <2>2
  <1>3. CASE SaveDelete \/ SaveCreate
    BY <1>3 DEF SaveDelete, SaveCreate, SaveLeaves, InForm, SaveInForm, FormIsStored
  <1>4. CASE SaveCopy
    <2>1. CASE SaveLeaves(Exists(Edited))
      BY <1>4, <2>1 DEF SaveCopy, SaveLeaves, InForm, SaveInForm, FormIsStored
    <2>2. CASE db' = With(Edited, Filled) /\ UNCHANGED <<lines, contacts, selection>>
      <3>1. Edited' = Edited
        BY <2>2 DEF Edited, selection
      <3>2. db'[Edited] = Filled
        BY <2>2 DEF With
      <3>3. LinesOf(Edited)' = [f \in Shown |-> Filled[f]]
        BY <3>1, <3>2 DEF LinesOf
      <3>4. [f \in Shown |-> Filled[f]] = lines
        BY <1>0, FieldsAssumption DEF Filled, Lines
      <3> QED
        BY <2>2, <3>3, <3>4 DEF FormIsStored
    <2>3. CASE calm' = FALSE
      BY <2>3 DEF FormIsStored
    <2> QED
      BY <1>4, <2>1, <2>2, <2>3 DEF SaveCopy
  <1>5. CASE OtherDeletes \/ OtherEdits
    BY <1>5 DEF OtherDeletes, OtherEdits, FormIsStored
  <1> QED
    BY <1>1, <1>2, <1>3, <1>4, <1>5, StepCases

\* The database never has more contacts than there were, less those deleted.
LEMMA NextRoom ==
  ASSUME DatabaseOK, Room, SaveInForm, IdsUsed, Next, ~Restart
  PROVE  Room'
  <1> DEFINE n == Cardinality(DOMAIN db)
             k == Cardinality(removed)
  <1>0. /\ IsFiniteSet(DOMAIN db) /\ IsFiniteSet(removed) /\ n \in Nat /\ k \in Nat
        /\ Initial \in Nat
    BY FiniteDb, IdsAssumption
  <1>1. \A id : /\ id \in DOMAIN db => Cardinality(DOMAIN Without(id)) = n - 1
                /\ Cardinality(removed \cup {id}) \in {k, k + 1}
    BY <1>0, DomainWithout, FS_RemoveElement, FS_AddElement
  <1>2. n + k + (IF step = "create" THEN 1 ELSE 0) <= Initial
    BY DEF Room
  <1>3. ASSUME DOMAIN db' = DOMAIN db, removed' = removed, step' # "create"
        PROVE  Room'
    BY <1>0, <1>2, <1>3 DEF Room
  <1>4. ASSUME NEW id \in DOMAIN db, DOMAIN db' = DOMAIN Without(id), step' = step,
               removed' = removed \cup {id}
        PROVE  Room'
    <2>1. Cardinality(DOMAIN db') = n - 1 /\ Cardinality(removed') \in {k, k + 1}
      BY <1>1, <1>4
    <2> HIDE DEF n, k
    <2> QED
      BY <1>0, <1>2, <1>4, <2>1 DEF Room
  <1>5. CASE Browse
    BY <1>3, <1>5, BrowseKeeps
  <1>6. CASE DeletesChosen
    BY <1>4, <1>6, DeletesKeeps DEF Exists
  <1>7. CASE SaveDelete
    <2>1. CASE SaveLeaves(Exists(Edited))
      BY <1>3, <2>1 DEF SaveLeaves
    <2>2. CASE ~SaveLeaves(Exists(Edited))
      <3>1. /\ Cardinality(DOMAIN db') = n - 1
            /\ step' = "create" /\ step = "idle" /\ removed' = removed
        BY <1>1, <1>7, <2>2 DEF SaveDelete, InForm, Idle, Exists
      <3> HIDE DEF n, k
      <3>2. Cardinality(removed') = k
        BY <3>1 DEF k
      <3> QED
        BY <1>0, <1>2, <3>1, <3>2 DEF Room
    <2> QED
      BY <2>1, <2>2
  <1>8. CASE SaveCreate
    <2>1. CASE SaveLeaves(TRUE)
      BY <1>3, <2>1 DEF SaveLeaves
    <2>2. CASE ~SaveLeaves(TRUE)
      <3>1. /\ DOMAIN db' = DOMAIN db \cup {nextId}
            /\ step' = "copy" /\ step = "create" /\ removed' = removed
        BY <1>8, <2>2, DomainWith DEF SaveCreate
      <3>2. Cardinality(DOMAIN db') \in {n, n + 1}
        BY <1>0, <3>1, FS_AddElement
      <3>3. Cardinality(removed') = k
        BY <3>1
      <3> HIDE DEF n, k
      <3> QED
        BY <1>0, <1>2, <3>1, <3>2, <3>3 DEF Room
    <2> QED
      BY <2>1, <2>2
  <1>9. CASE SaveCopy
    BY <1>3, <1>9, SaveCopyDomain DEF SaveCopy, SaveLeaves
  <1>10. CASE OtherDeletes
    BY <1>4, <1>10 DEF OtherDeletes, saving
  <1>11. CASE OtherEdits
    <2>1. DOMAIN db' = DOMAIN db
      <3>1. PICK id \in DOMAIN db, c \in [Fields -> Texts] : db' = With(id, c)
        BY <1>11 DEF OtherEdits
      <3>2. DOMAIN db' = DOMAIN db \cup {id}
        BY <3>1, DomainWith
      <3> QED
        BY <3>1, <3>2
    <2>2. removed' = removed /\ step' = step
      BY <1>11 DEF OtherEdits, saving
    <2>3. Cardinality(DOMAIN db') = n /\ Cardinality(removed') = k
      BY <2>1, <2>2
    <2> HIDE DEF n, k
    <2> QED
      BY <1>2, <2>2, <2>3 DEF Room
  <1> QED
    BY <1>5, <1>6, <1>7, <1>8, <1>9, <1>10, <1>11, StepCases

LEMMA Inductive == IInv /\ [Next]_vars => IInv'
  <1> SUFFICES ASSUME IInv, [Next]_vars PROVE IInv'
    OBVIOUS
  <1>0. TypeOK /\ DatabaseOK
    BY DEF IInv, TypeOK
  <1>1. CASE Restart
    <2>1. UNCHANGED <<db, removed>> /\ step' = "idle"
      BY <1>1 DEF Restart
    <2>2. Room'
      BY <1>0, <2>1, FiniteDb, IdsAssumption DEF IInv, Room
    <2> QED
      BY <1>0, <1>1, <2>2, RestartSound DEF IInv, IdsUsed
  <1>2. CASE Next /\ ~Restart
    <2>1. TypeOK'
      BY <1>2, NextDatabase, NextSelection, NextForm DEF IInv, TypeOK
    <2> QED
      BY <1>0, <1>2, <2>1, NextSelection, NextForm, NextContacts, NextIds, NextExist,
         NextStored, NextRoom DEF IInv
  <1>3. CASE UNCHANGED vars
    BY <1>3
    DEF vars, IInv, TypeOK, DatabaseOK, ListOK, FormOK, SaveInForm, Indexes,
        IndexesInRange, FormCovers, ListSorted, IdsUsed, EntriesExist, FormIsStored,
        InForm, Idle, Exists, Edited, LinesOf, Room
  <1> QED
    BY <1>1, <1>2, <1>3

LEMMA Invariance == Spec => []IInv
  BY Initially, Inductive, PTL DEF Spec

-----------------------------------------------------------------------------
(* Theorems *)

\* The variables keep their types: entries have ids the database has handed
\* out, and the filter lets through entries of the list only.
THEOREM TypeCorrect == Spec => []TypeOK
  BY Invariance, PTL DEF IInv

\* The indexes that DoEditL, DoDeleteL and SaveFormDataL use are those of
\* entries, whatever was found, filtered, saved or deleted before.
THEOREM IndexesAlways == Spec => []IndexesInRange
  BY Invariance, PTL DEF IInv, Indexes

\* SortContactsL sorts once, and the list stays sorted.
THEOREM SortedAlways == Spec => []ListSorted
  BY Invariance, PTL DEF IInv

\* In a process that has met no fault, saves leave no entry without contact.
THEOREM EntriesAlways == Spec => []EveryEntryExists
  <1>1. IInv => EveryEntryExists
    BY DEF IInv, EntriesExist, EveryEntryExists, Idle
  <1> QED
    BY <1>1, Invariance, PTL

\* A form in view mode shows what is stored.
THEOREM StoredAlways == Spec => []FormIsStored
  BY Invariance, PTL DEF IInv

\* However saves are cut short, contacts are not doubled nor brought back.
THEOREM NoCopiesAlways == Spec => []NoCopies
  <1>1. IInv => NoCopies
    <2> SUFFICES ASSUME IInv PROVE NoCopies
      OBVIOUS
    <2>1. Cardinality(DOMAIN db) \in Nat /\ Cardinality(removed) \in Nat /\ Initial \in Nat
      BY FiniteDb, IdsAssumption DEF IInv, TypeOK
    <2> QED
      BY <2>1 DEF IInv, Room, NoCopies
  <1> QED
    BY <1>1, Invariance, PTL

\* With an open form the application changes the contact of that form only.
THEOREM FormAlways == Spec => FormTouchesItsContact
  <1>1. ASSUME IInv, form # "closed", Application, NEW id \in DOMAIN db \ {Edited}
        PROVE  Exists(id)' /\ db'[id] = db[id]
    <2>0. /\ \A a, c : a # id => /\ id \in DOMAIN With(a, c)
                                 /\ With(a, c)[id] = db[id]
          /\ \A a : a # id => /\ id \in DOMAIN Without(a)
                              /\ Without(a)[id] = db[id]
      BY <1>1 DEF With, Without
    <2>1. Next
      BY <1>1 DEF Next
    <2>2. CASE db' = db
      BY <1>1, <2>2 DEF Exists
    <2>3. CASE DeletesChosen
      <3>1. Chosen = Edited /\ db' = Without(Chosen)
        BY <1>1, <2>3, DeletesKeeps DEF IInv, Indexes, FormCovers, Chosen, Edited
      <3> QED
        BY <1>1, <2>0, <3>1 DEF Exists
    <2>4. CASE SaveDelete
      BY <1>1, <2>0, <2>2, <2>4 DEF SaveDelete, SaveLeaves, Exists
    <2>5. CASE SaveCreate
      <3>1. nextId # id
        BY <1>1, IdsAssumption DEF IInv, IdsUsed, TypeOK, DatabaseOK, Ids
      <3> QED
        BY <1>1, <2>0, <2>2, <2>5, <3>1 DEF SaveCreate, SaveLeaves, Exists
    <2>6. CASE SaveCopy
      BY <1>1, <2>0, <2>2, <2>6 DEF SaveCopy, SaveLeaves, Exists
    <2>7. \/ db' = db \/ DeletesChosen \/ SaveDelete \/ SaveCreate \/ SaveCopy
      <3>1. Restart => db' = db
        BY DEF Restart
      <3> QED
        BY <1>1, <3>1, BrowseKeeps DEF Application, Browse, DeletesChosen
    <2> QED
      BY <2>2, <2>3, <2>4, <2>5, <2>6, <2>7
  <1>2. IInv /\ [Next]_vars =>
          [form # "closed" /\ Application =>
              \A id \in DOMAIN db \ {Edited} : Exists(id)' /\ db'[id] = db[id]]_vars
    BY <1>1
  <1> QED
    BY <1>2, Invariance, PTL DEF Spec, FormTouchesItsContact
-----------------------------------------------------------------------------
(* Deleted contacts                                                        *)
(*                                                                         *)
(* A deleted contact is gone and its id is used up; and the entry a save   *)
(* is about to give a new contact is not that of a deleted one, because    *)
(* the save has itself deleted the contact it had, which nobody else can   *)
(* delete then.                                                            *)

Gone ==
    /\ removed \cap DOMAIN db = {}
    /\ \A id \in removed : id < nextId
    /\ step = "create" => Edited \notin removed \cup DOMAIN db

\* What every step but a new start keeps, in the words of the property.
DeadKept ==
    \A i \in DOMAIN contacts : contacts[i].id \in removed =>
        contacts'[i] = contacts[i] /\ contacts[i].id \notin DOMAIN db'

LEMMA GoneStep ==
  ASSUME IInv, Gone, Next, ~Restart
  PROVE  Gone' /\ DeadKept
  <1>0. /\ nextId \in Nat /\ removed \subseteq Nat /\ DOMAIN db \subseteq Nat
        /\ \A id \in DOMAIN db : id < nextId
    BY IdsAssumption DEF IInv, TypeOK, DatabaseOK, IdsUsed, Ids
  <1>1. ASSUME contacts' = contacts, nextId' = nextId,
               removed \subseteq removed', removed' \cap DOMAIN db' = {},
               removed' \subseteq removed \cup DOMAIN db,
               step' = "create" => /\ Edited \notin removed' \cup DOMAIN db'
                                    /\ modifyIndex' = modifyIndex
        PROVE  Gone' /\ DeadKept
    <2>1. DeadKept
      BY <1>1 DEF DeadKept
    <2>2. \A id \in removed' : id < nextId'
      BY <1>0, <1>1 DEF Gone
    <2>3. step' = "create" => Edited' \notin removed' \cup DOMAIN db'
      BY <1>1 DEF Edited
    <2> QED
      BY <1>1, <2>1, <2>2, <2>3 DEF Gone
  <1>2. CASE Browse
    BY <1>1, <1>2, BrowseKeeps DEF Gone
  <1>3. CASE DeletesChosen
    BY <1>1, <1>3, DeletesKeeps, DomainWithout DEF Gone, Exists
  <1>4. CASE SaveDelete
    <2>1. CASE SaveLeaves(Exists(Edited))
      BY <1>1, <2>1 DEF SaveLeaves, Gone
    <2>2. CASE ~SaveLeaves(Exists(Edited))
      <3>1. /\ Exists(Edited) /\ DOMAIN db' = DOMAIN db \ {Edited}
            /\ UNCHANGED <<nextId, removed, contacts, modifyIndex>>
        BY <1>4, <2>2, DomainWithout DEF SaveDelete, selection
      <3>2. Edited \notin removed' \cup DOMAIN db'
        BY <3>1 DEF Gone, Exists
      <3> QED
        BY <1>1, <3>1, <3>2 DEF Gone
    <2> QED
      BY <2>1, <2>2
  <1>5. CASE SaveCreate
    <2>1. CASE SaveLeaves(TRUE)
      BY <1>1, <2>1 DEF SaveLeaves, Gone
    <2>2. CASE ~SaveLeaves(TRUE)
      <3>1. /\ step = "create" /\ step' = "copy"
            /\ DOMAIN db' = DOMAIN db \cup {nextId}
            /\ nextId' = nextId + 1
            /\ contacts' = [contacts EXCEPT ![modifyIndex].id = nextId]
            /\ removed' = removed
        BY <1>5, <2>2, DomainWith DEF SaveCreate
      <3>2. nextId \notin removed /\ \A id \in removed' : id < nextId'
        BY <1>0, <3>1 DEF Gone
      <3>3. Gone'
        BY <3>1, <3>2 DEF Gone
      <3>4. DeadKept
        <4>1. SUFFICES ASSUME NEW i \in DOMAIN contacts, contacts[i].id \in removed
              PROVE  contacts'[i] = contacts[i] /\ contacts[i].id \notin DOMAIN db'
          BY DEF DeadKept
        <4>2. i # modifyIndex
          BY <3>1, <4>1 DEF Gone, Edited
        <4> QED
          BY <3>1, <3>2, <4>1, <4>2 DEF Gone
      <3> QED
        BY <3>3, <3>4
    <2> QED
      BY <2>1, <2>2
  <1>6. CASE SaveCopy
    <2>1. DOMAIN db' = DOMAIN db /\ UNCHANGED <<nextId, removed, contacts>>
      BY <1>6, SaveCopyDomain
    <2>2. step' = "idle"
      BY <1>6 DEF SaveCopy, SaveLeaves
    <2> QED
      BY <1>1, <2>1, <2>2 DEF Gone
  <1>7. CASE OtherDeletes
    <2>1. PICK id \in DOMAIN db : db' = Without(id) /\ removed' = removed \cup {id}
      BY <1>7 DEF OtherDeletes
    <2>2. DOMAIN db' = DOMAIN db \ {id}
      BY <2>1, DomainWithout
    <2>3. UNCHANGED <<nextId, contacts, modifyIndex, step>>
      BY <1>7 DEF OtherDeletes, selection, saving
    <2>4. step' = "create" => Edited \notin removed' \cup DOMAIN db'
      BY <2>1, <2>2, <2>3 DEF Gone
    <2> QED
      BY <1>1, <2>1, <2>2, <2>3, <2>4 DEF Gone
  <1>8. CASE OtherEdits
    <2>1. DOMAIN db' = DOMAIN db
      <3>1. PICK id \in DOMAIN db, c \in [Fields -> Texts] : db' = With(id, c)
        BY <1>8 DEF OtherEdits
      <3>2. DOMAIN With(id, c) = DOMAIN db \cup {id}
        BY DomainWith
      <3> QED
        BY <3>1, <3>2
    <2>2. UNCHANGED <<nextId, removed, contacts, modifyIndex, step>>
      BY <1>8 DEF OtherEdits, selection, saving
    <2> QED
      BY <1>1, <2>1, <2>2 DEF Gone
  <1> QED
    BY <1>2, <1>3, <1>4, <1>5, <1>6, <1>7, <1>8, StepCases

\* Whatever is done through the entry of a deleted contact, it gets no other
\* contact, and its own does not come back.
THEOREM DeadAlways == Spec => DeadEntriesStayDead
  <1>1. Init => Gone
    BY DEF Init, Gone
  <1>2. IInv /\ Gone /\ [Next]_vars => Gone'
    <2>1. CASE Next /\ ~Restart
      BY <2>1, GoneStep
    <2>2. CASE Restart
      BY <2>2 DEF Restart, Gone
    <2>3. CASE UNCHANGED vars
      BY <2>3 DEF vars, Gone, Edited
    <2> QED
      BY <2>1, <2>2, <2>3
  <1>3. IInv /\ Gone /\ [Next]_vars =>
          [\A i \in DOMAIN contacts : contacts[i].id \in removed =>
              \/ Restart
              \/ contacts'[i] = contacts[i] /\ contacts[i].id \notin DOMAIN db']_vars
    BY GoneStep DEF DeadKept
  <1> QED
    BY <1>1, <1>2, <1>3, Invariance, PTL DEF Spec, DeadEntriesStayDead
=============================================================================
