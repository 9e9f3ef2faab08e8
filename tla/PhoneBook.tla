------------------------------ MODULE PhoneBook ------------------------------
(***************************************************************************)
(* The phone's contact database, the list of contacts that CPhoneBkEngine  *)
(* loads from it once, the list box (CVoIPListBox) and the contact form    *)
(* (CVoIPForm).                                                            *)
(*                                                                         *)
(* The list box shows the entries whose name matches the text in the find  *)
(* box, so its current item is an index among these; the model behind it   *)
(* translates (FilteredItemIndex).                                         *)
(*                                                                         *)
(* Saving a contact deletes it, creates an empty one in its place and      *)
(* copies the lines of the form to it: three calls to the database, each   *)
(* of which may leave, with the phone possibly going dead in between.      *)
(* Other applications use the same database.                               *)
(***************************************************************************)
EXTENDS Integers, Sequences, FiniteSets

CONSTANTS
    Fields,         \* the fields of a contact
    Shown,          \* those of them with a text, number or date editor
    Name,           \* the field the contacts are listed by
    Texts,          \* what a field may hold, by its place in the collation
    Blank,          \* an empty field, listed as "unnamed"
    Initial,        \* contacts in the database at first
    MaxId           \* bound on the contact ids handed out

ASSUME FieldsAssumption == Shown \subseteq Fields /\ Name \in Shown
ASSUME TextsAssumption == Texts \cup {Blank} \subseteq Int /\ Blank \notin Texts
ASSUME IdsAssumption == Initial \in Nat \ {0} /\ MaxId \in Nat /\ Initial <= MaxId

VARIABLES
    db,             \* the database: contacts by id
    nextId,         \* the next id of the database
    contacts,       \* the engine's list: id and listed name of every entry
    listBox,        \* the contacts view is active: its list box exists
    found,          \* the entries the filter of the list box lets through
    cursor,         \* the current item of the list box, 0 if it is empty
    modifyIndex,    \* iModifyIndex of the document; 0 for none
    form,           \* the contact form
    lines,          \* the lines of the form
    step,           \* where SaveFormDataL is
    outcome,        \* how the last SaveFormDataL ended
    removed,        \* contacts deleted by the user or another application
    calm            \* since the start every database call has succeeded and
                    \*   no other application has touched the database

vars == <<db, nextId, contacts, listBox, found, cursor, modifyIndex, form, lines,
          step, outcome, removed, calm>>
database == <<db, nextId, removed, calm>>
selection == <<listBox, found, cursor, modifyIndex>>
saving == <<step, outcome>>

Ids == 1 .. MaxId
Value == Texts \cup {Blank}
Contact == [Fields -> Value]
Lines == [Shown -> Value]
Entry == [id : Ids, name : Value]

DatabaseOK ==
    /\ DOMAIN db \subseteq Ids
    /\ \A id \in DOMAIN db : db[id] \in Contact
    /\ nextId \in 1 .. MaxId + 1
    /\ removed \subseteq Ids
    /\ calm \in BOOLEAN

ListOK ==
    /\ contacts \in Seq(Entry)
    /\ listBox \in BOOLEAN
    /\ found \in Seq(DOMAIN contacts)
    /\ cursor \in Nat
    /\ modifyIndex \in Nat

FormOK ==
    /\ form \in {"closed", "view", "edit"}
    /\ lines \in Lines
    /\ step \in {"idle", "create", "copy"}
    /\ outcome \in {"none", "ok", "left"}

TypeOK == DatabaseOK /\ ListOK /\ FormOK

NoLines == [f \in Shown |-> Blank]

\* What the list shows of a contact.
Listed(id) == [id |-> id, name |-> db[id][Name]]

\* LoadContactsL and SortContactsL: every contact once, by its name; contacts
\* of the same name in any order.
Lists ==
    LET n == Cardinality(DOMAIN db)
    IN  {list \in [1 .. n -> {Listed(id) : id \in DOMAIN db}] :
            /\ \A id \in DOMAIN db : \E i \in 1 .. n : list[i] = Listed(id)
            /\ \A i, j \in 1 .. n : list[i].id = list[j].id => i = j
            /\ \A i, j \in 1 .. n : i <= j => list[i].name <= list[j].name}

\* The filter with an empty find box.
All(list) == [i \in DOMAIN list |-> i]

\* A new process: the find box is empty, and the document's index, zeroed
\* with it, is that of the first entry.
Init ==
    /\ db \in [1 .. Initial -> [Fields -> Texts]]
    /\ nextId = Initial + 1
    /\ removed = {}
    /\ contacts \in Lists
    /\ listBox = TRUE
    /\ found = All(contacts)
    /\ cursor = 1
    /\ modifyIndex = 1
    /\ form = "closed"
    /\ lines = NoLines
    /\ step = "idle"
    /\ outcome = "none"
    /\ calm = TRUE

-----------------------------------------------------------------------------
Idle == step = "idle"

\* The user has the list, or the form in one of its two modes, before him.
AtList == Idle /\ form = "closed" /\ listBox
InForm(mode) == Idle /\ form = mode

\* The entry behind the current item (FilteredItemIndex).
Chosen == contacts[found[cursor]].id
Edited == contacts[modifyIndex].id
Exists(id) == id \in DOMAIN db

Without(id) == [i \in DOMAIN db \ {id} |-> db[i]]
With(id, contact) == [i \in DOMAIN db \cup {id} |-> IF i = id THEN contact ELSE db[i]]

LinesOf(id) == [f \in Shown |-> db[id][f]]

\* What the form's lines make of an empty contact.
Filled == [f \in Fields |-> IF f \in Shown THEN lines[f] ELSE Blank]

-----------------------------------------------------------------------------
(* The list *)

MoveCursor ==
    /\ AtList
    /\ cursor' \in DOMAIN found
    /\ UNCHANGED <<database, contacts, listBox, found, modifyIndex, form, lines, saving>>

\* The filter that lets through the entries of some names, in their order.
Filters(names) ==
    LET S == {i \in DOMAIN contacts : contacts[i].name \in names}
        n == Cardinality(S)
    IN  {f \in [1 .. n -> S] : \A i, j \in 1 .. n : i < j => f[i] < f[j]}

\* A key goes to the find box: its text matches every name, or one, or none,
\* and the list box is filled again.
FindText ==
    /\ AtList
    /\ \E names \in {Value, {}} \cup {{n} : n \in Value} : found' \in Filters(names)
    /\ cursor' \in IF found' = << >> THEN {0} ELSE DOMAIN found'
    /\ UNCHANGED <<database, contacts, listBox, modifyIndex, form, lines, saving>>

\* The contacts view goes.
LeaveList ==
    /\ AtList
    /\ listBox' = FALSE
    /\ UNCHANGED <<database, contacts, found, cursor, modifyIndex, form, lines, saving>>

\* Mutant: PopulateListBoxL does not test the index for -1.
ReturnToListUntested ==
    /\ Idle
    /\ form = "closed"
    /\ ~listBox
    /\ listBox' = TRUE
    /\ found' = All(contacts)
    /\ cursor' = IF contacts = << >> THEN 0 ELSE modifyIndex
    /\ UNCHANGED <<database, contacts, modifyIndex, form, lines, saving>>

\* It comes back with a new list box and an empty find box, the cursor where
\* the last contact was opened (PopulateListBoxL).
ReturnToList ==
    /\ Idle
    /\ form = "closed"
    /\ ~listBox
    /\ listBox' = TRUE
    /\ found' = All(contacts)
    /\ cursor' = IF modifyIndex \in DOMAIN contacts THEN modifyIndex
                 ELSE IF contacts = << >> THEN 0 ELSE 1
    /\ UNCHANGED <<database, contacts, modifyIndex, form, lines, saving>>

\* DoNewL: no view is registered for a new contact, activating it leaves, with
\* the index already set.
NewContact ==
    /\ AtList
    /\ modifyIndex' = 0
    /\ UNCHANGED <<database, contacts, listBox, found, cursor, form, lines, saving>>

\* Mutant: the index is that of the item, not of the entry behind it.
OpenFormUnfiltered ==
    /\ AtList
    /\ found # << >>
    /\ modifyIndex' = cursor
    /\ IF Exists(contacts[cursor].id)
       THEN form' = "view" /\ lines' = LinesOf(contacts[cursor].id)
       ELSE UNCHANGED <<form, lines>>
    /\ UNCHANGED <<database, contacts, listBox, found, cursor, saving>>

\* DoEditL: the index is set before the form reads the contact, which
\* leaves when the contact is gone.
OpenForm ==
    /\ AtList
    /\ found # << >>
    /\ modifyIndex' = found[cursor]
    /\ IF Exists(Chosen)
       THEN form' = "view" /\ lines' = LinesOf(Chosen)
       ELSE UNCHANGED <<form, lines>>
    /\ UNCHANGED <<database, contacts, listBox, found, cursor, saving>>

\* The process has gone, with whatever it was doing, and a new one starts.
Restart ==
    /\ contacts' \in Lists
    /\ listBox' = TRUE
    /\ found' = All(contacts')
    /\ cursor' = IF DOMAIN db = {} THEN 0 ELSE 1
    /\ modifyIndex' = 1
    /\ form' = "closed"
    /\ lines' = NoLines
    /\ step' = "idle"
    /\ outcome' = "none"
    /\ calm' = TRUE
    /\ UNCHANGED <<db, nextId, removed>>

\* DoDeleteL, from the list or from the form that covers it: the entry under
\* the cursor leaves the database, and stays in the list.  If the contacts
\* view went while the form was open there is no list box, and no process
\* after the attempt to use it.
DeleteContact ==
    /\ Idle
    /\ form # "edit"
    /\ \/ /\ listBox
          /\ found # << >>
          /\ Exists(Chosen)
          /\ db' = Without(Chosen)
          /\ removed' = removed \cup {Chosen}
          /\ UNCHANGED <<nextId, calm, contacts, selection, form, lines, saving>>
       \/ form = "view" /\ ~listBox /\ Restart

\* DoInternetCall from the form: the back command at its end swaps the view
\* under the open form.
CallFromForm ==
    /\ InForm("view")
    /\ \/ /\ listBox
          /\ Exists(Chosen)
          /\ listBox' = FALSE
          /\ UNCHANGED <<database, contacts, found, cursor, modifyIndex, form, lines, saving>>
       \/ ~listBox /\ Restart

-----------------------------------------------------------------------------
(* The form *)

EditForm ==
    /\ InForm("view")
    /\ form' = "edit"
    /\ UNCHANGED <<database, contacts, selection, lines, saving>>

TypeLine ==
    /\ InForm("edit")
    /\ \E f \in Shown, t \in Value : lines' = [lines EXCEPT ![f] = t]
    /\ UNCHANGED <<database, contacts, selection, form, saving>>

CloseForm ==
    /\ InForm("view")
    /\ form' = "closed"
    /\ lines' = NoLines
    /\ UNCHANGED <<database, contacts, selection, saving>>

\* DoNotSaveFormDataL deletes the lines, then reads the contact again.
Discard ==
    /\ InForm("edit")
    /\ IF Exists(Edited)
       THEN form' = "view" /\ lines' = LinesOf(Edited)
       ELSE form' = "edit" /\ lines' = NoLines
    /\ UNCHANGED <<database, contacts, selection, saving>>

-----------------------------------------------------------------------------
(* SaveFormDataL *)

\* A call of the contact engine leaves, and SaveFormDataL with it: the
\* database fails, or the contact is gone.
SaveLeaves(fails) ==
    /\ step' = "idle"
    /\ outcome' = "left"
    /\ calm' = (calm /\ ~fails)
    /\ UNCHANGED <<db, nextId, removed, contacts, selection, form, lines>>

\* Mutant: an error of the deletion is trapped, and the save goes on.
SaveDeleteTrapped ==
    /\ InForm("edit")
    /\ nextId <= MaxId
    /\ db' = Without(Edited)
    /\ step' = "create"
    /\ outcome' = "none"
    /\ UNCHANGED <<nextId, removed, calm, contacts, selection, form, lines>>

\* Deleting leaves when the contact is gone, and may leave otherwise.
SaveDelete ==
    /\ InForm("edit")
    /\ nextId <= MaxId
    /\ \/ SaveLeaves(Exists(Edited))
       \/ /\ Exists(Edited)
          /\ db' = Without(Edited)
          /\ step' = "create"
          /\ outcome' = "none"
          /\ UNCHANGED <<nextId, removed, calm, contacts, selection, form, lines>>

\* Mutant: the entry keeps the id of the deleted contact.
SaveCreateKeepsId ==
    /\ step = "create"
    /\ \/ SaveLeaves(TRUE)
       \/ /\ db' = With(nextId, [f \in Fields |-> Blank])
          /\ nextId' = nextId + 1
          /\ step' = "copy"
          /\ UNCHANGED <<removed, calm, contacts, selection, form, lines, outcome>>

\* Mutant: an error of the creation is trapped, and 0 taken for an id.
SaveCreateTrapped ==
    /\ step = "create"
    /\ \/ /\ contacts' = [contacts EXCEPT ![modifyIndex].id = 0]
          /\ UNCHANGED <<db, nextId>>
       \/ /\ db' = With(nextId, [f \in Fields |-> Blank])
          /\ nextId' = nextId + 1
          /\ contacts' = [contacts EXCEPT ![modifyIndex].id = nextId]
    /\ step' = "copy"
    /\ UNCHANGED <<removed, calm, selection, form, lines, outcome>>

\* CreateDefaultContactItem and SetEntryId; the listed name stays.
SaveCreate ==
    /\ step = "create"
    /\ \/ SaveLeaves(TRUE)
       \/ /\ db' = With(nextId, [f \in Fields |-> Blank])
          /\ nextId' = nextId + 1
          /\ contacts' = [contacts EXCEPT ![modifyIndex].id = nextId]
          /\ step' = "copy"
          /\ UNCHANGED <<removed, calm, selection, form, lines, outcome>>

\* Mutant: fields the new contact does not have are not added to it.
SaveCopyAddsNone ==
    /\ step = "copy"
    /\ \/ SaveLeaves(Exists(Edited))
       \/ /\ Exists(Edited)
          /\ step' = "idle"
          /\ outcome' = "ok"
          /\ form' = "view"
          /\ UNCHANGED <<database, contacts, selection, lines>>

\* Mutant: a new contact that is gone by then is stored all the same.
SaveCopyRevives ==
    /\ step = "copy"
    /\ db' = With(Edited, Filled)
    /\ step' = "idle"
    /\ outcome' = "ok"
    /\ form' = "view"
    /\ UNCHANGED <<nextId, removed, calm, contacts, selection, lines>>

\* Opening the new contact or filling it in may leave.  CommitContactItem
\* swallows its errors: the save succeeds, whether it does or not.
SaveCopy ==
    /\ step = "copy"
    /\ \/ SaveLeaves(Exists(Edited))
       \/ /\ Exists(Edited)
          /\ \/ db' = With(Edited, Filled) /\ UNCHANGED calm
             \/ db' = db /\ calm' = FALSE
          /\ step' = "idle"
          /\ outcome' = "ok"
          /\ form' = "view"
          /\ UNCHANGED <<nextId, removed, contacts, selection, lines>>

-----------------------------------------------------------------------------
(* Other applications *)

OtherDeletes ==
    /\ \E id \in DOMAIN db : db' = Without(id) /\ removed' = removed \cup {id}
    /\ calm' = FALSE
    /\ UNCHANGED <<nextId, contacts, selection, form, lines, saving>>

OtherEdits ==
    /\ \E id \in DOMAIN db, c \in [Fields -> Texts] : db' = With(id, c)
    /\ calm' = FALSE
    /\ UNCHANGED <<nextId, removed, contacts, selection, form, lines, saving>>

Application ==
    \/ MoveCursor \/ FindText \/ LeaveList \/ ReturnToList \/ NewContact \/ OpenForm
    \/ DeleteContact \/ CallFromForm \/ Restart
    \/ EditForm \/ TypeLine \/ CloseForm \/ Discard
    \/ SaveDelete \/ SaveCreate \/ SaveCopy

Next == Application \/ OtherDeletes \/ OtherEdits

Spec == Init /\ [][Next]_vars

-----------------------------------------------------------------------------
(* Properties *)

\* The current item of the list box is one of those it shows, so that
\* FilteredItemIndex and "contacts[currentItem]" of DoEditL and DoDeleteL find
\* an entry, and so does the index in the document while the form uses it:
\* also after DoNewL has set that index to -1 for a form that never comes.
IndexesInRange ==
    /\ listBox => IF found = << >> THEN cursor = 0 ELSE cursor \in DOMAIN found
    /\ form # "closed" => modifyIndex \in DOMAIN contacts

\* The list stays sorted by the names it shows, although saved contacts may
\* have got other names, and others take their place (SortContactsL).
ListSorted ==
    \A i, j \in DOMAIN contacts : i <= j => contacts[i].name <= contacts[j].name

\* Every entry of the list is a contact of the database, except those the
\* user deleted: SaveFormDataL, which replaces the contact by another one,
\* takes the entry along (SetEntryId).  After a fault, starting the
\* application again is enough.
EveryEntryExists ==
    calm /\ Idle => \A i \in DOMAIN contacts : contacts[i].id \in DOMAIN db \cup removed

\* A form that is not being edited shows what is in the database: after it
\* was opened, after a save to the new contact, after discarding.
FormIsStored ==
    calm /\ InForm("view") /\ Exists(Edited) => lines = LinesOf(Edited)

\* While the form is open the application changes no other contact: saving
\* goes by the index in the document, deleting by the item of the list under
\* the form, which may be filtered.
FormTouchesItsContact ==
    [][form # "closed" /\ Application =>
          \A id \in DOMAIN db \ {Edited} : Exists(id)' /\ db'[id] = db[id]]_vars

\* A save never leaves two contacts where there was one, and never brings
\* back a contact that was deleted under the form, wherever it is cut short.
NoCopies == Cardinality(DOMAIN db) + Cardinality(removed) <= Initial

\* A deleted contact stays in the list, and in a form that is open on it.
\* Whatever is then opened, saved, tried again or deleted through its entry,
\* and whenever it was deleted, under the form or within a save: the entry
\* never gets another contact, and its own does not come back.  NoCopies only
\* counts, and a contact lost by a save that was cut short leaves it room for
\* one that returns.
DeadEntriesStayDead ==
    [][\A i \in DOMAIN contacts : contacts[i].id \in removed =>
          \/ Restart
          \/ contacts'[i] = contacts[i] /\ contacts[i].id \notin DOMAIN db']_vars

\* A save that returns normally has stored the lines: "Save the contents of
\* the form." (VoIPForm.h:61)
SavedMeansStored ==
    [][step = "copy" /\ outcome' = "ok" =>
          db'[Edited] = Filled]_vars
=============================================================================
