# S60 VoIP: specifications, model checking and proofs

S60 VoIP is a SIP phone for Symbian S60: a contacts list, a log view that
places and takes calls, and a settings page, over the pjsua library of
pjproject 1.5.5.  The code of the application is `src/src` and `src/inc`; the
library is present as headers only, some of which hold code: the circular buffer
and the AMR payload helpers of its media part.  Paths below are relative to `src/`.

This directory holds TLA+ modules that model the application's state machines,
TLC configurations that check them on small instances, and TLAPS proofs that
some of the properties hold for every value of the constants.

## 1. The system

There is one process with one thread and one active scheduler.  Nothing runs in
parallel, and yet a lot interleaves: the library calls back whenever the
scheduler runs, dialogs run a scheduler of their own inside a handler, other
applications use the same contact database, and a phone can go dead between two
file operations of one function.

| Component | Code | State | Operations | Talks to |
|---|---|---|---|---|
| SIP glue | `src/symbian_ua.cpp` | `g_call_id`, `g_acc_id`, the network handles `aSocketServer`, `aConn` | init, destroy, set account, make / answer / end call, callbacks | pjsua, the observer (log view) |
| SIP log view | `src/SIPExLogView.cpp` | container, accept queries, right soft key | key, callbacks, activate | glue, document |
| Contacts view and list box | `src/VoIPListBoxView.cpp`, `src/VoIPListBox.cpp` | list box, cursor | start / stop SIP, Internet call, circuit call, SMS, MMS, open, new, delete | engine, document, glue, phone helper |
| Contact form | `src/VoIPForm.cpp` | lines of the form | edit, save, discard, the contact commands | engine, document, contacts view |
| Phone book engine | `src/PhoneBkEngine.cpp`, `src/Contact.cpp` | list of contact ids and names | load, read, add, delete, commit | contact database |
| Settings page and view | `src/symbian_ua_guiSettingItemList*.cpp` | `iSettings`, `previousView` | edit item, back | document |
| Document | `src/VoIPDocument.cpp` | modify index, phone number, log text, `VoIP.ini` | store text, store number, load and save settings | file server |
| Application UI | `src/VoIPAppUi.cpp` | views, tab group | arrow keys, commands, billable-event consent, exit | all views |
| Phone helper | `src/PhoneHelper.cpp`, `src/CheckedActive.cpp` | one active object | circuit call, SMS, MMS | CTelephony, SendAs |
| Media helpers | `pjproject-1.5.5/pjmedia/include/pjmedia/circbuf.h`, `types.h`, `pjmedia-codec/amr_helper.h` | buffer, start and length; cursors into a payload | read, write, copy, advance, pack; pack, parse and prepare frames | codecs, stream and delay buffers of the library |
| the rest of pjproject | `pjproject-1.5.5` | accounts, calls | external | network |

**How they interact.**  The views call the glue directly; the glue calls back
the log view (`g_cb`, `MSymbianUaObserver`).  `on_incoming_call` opens an accept
query *inside* the callback: until the user answers, the handler stands, and
the query's inner scheduler may let the library call back again.  The document
is shared state: the contacts view leaves a number and a log line there for the
log view, the list box leaves the index of the opened contact for the form, the
settings page leaves a file for the two places that set the account.  Views are
switched by the application UI and, in disguise, by a "back" command that
`DoInternetCall` sends to it.

**What is hard.**

* Calls: `g_call_id` (the application's idea), the library's call count (used by
  the soft key) and the stack of open queries must agree, whatever the order of
  callbacks and keys.
* Accounts: `symbian_ua_set_account` deletes, unregisters or adds depending on
  the number of accounts and resets `g_acc_id` to 0 in passing; it destroys the
  library when the account is refused.
* Starting: seven stages of `symbian_ua_init` may fail, and callers clean up.
* Saving settings and contacts: both *delete first and create after*, with
  errors that leave, and one that is swallowed, in between.
* The contact form edits through an index stored elsewhere, under a list that is
  loaded once, while every save changes the id of the contact.
* A contact is reached through three indexes: the item of the list box, the
  entry its find box filters it from, and the index kept in the document.
* The circular buffer is packed in place, through the gap it happens to have.
* An octet-aligned AMR payload is written by one table of lengths and read by
  another.
* The log is a bounded text, filled from three places and shown by a view that
  comes and goes.

What makes each component correct is stated in section 3; `PROJECT.json` lists
the hazards one by one with the lines where they bite.

## 2. The modules

| Module | Models | State, and the code it stands for |
|---|---|---|
| `PhoneLine` | abstract | what call handling promises: a phone with one line |
| `CallControl` | calls | `call` (pjsua call slots), `g_call_id`, `queries` (the accept queries, innermost last), `label` (right soft key), `number` (document), `view`, `up`, `running` |
| `SipStack` | accounts, start and stop | `ua` (account table, registrations, `g_acc_id`), `sock`, `conn` (handles), `domain` (the stored registrar); `leaked`, `refused`, `lastCall` are history |
| `InfoLog` | log text | `info` (`iInfoText`), `open`, `shown` (editor of the log view) |
| `Phone` | composition | `CallControl` and `SipStack` over one library, with `account`, the account a call was made from |
| `Settings` | views, tabs, settings | `view`, `tab`, `previous`, `page` (`iSettings`), `file` (`VoIP.ini`), `saving` (program counter in `SaveSettingValuesL`); `outcome`, `committed` are history |
| `Screens` | composition | `Settings` and `InfoLog` in one application: whatever switches views makes and destroys the log's editor |
| `PhoneBook` | contacts and form | `db` (contact database), `contacts` (engine's list of ids and names), `listBox`, `found` (the filter of the find box), `cursor`, `modifyIndex`, `form`, `lines`, `step` (program counter in `SaveFormDataL`); `outcome`, `removed`, `calm` are history |
| `Billing` | billable commands | `command` and `stage` (the dialog a command waits for), `remembered` (`billableevents.cfg`), `dialling` (the active object of `CPhoneHelper`), `depth` (cleanup stack); `yes`, `never`, `last` are history |
| `SampleQueue` | abstract | what the circular buffer promises: a bounded queue of samples, with `content`, `len` and the samples of the last call, `io` |
| `CircularBuffer` | circular buffer | `buf`, `start`, `len` of `pjmedia_circ_buf`; `pc`, `reg`, `gap` (the locals of `pack_buffer`), `io` (the caller's array) |
| `AmrPayload` | AMR payloads | `band`, `aligned` (settings), `frames`, `turn` (`i` or `cnt`), `cursor` (`w` or `r` with its bit pointer), `toc`, `starts`, `size` (the payload), `parsed`, `decoded` |

`MC*` modules instantiate them; `*Proofs` modules hold the proofs.  In every
module a handler that cannot be interrupted is one action, whatever it calls;
a handler is cut into actions exactly where something may come in between:

* `on_incoming_call` at the accept query (`IncomingCall`, then `AcceptQuery` or
  `DeclineQuery`);
* ending a call, which the library completes later (`ending`, then
  `CallDisconnected`);
* `SaveSettingValuesL` between deleting, creating and committing the file;
* `SaveFormDataL` between deleting, creating and filling the contact;
* the billable commands at each of their dialogs;
* `pjmedia_circ_buf_pack_buffer` and the AMR functions at each turn of their
  loops, where nothing comes in between but every turn must keep what the next
  one relies on.

`symbian_ua_set_account` is too entangled for one action with disjuncts: in
`SipStack` its parts (`Unregister`, `DeleteAccount`, `AddAccount`) are functions
from a state of the library to the next, composed as the code composes them, and
used by both callers.

`CallControl` and `SipStack` look at the same library from two sides.
`CallControl` knows of starting and stopping only whether it succeeded;
`SipStack` knows of calls only from which account they leave.  `Phone` joins
them: the handlers that concern both (SIP start, SIP stop, the calling case of
the soft key) are one step of each, and both have the same library up.
`Screens` joins `Settings` and `InfoLog` in the same way.  `CallControl` counts
the settings view as the contacts view, since neither has call keys;
`Settings` has the three views.

In `PhoneBook` a name is a number and `Blank` is the number of "unnamed", so that
sorting is `<=`; `found` is the filter of `CAknFilteredTextListBoxModel`, which
is not in the repository: the entries whose names match, in their order.

In `AmrPayload` positions are counted in bits; a payload is a function from
positions to the entry that begins there, and for each frame the position where
its bits begin.  The order of the bits within a frame is left out: packing and
preparing permute them by the same maps.

Definitions named after a bug (`IncomingCallNeverBusy`, `SaveCreateKeepsId`, ...)
are mutants: `PROJECT.json` names for each checked property a mutant of the code
that breaks it.  They are not used by `Next`.

### The environment

* The library's sources are not in the repository.  Whether it delivers events
  while a query is open is not known: `Reentrant` is a constant, and properties
  are checked with the value that is worse for them; those that need a silent
  library say so (`AcceptFindsCall`).
* `PeerReplaces`: a peer may replace a call (RFC 3891), which the library
  handles itself; `on_call_replaced` only logs.  The one-line properties fail
  then, because `g_call_id` goes on naming the old call until its end is
  reported, so they assume that no peer does it.
* `pjsua_destroy` hangs up and waits for about a second: which ends are still
  reported is a nondeterministic set (`heard`).
* pjsua accounts: the lowest free entry is taken, and a new account registers at
  once.  A registration may fail at any time.  `symbian_ua_init` does not look at
  the status of `pjsua_acc_add_local` (`symbian_ua.cpp:369`): in the empty table of
  a library that was just created it is taken to succeed, which every property of
  `g_acc_id` rests on.
* File server and contact database: a call succeeds or leaves.  A commit of a
  `CDictionaryFileStore` is atomic; ids of contacts are not used again.  In
  `PhoneBook` and `Settings` failures are always on, and other applications may
  delete and edit contacts at any time; `calm` says that none has done so,
  and no call to the database has failed, since the last start.
* Media helpers: a caller asks for any number of samples, but not for one that,
  added to the length of the buffer, overflows an unsigned integer: the tests at
  `circbuf.h:189` and `:357` would pass then.  The payloads that are parsed are
  those that packing makes, and the caller has room for all their frames: the
  limit on frames (`amr_helper.h:1173`) and the end of parsing at an invalid type
  (`:1151`) are left out.

## 3. Runs

All runs take seconds, `CircularBuffer` and `AmrPayload` about half a minute.

| Run | States | Asks |
|---|---|---|
| `CallControl_any` | 1330 | events under open queries and peers that replace calls: types; the topmost query is about the call that rings (`RingingCallIsAsked`); a key that reads Call has a number (`CallKeyHasNumber`); only its own query connects a call (`AnsweredAsAsked`); an ended call gives the line back (`EndedCallReleased`) |
| `CallControl_busy` | finding | an idle phone refuses a caller as busy |
| `CallControl_hangup` | finding | a key that reads Hang Up exits the application |
| `Phone` | 579156 | no replaced calls, a library silent under a query: `LiveCallIsGlobal`; refinement of `PhoneLine` (`OneLine`); `symbian_ua_answercall` finds a call that rings (`AcceptFindsCall`); `g_acc_id` exists, two accounts at most, one registration, calls leave from the right account, handles follow the library; a call keeps its account to its end (`CallKeepsAccount`) |
| `Screens` | 17472 | tabs name the view; the page is stored; nothing stale is ever loaded; the log text fits, is the newest text, is shown by the log view however it is reached, and does not shrink |
| `Settings_lost` | finding | a save ends normally and has stored nothing |
| `PhoneBook` | 332273 | indexes stay within the filtered list; entries of the list exist; the form shows what is stored; an open form touches no contact but the chosen one; a save makes no copies; an entry whose contact was deleted gets neither another contact nor its own back (`DeadEntriesStayDead`) |
| `PhoneBook_lost` | finding | a save ends normally and left an empty contact |
| `Billing` | 481 | nothing is billed without a consent |
| `CircularBuffer` | 121464 | regions share the memory (`RegionsPartition`); packing copies no overlapping blocks (`RollIsSound`) and ends (`PackEnds`); refinement of `SampleQueue` (`ImplementsQueue`) |
| `AmrPayload` | 3558016 | nothing overlaps in a payload, and its size covers it (`PayloadIsSound`); frames come out as they went in (`FramesRecovered`) |
| `AmrPayload_length` | finding | frames after one of 14.25 kbit/s come out wrong |

**Bounds.**  Two call slots are not a bound but `cfg.max_calls = 2`.
Three nested queries (`MaxQueries`) reach one stale query under another under a
live one; a silent library needs one, and `Phone` has two.  An account table of
three entries (`MaxAccs`) has room for one more account than the code ever keeps,
and two registrars tell old from new.  A log of six characters (`MaxInfo`) with
18 stored (`MaxTotal`) makes room several times and has messages that fit, just
fit and are refused; a document that holds numbers shorter than `MaxNumber` - 1
takes some for an Internet call and leaves for others.  Two settings fields of two texts are what it takes to mix
old and new.  Two contacts give a wrong one to change and a list to filter; one
field with and one without an editor; ids for two saves (`MaxId`), each using
one.  A buffer of five samples (`Capacity`) with two values has starts, lengths
and gaps that divide neither each other nor the capacity, and needs up to three
turns of the loop.  Up to four frames (`MaxFrames`) end the table of contents of
a bandwidth-efficient payload at each of its four places in an octet; the frame
types are speech of two lengths, SID and no data, the wide-band type whose two
lengths disagree among them.

**Deadlock** is checked except in `CallControl` and `Phone`, where the process
exits, and in `AmrPayload`, whose calls return.

**Fairness.**  `EndedCallReleased` assumes weak fairness of `CallDisconnected`
for a call that is being ended.  The SIP transaction of a BYE, CANCEL or final
response ends by an answer or by its timer, so the library reports the end of
the call while the scheduler runs it.  With a library that is silent under a
query this holds only once the user has answered the query.  `PackEnds` assumes
that a loop that runs goes on (`WF_vars(Pack)`): nothing else runs in the
function meanwhile.  No fairness is asked of the user, of callers or of peers.

### Findings

1. `CallControl_busy`: `symbian_ua_destroy` leaves `g_call_id` as it is.  A call
   whose end was not heard within `pjsua_destroy` makes the next callers, after
   SIP was started again, hear "busy" on an idle phone, until the user calls.
2. `CallControl_hangup`: `CallSoftKeyPressedL` blanks the number and sets its key
   to "Hang Up" before `symbian_ua_makecall`, which ignores the status of
   `pjsua_call_make_call`.  After a call the library refused there is neither a
   call nor a number under that key, and pressing it exits the application, where
   a comment (`SIPExLogView.cpp:451`) has it return to the contacts.
3. `Settings_lost`: `SaveSettingValuesL` deletes the file and saves only if it
   finds one.  One interruption, and every later edit reports success and stores
   nothing.
4. `PhoneBook_lost`: `CommitContactItem` swallows its error after the old contact
   was deleted, and the form takes the contact for saved.
5. `AmrPayload_length`: the table of wide-band frame lengths in octets
   (`amr_helper.h:586`) has 37 for 14.25 kbit/s, whose 285 bits fill 36.  In an
   octet-aligned payload `pjmedia_codec_amr_parse` advances by this table and
   `pjmedia_codec_amr_pack` by the bits, so every frame after such a frame is taken
   from an octet too late.  The same happens after a frame without data, for which
   the table has 5 octets and packing writes none, and after a wide-band SID frame,
   whose 40 bits end with an octet and are followed by an empty one.
   `FramesRecovered` shows that nothing else is lost.

The models also show behaviours that are no runs of their own: a save drops
fields the form has no editor for (`Filled`); "Internet call" from an open form swaps the view under it, and the
next command of the form uses the list box that is gone (a `Restart` in the
model); a contact deleted from within its form can be neither saved nor
discarded; `DoSMS` pops "recip, alias, title, messagetxt" (`VoIPListBoxView.cpp:480`),
of which the last was never pushed, so that the contact goes instead and the pop
that follows panics or takes what the framework has pushed (`SendSMS`; that no
other command does so is `OnlySmsUnbalances`); a second circuit call while the first is being dialled panics
(`DialCall`); and Exit ends the process with the library up and calls on
(`ExitCommand`), against `pjsua.h:1167`.  The check at the end of
`pjmedia_circ_buf_get_write_regions` (`circbuf.h:262`), which is compiled out,
would fail for a full buffer: it was copied from the read regions and asks for an
empty buffer where the first region is empty.  `RegionsPartition` holds there.

## 4. Proofs

| Module | Proved, for every value of the constants |
|---|---|
| `CallControlProofs` | types, `RingingCallIsAsked`, `AnsweredAsAsked`, `LiveCallIsGlobal`, `AcceptFindsCall`, `CallKeyHasNumber`, and that `CallControl` implements `PhoneLine`; the steps under `EndedCallReleased` (`EndingUntilReleased`) |
| `SipStackProofs` | types, `GlobalAccountExists`, `TwoAccounts`, `OneRegistration`, `CallsFromSettings`, `HandlesFollowLibrary` |
| `PhoneProofs` | that `Phone` implements `CallControl` and `SipStack`; `CallKeepsAccount`; no call without the network (`CallHasNetwork`); the type of `account` |
| `ScreensProofs` | of `Settings`: types, `TabNamesView`, `PageIsStored`, `NeverStale`; of `InfoLog`: types, `InfoFits`, `InfoIsRecent`, `ShownIsInfo`, `InfoNeverShrinks`; that `Screens` implements both |
| `PhoneBookProofs` | types, `IndexesInRange`, `ListSorted`, `EveryEntryExists`, `FormIsStored`, `NoCopies`, `FormTouchesItsContact`, `DeadEntriesStayDead` |
| `CircularBufferProofs` | types, `RegionsPartition`, `RollIsSound`, and that `CircularBuffer` implements `SampleQueue`; the steps under `PackEnds` (`PackingDescends`) |
| `AmrPayloadProofs` | types, `PayloadIsSound`, `FramesRecovered`, each for any number of frames of any types; a bandwidth-efficient payload loses nothing (`EfficientRecovers`) |
| `BillingProofs` | types, `BilledWithConsent`; no command but the SMS unbalances the cleanup stack (`OnlySmsUnbalances`) |

The assumptions are those declared with the constants: the markers (`NoCall`,
`Blank`, `Absent`, ...) are not values, the table has two entries at least, bounds
are natural numbers, the frame types of an encoder are those the code asserts
(`FrameTypesAssumption`, `amr_helper.h:922`).

`CallHasNetwork`, `ListSorted` and the types of `InfoLog` and of `account` are
proved and in no run: they are parts of inductive invariants, and follow from
little.

*Calls.*  `RingingCallIsAsked` is not inductive: to know that no older query is
about the call that rings, one must know that a call rings only as the global
call, and that a query that was opened for a slot forgets it when the slot is
given up.  The invariant says which queries may name which slots, and the
one-line property adds that without replaced calls every live call is the one in
`g_call_id`.  The refinement follows: a step that puts a call on the line finds
no other live one there.

*Accounts.*  `TwoAccounts` needs to know which two: entries 0 and 1, entry 0
always, so that deleting the account in use leaves exactly one of them and the
lowest free entry is the other (`FreeSlot`, `DeleteAccountLeavesOne`,
`AddAccountSound`).  `OneRegistration` needs in addition that a table with the
local account alone has no registration, since then nothing is deleted.

*Log.*  The properties are inductive together.  The work is in sequences: a
suffix of a window on the newest characters is such a window, and stays one when
the next characters are appended.

*Settings.*  The page exists exactly in the settings view, a save is under way
only there, and the file holds nothing but markers or the committed settings;
`NeverStale` follows although the file is deleted first.

*Compositions.*  A step of `Phone` is a step of `CallControl` and one of `SipStack`
by construction, so all their theorems carry over; the work is in
`CallKeepsAccount`.  Its invariant says that both sides agree on whether the
library is up, that there are calls only while it is, and that a free slot
remembers no account; then the handler that deletes accounts, which begins by
looking for any call at all, finds none to disturb.  A step of `Screens` is one of
`InfoLog` only because the editor is there exactly while the log view is active.

*Contacts.*  `EveryEntryExists` fails in the middle of a save, `NoCopies` counts:
the invariant says which entry is without a contact and where the save stands
then, that ids are handed out once, and that the entry under the form is the one
the document names although the list may be filtered (`FormCovers`).  For
`DeadEntriesStayDead` each step of a save, of a deletion and of another
application is shown to leave an entry alone whose contact is gone (`GoneStep`).

*Circular buffer.*  Types and `RollIsSound` need that, while the samples are
rolled, the first region ends where the memory does and the gap fits in what is
free (`Rolling`).  For the refinement the sample with index i is followed to
its slot: reading and writing at either side of the end of the memory, and a turn
of the loop, which leaves the queue as it is although it moves every sample.

*AMR payloads.*  The entries of the table of contents are at places that a
formula gives (`TocAt`).  Where a frame begins is a sum over the frames before it,
which no formula gives and which the prover could not reason about; the invariant
says of every frame instead that it begins where packing stood after the one
before (`EndOf`), and behind all the earlier ones (`StartsHave`), so that no
induction over the frames is needed.  The invariant has a part for each of the
three functions: `PackInv` says what is in the payload so far; `ParseInv` that the
parser is at the entry of the frame whose turn it is and, unless an earlier frame
displaces, looks for its bits where they begin; `DecodeInv` that what is prepared
so far is what was packed.  The two tables are compared once, type by type:
rounded up to octets the bits give the length in octets, but for the types that
displace (`Tables`), and this is all that parsing needs to keep up with packing.

*Billing.*  A consent is given at one dialog and used two dialogs later, or after
any number of restarts.  The invariant carries it: who selects a number has
agreed or has the file, and the file is only there for who asked not to be asked.
Above that it counts the items on the stack at each dialog, without which the
type of `depth` is not inductive.

*Towards liveness.*  The prover has no rule for fairness here, but what the two
liveness properties rest on are steps, and these are proved.  A call that is
ending stays the application's call, and ending, until its end is reported or SIP
is stopped, and the report releases it, whatever queries, keys and other calls do
(`EndingUntilReleased`).  A turn of the packing loop always shortens the second
region, because the gap is never empty (`PackingDescends`).  What remains to the
runs is that these steps are enabled and are therefore taken.

Model-checked only: `EndedCallReleased` and `PackEnds`, since liveness under
fairness is out of the prover's reach.  Every invariant and every action property
of the runs that pass is proved.  `Phone` runs with a silent library; that `LiveCallIsGlobal` and
`OneLine` hold for any other is proved.

## 5. Not modelled

* **Instant messages, presence, transfer, NAT detection**: the callbacks log and
  keep no state; `symbian_im_send` has no caller.
* **The heap, and the cleanup stack but for its depth in `Billing`.**
  `CallSoftKeyPressedL` leaves an item on the stack that it has deleted
  (`SIPExLogView.cpp:512`, `:522`), and sorting may delete one twice
  (`Contact.cpp:42`); `CallControl` goes on as if the handler returned normally.
* **Settings that cannot be read when the settings view opens**: the activation
  leaves, and what becomes of a view half activated is up to the framework.  The
  same leave in the two handlers that set the account is modelled (`LoadLeaves`).
* **What a message editor sends**: `SendSMS` and `SendMMS` end where the editor of
  SendUI opens; that of `send_mms` is one for an SMS (`PhoneHelper.cpp:104`).
* **Widgets**: editors, panes, layout, resources, icons.
* **Application start**: framework boilerplate.
* **The rest of pjproject.**  Nine tenths of the repository's lines are its
  headers.  They declare, configure and document functions whose sources are
  elsewhere, so there is no behaviour to translate; what the application uses of
  them is modelled as environment.  Of the code they do hold, list links, string
  and character helpers and the front of the pool allocator (its other half,
  `pj_pool_allocate_find`, is not there) are left out: each is a few
  assignments a test reaches easily.

## 6. Plan

Done: `CallControl` with `PhoneLine`, `SipStack`, `InfoLog`, `Settings`,
`PhoneBook` with names, sorting and find box, `Billing`, the compositions `Phone`
and `Screens`, the media helpers, and the proofs of all safety properties.

Left: one composition of `Phone`, `Screens` and `PhoneBook`: the same views, with
the contacts view and the log view under the two open dialogs.

An abstract store ("the last complete value, or nothing") that `PhoneBook` and
`Settings` refine would add little: a save that leaves keeps the edits on the page,
so the next complete save may store several edits at once, and what remains of the
store's promise is `NeverStale` and `NoCopies`, which are stated directly.
