-------------------------------- MODULE Console --------------------------------
(***************************************************************************)
(* The operator's screen (ui/src/main.tsx): which meeting is selected,     *)
(* which projection is shown, and the calls to the daemon whose answers    *)
(* move both.  A poll refreshes the screen every two seconds; selecting    *)
(* and creating a meeting, the controls of the selected meeting (start,    *)
(* stop, Ask Standby, rename) and the cards (approve, ignore) are calls of *)
(* their own.  Answers arrive in any order.                                *)
(*                                                                         *)
(* A projection is its meeting and a version, the number of writes.  The   *)
(* page has loaded.                                                        *)
(***************************************************************************)
EXTENDS Integers, FiniteSets

CONSTANTS
  Meeting,
  NoMeeting,
  Slot,       \* bound: calls under way at once
  MaxClicks,  \* bound
  MaxChanges, \* bound: writes that no call of this screen made
  MaxFaults   \* bound: calls that fail

ASSUME ConstantsAssumption ==
  /\ NoMeeting \notin Meeting
  /\ MaxClicks \in Nat /\ MaxChanges \in Nat /\ MaxFaults \in Nat

VARIABLES
  version,  \* daemon: writes to a meeting, 0 when there is none
  newest,   \* daemon: the first meeting of its catalogue
  selected, \* selectedMeetingId
  shown,    \* projection
  busy,
  call,     \* the call in a slot
  chosen,   \* the meeting that the operator selected or created last
  settled,  \* no call under way could move the selection then
  used      \* what was used of the bounds

daemon == <<version, newest>>
screen == <<selected, shown, busy>>
choice == <<chosen, settled>>
vars == <<daemon, screen, call, choice, used>>

Page(m) == [meeting |-> m, version |-> version[m]]
Nothing == [meeting |-> NoMeeting, version |-> 0]
Call(kind, at, target) ==
  [kind |-> kind, at |-> at, target |-> target, page |-> Nothing]
Idle == Call("idle", "idle", NoMeeting)
Existing == {m \in Meeting : version[m] > 0}

Init ==
  /\ \E known \in SUBSET Meeting :
       version = [m \in Meeting |-> IF m \in known THEN 1 ELSE 0]
  /\ newest \in IF Existing = {} THEN {NoMeeting} ELSE Existing
  /\ selected = newest
  /\ shown = IF newest = NoMeeting THEN Nothing ELSE Page(newest)
  /\ busy = FALSE
  /\ call = [c \in Slot |-> Idle]
  /\ chosen = selected /\ settled = (selected # NoMeeting)
  /\ used = [clicks |-> 0, changes |-> 0, faults |-> 0]

Click == /\ used.clicks < MaxClicks
         /\ used' = [used EXCEPT !.clicks = @ + 1]
Send(c, new) == call[c] = Idle /\ call' = [call EXCEPT ![c] = new]
At(c, kinds, at) == call[c].kind \in kinds /\ call[c].at = at
Done(c) == call' = [call EXCEPT ![c] = Idle]

Write(m) ==
  /\ version' = [version EXCEPT ![m] = @ + 1]
  /\ newest' = m

(* Meetings are left for the creations under way. *)
Room == Cardinality({c \in Slot : At(c, {"create"}, "post")})
          < Cardinality(Meeting \ Existing)

(* A call under way that selects a meeting other than m when it answers. *)
MovesFrom(m, c) ==
  \/ At(c, {"poll"}, "list") /\ call[c].target # m
  \/ At(c, {"create"}, "post") \/ At(c, {"create"}, "page")

-----------------------------------------------------------------------------
(* What the operator does.                                                 *)

(* selectMeeting, which busy does not disable. *)
Select(m, c) ==
  /\ Click /\ m \in Existing
  /\ Send(c, Call("select", "fetch", m))
  /\ selected' = m /\ busy' = TRUE
  /\ chosen' = m
  /\ settled' = \A d \in Slot : ~MovesFrom(m, d)
  /\ UNCHANGED <<daemon, shown>>

Create(c) ==
  /\ Click /\ ~busy /\ Room
  /\ Send(c, Call("create", "post", NoMeeting))
  /\ busy' = TRUE
  /\ UNCHANGED <<daemon, selected, shown, choice>>

(* A control of the selected meeting. *)
Control(c) ==
  /\ Click /\ ~busy /\ selected # NoMeeting
  /\ Send(c, Call("control", "post", selected))
  /\ busy' = TRUE
  /\ UNCHANGED <<daemon, selected, shown, choice>>

(* A card of the projection on screen, which busy does not disable. *)
Card(c) ==
  /\ Click /\ shown # Nothing
  /\ Send(c, Call("card", "post", shown.meeting))
  /\ busy' = TRUE
  /\ UNCHANGED <<daemon, selected, shown, choice>>

(* The interval, with the selection of the last render. *)
Tick(c) ==
  /\ Send(c, Call("poll", "list", selected))
  /\ UNCHANGED <<daemon, screen, choice, used>>

-----------------------------------------------------------------------------
(* The daemon.                                                             *)

Serve(c) ==
  /\ \/ /\ call[c].at = "fetch"
        /\ call' = [call EXCEPT ![c].at = "page", ![c].page = Page(call[c].target)]
        /\ UNCHANGED daemon
     \/ /\ call[c].at = "post"
        /\ \E m \in IF call[c].kind = "create" THEN Meeting \ Existing
                    ELSE {call[c].target} :
             /\ Write(m)
             /\ call' = [call EXCEPT ![c].at = "page", ![c].page = Page(m)']
  /\ UNCHANGED <<screen, choice, used>>

(* A worker, a capture or another screen writes. *)
Change(m) ==
  /\ used.changes < MaxChanges
  /\ m \in Existing \/ Room
  /\ used' = [used EXCEPT !.changes = @ + 1]
  /\ Write(m)
  /\ UNCHANGED <<screen, call, choice>>

-----------------------------------------------------------------------------
(* Answers.                                                                *)

(* A slip: a projection that is on screen is not fetched again. *)
PollListedOnce(c) ==
  /\ At(c, {"poll"}, "list")
  /\ LET m == IF call[c].target # NoMeeting THEN call[c].target ELSE newest
     IN /\ selected' = m
        /\ IF m \in {NoMeeting, shown.meeting} THEN Done(c) /\ UNCHANGED shown
           ELSE call' = [call EXCEPT ![c].at = "fetch", ![c].target = m]
                /\ UNCHANGED shown
  /\ UNCHANGED <<daemon, busy, choice, used>>

(* A slip: the first meeting of the catalogue, unless there is none. *)
PollListedFirst(c) ==
  /\ At(c, {"poll"}, "list")
  /\ LET m == IF newest # NoMeeting THEN newest ELSE call[c].target
     IN /\ selected' = m
        /\ IF m = NoMeeting THEN Done(c) /\ shown' = Nothing
           ELSE call' = [call EXCEPT ![c].at = "fetch", ![c].target = m]
                /\ UNCHANGED shown
  /\ UNCHANGED <<daemon, busy, choice, used>>

(* refresh, on the catalogue: it selects the meeting it was sent for, or   *)
(* the first one.                                                          *)
PollListed(c) ==
  /\ At(c, {"poll"}, "list")
  /\ LET m == IF call[c].target # NoMeeting THEN call[c].target ELSE newest
     IN /\ selected' = m
        /\ IF m = NoMeeting THEN Done(c) /\ shown' = Nothing
           ELSE call' = [call EXCEPT ![c].at = "fetch", ![c].target = m]
                /\ UNCHANGED shown
  /\ UNCHANGED <<daemon, busy, choice, used>>

PollAnswered(c) ==
  /\ At(c, {"poll"}, "page")
  /\ shown' = call[c].page
  /\ Done(c)
  /\ UNCHANGED <<daemon, selected, busy, choice, used>>

(* Selecting and creating read the catalogue before they show the page. *)
SelectAnswered(c) ==
  /\ At(c, {"select"}, "page")
  /\ call' = [call EXCEPT ![c].at = "relist"]
  /\ UNCHANGED <<daemon, screen, choice, used>>

CreateAnswered(c) ==
  /\ At(c, {"create"}, "page")
  /\ LET m == call[c].page.meeting
     IN /\ selected' = m
        /\ chosen' = m
        /\ settled' = \A d \in Slot \ {c} : ~MovesFrom(m, d)
  /\ call' = [call EXCEPT ![c].at = "relist"]
  /\ UNCHANGED <<daemon, shown, busy, used>>

(* The end of act: its page is shown, whatever is selected by now. *)
Acted(c) ==
  /\ At(c, {"select", "create"}, "relist") \/ At(c, {"control", "card"}, "page")
  /\ shown' = call[c].page
  /\ busy' = FALSE
  /\ Done(c)
  /\ UNCHANGED <<daemon, selected, choice, used>>

(* act shows the error; a poll that fails is ignored. *)
Failed(c) ==
  /\ call[c] # Idle
  /\ used.faults < MaxFaults
  /\ used' = [used EXCEPT !.faults = @ + 1]
  /\ busy' = (busy /\ call[c].kind = "poll")
  /\ Done(c)
  /\ UNCHANGED <<daemon, selected, shown, choice>>

Answered(c) ==
  PollListed(c) \/ PollAnswered(c) \/ SelectAnswered(c) \/ CreateAnswered(c) \/ Acted(c)

Next ==
  \/ \E c \in Slot :
       \/ \E m \in Meeting : Select(m, c)
       \/ Create(c) \/ Control(c) \/ Card(c) \/ Tick(c)
       \/ Serve(c) \/ Answered(c) \/ Failed(c)
  \/ \E m \in Meeting : Change(m)

Spec == Init /\ [][Next]_vars

(* The interval keeps firing, and the daemon and the network answer. *)
Fairness ==
  /\ WF_vars(\E c \in Slot : Tick(c))
  /\ \A c \in Slot : WF_vars(Serve(c)) /\ WF_vars(Answered(c))

FairSpec == Spec /\ Fairness

-----------------------------------------------------------------------------
(* The inductive invariants (Console_proofs).                              *)

Pages == [meeting : Meeting \cup {NoMeeting}, version : Nat]
Calls == [kind : {"idle", "poll", "select", "create", "control", "card"},
          at : {"idle", "list", "fetch", "post", "page", "relist"},
          target : Meeting \cup {NoMeeting}, page : Pages]

TypeOK ==
  /\ version \in [Meeting -> Nat]
  /\ newest \in Meeting \cup {NoMeeting}
  /\ selected \in Meeting \cup {NoMeeting}
  /\ shown \in Pages
  /\ busy \in BOOLEAN
  /\ call \in [Slot -> Calls]
  /\ chosen \in Meeting \cup {NoMeeting}
  /\ settled \in BOOLEAN
  /\ used \in [clicks : 0..MaxClicks, changes : 0..MaxChanges, faults : 0..MaxFaults]

Known(m) == m = NoMeeting \/ m \in Existing

(* What the daemon answered once: never newer than the meeting. *)
IsAnswer(page) ==
  page.meeting \in Existing /\ page.version \in 1..version[page.meeting]

(* Where a call stands, and what it was answered. *)
CallIsSound(one) ==
  /\ one.at = "idle" => one = Idle
  /\ one.at = "list" => one.kind = "poll"
  /\ one.at = "fetch" => one.kind \in {"poll", "select"} /\ one.target \in Existing
  /\ one.at = "post" => \/ one.kind = "create" /\ one.target = NoMeeting
                        \/ one.kind \in {"control", "card"} /\ one.target \in Existing
  /\ one.at \in {"page", "relist"} => IsAnswer(one.page)
  /\ one.at = "page" => \/ one.kind = "create" /\ one.target = NoMeeting
                        \/ /\ one.kind \in {"poll", "select", "control", "card"}
                           /\ one.page.meeting = one.target
  /\ one.at = "relist" => one.kind \in {"select", "create"}

(* The screen holds nothing that the daemon did not say. *)
ScreenIsSound ==
  /\ Known(newest) /\ Known(selected) /\ Known(chosen)
  /\ shown = Nothing \/ IsAnswer(shown)
  /\ \A c \in Slot : Known(call[c].target) /\ CallIsSound(call[c])

(* The calls under way that set the selection when the catalogue answers   *)
(* set it to what the operator chose.                                      *)
SelectionInv ==
  settled =>
    /\ selected = chosen /\ chosen # NoMeeting
    /\ \A c \in Slot : At(c, {"poll"}, "list") => call[c].target = chosen

-----------------------------------------------------------------------------
(* Properties.                                                             *)

(* A meeting that was selected while no call under way could move the      *)
(* selection stays selected, whatever answers later and in which order.    *)
SelectionIsKept == settled => selected = chosen

(* Whatever was shown meanwhile, the screen ends up with the newest        *)
(* projection of the selected meeting, cards included.                     *)
ScreenCatchesUp ==
  <>[](settled => shown = IF selected = NoMeeting THEN Nothing ELSE Page(selected))

(* docs/context-packets/first-class-meeting-objects.md: selected meeting   *)
(* owns all controls.  A control reaches the meeting that the operator     *)
(* selected or created last.                                               *)
SelectedOwnsControls ==
  [][\A c \in Slot :
       /\ call[c] = Idle /\ call'[c].kind = "control"
       /\ chosen # NoMeeting
       => call'[c].target = chosen]_vars

=============================================================================
