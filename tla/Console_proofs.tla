---------------------------- MODULE Console_proofs ----------------------------
(***************************************************************************)
(* Proofs about Console, for any meetings, any number of calls under way   *)
(* and any bounds: what the operator selected while no call under way      *)
(* could move the selection stays selected.                                *)
(***************************************************************************)
EXTENDS Console, TLAPS

IInv == TypeOK /\ ScreenIsSound /\ SelectionInv

-----------------------------------------------------------------------------
(* A write adds to a version, so what the daemon said stays said.          *)

LEMMA WriteKeeps ==
  ASSUME TypeOK, NEW m \in Meeting, Write(m)
  PROVE  /\ version' \in [Meeting -> Nat]
         /\ newest' = m /\ m \in Existing' /\ IsAnswer(Page(m))'
         /\ \A x : Known(x) => Known(x)'
         /\ \A x : x \in Existing => x \in Existing'
         /\ \A page \in Pages : IsAnswer(page) => IsAnswer(page)'
<1>1. /\ version' \in [Meeting -> Nat]
      /\ version'[m] = version[m] + 1
      /\ \A x \in Meeting : version[x] \in Nat /\ version'[x] >= version[x]
  BY DEF TypeOK, Write
<1>2. m \in Existing' /\ newest' = m
  BY <1>1 DEF Existing, Write
<1>3. \A x : x \in Existing => x \in Existing'
  BY <1>1 DEF Existing
<1>4. IsAnswer(Page(m))'
  BY <1>1, <1>2 DEF IsAnswer, Page
<1>5. \A page \in Pages : IsAnswer(page) => IsAnswer(page)'
  BY <1>1, <1>3 DEF IsAnswer, Pages, Existing
<1> QED
  BY <1>1, <1>2, <1>3, <1>4, <1>5 DEF Known

LEMMA WriteKeepsCalls ==
  ASSUME TypeOK, NEW m \in Meeting, Write(m)
  PROVE  \A one \in Calls : CallIsSound(one) => CallIsSound(one)'
<1>1. /\ \A x : x \in Existing => x \in Existing'
      /\ \A page \in Pages : IsAnswer(page) => IsAnswer(page)'
  BY WriteKeeps
<1>2. \A one \in Calls : one.page \in Pages
  BY DEF Calls
<1> QED
  BY <1>1, <1>2 DEF CallIsSound, Idle, Call, Nothing

-----------------------------------------------------------------------------

LEMMA InitIInv == Init => IInv
<1> SUFFICES ASSUME Init PROVE IInv
  OBVIOUS
<1> USE ConstantsAssumption
<1>1. version \in [Meeting -> Nat] /\ \A m \in Meeting : version[m] \in {0, 1}
  BY DEF Init
<1>2. newest \in Existing \/ newest = NoMeeting
  BY DEF Init
<1>3. \A m \in Existing : m \in Meeting /\ IsAnswer(Page(m)) /\ Page(m) \in Pages
  BY <1>1 DEF Existing, IsAnswer, Page, Pages
<1>4. Idle \in Calls /\ Nothing \in Pages /\ Idle.at = "idle" /\ Idle.target = NoMeeting
  BY DEF Idle, Call, Calls, Pages, Nothing
<1>5. shown \in Pages /\ (shown = Nothing \/ IsAnswer(shown))
  BY <1>2, <1>3, <1>4 DEF Init
<1>6. TypeOK
  <2>1. used \in [clicks : 0..MaxClicks, changes : 0..MaxChanges, faults : 0..MaxFaults]
    BY DEF Init
  <2>2. call \in [Slot -> Calls] /\ busy \in BOOLEAN /\ settled \in BOOLEAN
    BY <1>4 DEF Init
  <2>3. newest \in Meeting \cup {NoMeeting} /\ selected = newest /\ chosen = newest
    BY <1>2, <1>3 DEF Init
  <2> QED
    BY <1>1, <1>5, <2>1, <2>2, <2>3 DEF TypeOK
<1>7. ScreenIsSound
  BY <1>2, <1>4, <1>5 DEF Init, ScreenIsSound, Known, CallIsSound
<1>8. SelectionInv
  BY <1>4 DEF Init, SelectionInv, At
<1> QED
  BY <1>6, <1>7, <1>8 DEF IInv

-----------------------------------------------------------------------------
(* The calls under way.                                                    *)

LEMMA DaemonKept ==
  ASSUME UNCHANGED daemon
  PROVE  /\ \A x : Known(x) => Known(x)'
         /\ \A page \in Pages : IsAnswer(page) => IsAnswer(page)'
         /\ \A one \in Calls : CallIsSound(one) => CallIsSound(one)'
<1>1. Existing' = Existing
  BY DEF daemon, Existing
<1>2. \A page \in Pages : IsAnswer(page) => IsAnswer(page)'
  BY <1>1 DEF daemon, IsAnswer
<1>3. \A one \in Calls : one.page \in Pages
  BY DEF Calls
<1> QED
  BY <1>1, <1>2, <1>3 DEF Known, CallIsSound, Idle, Call, Nothing

(* A step that changes one call to a sound one leaves all calls sound. *)
LEMMA OneCallChanges ==
  ASSUME TypeOK, ScreenIsSound, NEW c \in Slot, NEW new \in Calls,
         \A x : Known(x) => Known(x)',
         \A one \in Calls : CallIsSound(one) => CallIsSound(one)',
         call' = [call EXCEPT ![c] = new], Known(new.target)', CallIsSound(new)'
  PROVE  /\ call' \in [Slot -> Calls]
         /\ \A d \in Slot : Known(call[d].target)' /\ CallIsSound(call[d])'
<1>1. call' \in [Slot -> Calls]
  BY DEF TypeOK
<1>2. ASSUME NEW d \in Slot
      PROVE  Known(call[d].target)' /\ CallIsSound(call[d])'
  <2>1. CASE d = c
    <3>1. call'[d] = new
      BY <2>1 DEF TypeOK
    <3> QED
      BY <3>1 DEF Known, CallIsSound
  <2>2. CASE d # c
    <3>1. call'[d] = call[d] /\ call[d] \in Calls
      BY <2>2 DEF TypeOK
    <3>2. Known(call[d].target) /\ CallIsSound(call[d])
      BY DEF ScreenIsSound
    <3> HIDE DEF Known, CallIsSound
    <3>3. ASSUME NEW one \in Calls, call[d] = one, call'[d] = one
          PROVE  Known(call[d].target)' /\ CallIsSound(call[d])'
      <4>1. Known(one.target)' /\ CallIsSound(one)'
        BY <3>2, <3>3
      <4> QED
        BY <3>3, <4>1 DEF Known, CallIsSound
    <3> QED
      BY <3>1, <3>3
  <2> QED
    BY <2>1, <2>2
<1> QED
  BY <1>1, <1>2

-----------------------------------------------------------------------------
(* Types, and that the screen holds what the daemon said.                  *)

Sound == TypeOK /\ ScreenIsSound

LEMMA SelectSound ==
  ASSUME Sound, NEW c \in Slot, NEW m \in Meeting, Select(m, c)
  PROVE  Sound'
<1> DEFINE new == Call("select", "fetch", m)
<1> USE ConstantsAssumption DEF Sound
<1>1. UNCHANGED daemon /\ call' = [call EXCEPT ![c] = new] /\ m \in Existing
  BY DEF Select, Send
<1>2. new \in Calls /\ new.at = "fetch" /\ new.kind = "select" /\ new.target = m
  BY DEF Call, Calls, Pages, Nothing
<1>3. m \in Existing' /\ Existing' = Existing
  BY <1>1 DEF daemon, Existing
<1>4. Known(new.target)' /\ CallIsSound(new)'
  BY <1>2, <1>3 DEF Known, CallIsSound
<1> HIDE DEF new
<1>5. /\ call' \in [Slot -> Calls]
      /\ \A d \in Slot : Known(call[d].target)' /\ CallIsSound(call[d])'
  BY <1>1, <1>2, <1>4, DaemonKept, OneCallChanges
<1>6. TypeOK'
  BY <1>5 DEF Select, Click, TypeOK, daemon
<1>7. Known(newest)' /\ Known(selected)' /\ Known(chosen)'
  BY <1>3 DEF Select, ScreenIsSound, Known, daemon
<1>8. (shown = Nothing \/ IsAnswer(shown))'
  BY <1>1, <1>3 DEF Select, ScreenIsSound, IsAnswer, daemon, Nothing
<1> QED
  BY <1>5, <1>6, <1>7, <1>8 DEF ScreenIsSound

(* A click that sends a call of the screen as it is. *)
LEMMA SendSound ==
  ASSUME Sound, NEW c \in Slot, NEW new \in Calls, Send(c, new),
         UNCHANGED <<daemon, selected, shown, choice>>, busy' \in BOOLEAN,
         used' \in [clicks : 0..MaxClicks, changes : 0..MaxChanges, faults : 0..MaxFaults],
         Known(new.target), CallIsSound(new)
  PROVE  Sound'
<1> USE ConstantsAssumption DEF Sound
<1>1. UNCHANGED daemon /\ call' = [call EXCEPT ![c] = new]
  BY DEF Send
<1>2. /\ call' \in [Slot -> Calls]
      /\ \A d \in Slot : Known(call[d].target)' /\ CallIsSound(call[d])'
  BY <1>1, DaemonKept, OneCallChanges
<1>3. TypeOK'
  BY <1>2 DEF TypeOK, daemon, choice
<1>4. Known(newest)' /\ Known(selected)' /\ Known(chosen)'
  BY DEF ScreenIsSound, Known, Existing, daemon, choice
<1>5. (shown = Nothing \/ IsAnswer(shown))'
  BY DEF ScreenIsSound, IsAnswer, Existing, daemon, Nothing
<1> QED
  BY <1>2, <1>3, <1>4, <1>5 DEF ScreenIsSound

LEMMA CallTypes ==
  /\ Nothing \in Pages /\ Idle \in Calls
  /\ Idle.at = "idle" /\ Idle.target = NoMeeting /\ CallIsSound(Idle)
  BY DEF Nothing, Pages, Idle, Call, Calls, CallIsSound

LEMMA CreateSound ==
  ASSUME Sound, NEW c \in Slot, Create(c)
  PROVE  Sound'
<1> DEFINE new == Call("create", "post", NoMeeting)
<1>1. new \in Calls /\ Known(new.target) /\ CallIsSound(new)
  BY CallTypes DEF Call, Calls, Known, CallIsSound
<1>2. used' \in [clicks : 0..MaxClicks, changes : 0..MaxChanges, faults : 0..MaxFaults]
  BY ConstantsAssumption DEF Create, Click, Sound, TypeOK
<1>3. Send(c, new) /\ busy' \in BOOLEAN /\ UNCHANGED <<daemon, selected, shown, choice>>
  BY DEF Create
<1> HIDE DEF new
<1> QED
  BY <1>1, <1>2, <1>3, SendSound

LEMMA ControlSound ==
  ASSUME Sound, NEW c \in Slot, Control(c)
  PROVE  Sound'
<1>1. selected \in Existing /\ selected \in Meeting
  BY DEF Control, Sound, ScreenIsSound, Known, Existing
<1>2. PICK new \in Calls : new = Call("control", "post", selected)
  BY <1>1, CallTypes DEF Call, Calls
<1>3. Known(new.target) /\ CallIsSound(new)
  BY <1>1, <1>2 DEF Call, Known, CallIsSound
<1>4. used' \in [clicks : 0..MaxClicks, changes : 0..MaxChanges, faults : 0..MaxFaults]
  BY ConstantsAssumption DEF Control, Click, Sound, TypeOK
<1>5. Send(c, new) /\ busy' \in BOOLEAN /\ UNCHANGED <<daemon, selected, shown, choice>>
  BY <1>2 DEF Control
<1> QED
  BY <1>2, <1>3, <1>4, <1>5, SendSound

LEMMA CardSound ==
  ASSUME Sound, NEW c \in Slot, Card(c)
  PROVE  Sound'
<1>1. shown.meeting \in Existing /\ shown.meeting \in Meeting
  BY DEF Card, Sound, ScreenIsSound, IsAnswer, Existing
<1>2. PICK new \in Calls : new = Call("card", "post", shown.meeting)
  BY <1>1, CallTypes DEF Call, Calls
<1>3. Known(new.target) /\ CallIsSound(new)
  BY <1>1, <1>2 DEF Call, Known, CallIsSound
<1>4. used' \in [clicks : 0..MaxClicks, changes : 0..MaxChanges, faults : 0..MaxFaults]
  BY ConstantsAssumption DEF Card, Click, Sound, TypeOK
<1>5. Send(c, new) /\ busy' \in BOOLEAN /\ UNCHANGED <<daemon, selected, shown, choice>>
  BY <1>2 DEF Card
<1> QED
  BY <1>2, <1>3, <1>4, <1>5, SendSound

LEMMA TickSound ==
  ASSUME Sound, NEW c \in Slot, Tick(c)
  PROVE  Sound'
<1>1. Known(selected) /\ selected \in Meeting \cup {NoMeeting}
  BY DEF Sound, ScreenIsSound, TypeOK
<1>2. PICK new \in Calls : new = Call("poll", "list", selected)
  BY <1>1, CallTypes DEF Call, Calls
<1>3. Known(new.target) /\ CallIsSound(new)
  BY <1>1, <1>2 DEF Call, CallIsSound
<1>4. /\ Send(c, new) /\ busy' \in BOOLEAN /\ UNCHANGED <<daemon, selected, shown, choice>>
      /\ used' \in [clicks : 0..MaxClicks, changes : 0..MaxChanges, faults : 0..MaxFaults]
  BY <1>2 DEF Tick, screen, Sound, TypeOK
<1> QED
  BY <1>2, <1>3, <1>4, SendSound

(* The page of a write, or of a read, is in the slot of its call. *)
LEMMA ServeSound ==
  ASSUME Sound, NEW c \in Slot, Serve(c)
  PROVE  Sound'
<1> USE DEF Sound
<1>1. call[c] \in Calls /\ CallIsSound(call[c]) /\ Known(call[c].target)
  BY DEF TypeOK, ScreenIsSound
<1>2. UNCHANGED <<screen, choice, used>>
  BY DEF Serve
<1>3. SUFFICES ASSUME NEW m \in Meeting, NEW new \in Calls,
                      call' = [call EXCEPT ![c] = new],
                      new.at = "page", new.kind = call[c].kind,
                      new.target = call[c].target, new.page.meeting = m,
                      \/ new.kind = "create" /\ new.target = NoMeeting
                      \/ /\ new.kind \in {"poll", "select", "control", "card"}
                         /\ new.target = m,
                      IsAnswer(new.page)',
                      UNCHANGED daemon \/ Write(m)
               PROVE  Sound'
  <2>1. CASE call[c].at = "fetch" /\ UNCHANGED daemon
    <3>1. call' = [call EXCEPT ![c].at = "page", ![c].page = Page(call[c].target)]
      BY <2>1 DEF Serve
    <3>2. PICK m \in Meeting : m = call[c].target /\ m \in Existing
      BY <1>1, <2>1 DEF CallIsSound, Existing
    <3>3. PICK page \in Pages : page = Page(m)
      BY <3>2 DEF Pages, Page, TypeOK
    <3>4. PICK new \in Calls : new = [call[c] EXCEPT !.at = "page", !.page = page]
      BY <1>1 DEF Calls
    <3>5. call' = [call EXCEPT ![c] = new]
      BY <3>1, <3>2, <3>3, <3>4 DEF TypeOK
    <3>6. /\ new.at = "page" /\ new.kind = call[c].kind
          /\ new.target = m /\ new.page = page
      BY <1>1, <3>2, <3>4 DEF Calls
    <3>7. page.meeting = m /\ IsAnswer(page)'
      BY <2>1, <3>2, <3>3 DEF Page, IsAnswer, Existing, TypeOK, daemon
    <3>8. new.kind \in {"poll", "select"}
      BY <1>1, <2>1, <3>6 DEF CallIsSound
    <3>9. IsAnswer(new.page)'
      BY <3>6, <3>7 DEF IsAnswer
    <3> QED
      BY <1>3, <2>1, <3>2, <3>5, <3>6, <3>7, <3>8, <3>9
  <2>2. CASE call[c].at = "post"
    <3>1. PICK m : /\ m \in IF call[c].kind = "create" THEN Meeting \ Existing
                            ELSE {call[c].target}
                   /\ Write(m)
                   /\ call' = [call EXCEPT ![c].at = "page", ![c].page = Page(m)']
      BY <2>2 DEF Serve
    <3>2. /\ m \in Meeting
          /\ \/ call[c].kind = "create" /\ call[c].target = NoMeeting
             \/ call[c].kind \in {"control", "card"} /\ call[c].target = m
      BY <1>1, <2>2, <3>1 DEF CallIsSound, Existing
    <3>3. IsAnswer(Page(m))' /\ version' \in [Meeting -> Nat]
      BY <3>1, <3>2, WriteKeeps
    <3>4. PICK page \in Pages : page = Page(m)'
      BY <3>2, <3>3 DEF Pages, Page
    <3>5. PICK new \in Calls : new = [call[c] EXCEPT !.at = "page", !.page = page]
      BY <1>1 DEF Calls
    <3>6. call' = [call EXCEPT ![c] = new]
      BY <3>1, <3>4, <3>5 DEF TypeOK
    <3>7. /\ new.at = "page" /\ new.kind = call[c].kind
          /\ new.target = call[c].target /\ new.page = page
      BY <1>1, <3>5 DEF Calls
    <3>8. page.meeting = m /\ IsAnswer(page)'
      BY <3>3, <3>4 DEF Page, IsAnswer
    <3>9. IsAnswer(new.page)'
      BY <3>7, <3>8 DEF IsAnswer
    <3> QED
      BY <1>3, <3>1, <3>2, <3>6, <3>7, <3>8, <3>9
  <2> QED
    BY <2>1, <2>2 DEF Serve
<1>4. /\ \A x : Known(x) => Known(x)'
      /\ \A page \in Pages : IsAnswer(page) => IsAnswer(page)'
      /\ \A one \in Calls : CallIsSound(one) => CallIsSound(one)'
      /\ version' \in [Meeting -> Nat]
      /\ newest' \in Meeting \cup {NoMeeting} /\ Known(newest)'
  <2>1. CASE UNCHANGED daemon
    <3>1. version' \in [Meeting -> Nat] /\ newest' \in Meeting \cup {NoMeeting}
      BY <2>1 DEF TypeOK, daemon
    <3>2. Known(newest)'
      BY <2>1 DEF ScreenIsSound, Known, Existing, daemon
    <3> QED
      BY <2>1, <3>1, <3>2, DaemonKept
  <2>2. CASE Write(m)
    <3>1. newest' = m /\ m \in Existing'
      BY <2>2, WriteKeeps
    <3>2. Known(newest)' /\ newest' \in Meeting
      BY <3>1 DEF Known
    <3> QED
      BY <2>2, <3>2, WriteKeeps, WriteKeepsCalls
  <2> QED
    BY <1>3, <2>1, <2>2
<1>5. Known(new.target)' /\ CallIsSound(new)'
  <2>1. Known(call[c].target) /\ new.target = call[c].target
    BY <1>1, <1>3
  <2>2. Known(new.target)'
    BY <1>4, <2>1
  <2>3. CallIsSound(new)'
    BY <1>3 DEF CallIsSound
  <2> QED
    BY <2>2, <2>3
<1>6. /\ call' \in [Slot -> Calls]
      /\ \A d \in Slot : Known(call[d].target)' /\ CallIsSound(call[d])'
  BY <1>3, <1>4, <1>5, OneCallChanges
<1>7. TypeOK'
  BY <1>2, <1>4, <1>6 DEF TypeOK, screen, choice
<1>8. Known(selected)' /\ Known(chosen)'
  <2>1. Known(selected) /\ Known(chosen) /\ selected' = selected /\ chosen' = chosen
    BY <1>2 DEF ScreenIsSound, screen, choice
  <2> QED
    BY <1>4, <2>1 DEF Known
<1>9. (shown = Nothing \/ IsAnswer(shown))'
  <2>1. /\ shown' = shown /\ shown \in Pages
        /\ shown = Nothing \/ IsAnswer(shown)
    BY <1>2 DEF ScreenIsSound, TypeOK, screen
  <2>2. \A page \in Pages : shown' = page /\ IsAnswer(page)' => IsAnswer(shown)'
    BY DEF IsAnswer
  <2> QED
    BY <1>4, <2>1, <2>2 DEF Nothing
<1> QED
  BY <1>4, <1>6, <1>7, <1>8, <1>9 DEF ScreenIsSound

LEMMA ChangeSound ==
  ASSUME Sound, NEW m \in Meeting, Change(m)
  PROVE  Sound'
<1> USE DEF Sound
<1>1. Write(m) /\ UNCHANGED <<screen, call, choice>>
  BY DEF Change
<1>2. /\ version' \in [Meeting -> Nat] /\ newest' = m /\ m \in Existing'
      /\ \A x : Known(x) => Known(x)'
      /\ \A page \in Pages : IsAnswer(page) => IsAnswer(page)'
      /\ \A one \in Calls : CallIsSound(one) => CallIsSound(one)'
  BY <1>1, WriteKeeps, WriteKeepsCalls
<1>3. used' \in [clicks : 0..MaxClicks, changes : 0..MaxChanges, faults : 0..MaxFaults]
  BY ConstantsAssumption DEF Change, TypeOK
<1>4. TypeOK'
  BY <1>1, <1>2, <1>3 DEF TypeOK, screen, choice
<1>5. Known(newest)' /\ Known(selected)' /\ Known(chosen)'
  <2>1. /\ Known(selected) /\ Known(chosen)
        /\ selected' = selected /\ chosen' = chosen
    BY <1>1 DEF ScreenIsSound, screen, choice
  <2> QED
    BY <1>2, <2>1 DEF Known
<1>6. (shown = Nothing \/ IsAnswer(shown))'
  <2>1. /\ shown' = shown /\ shown \in Pages
        /\ shown = Nothing \/ IsAnswer(shown)
    BY <1>1 DEF ScreenIsSound, TypeOK, screen
  <2>2. \A page \in Pages : shown' = page /\ IsAnswer(page)' => IsAnswer(shown)'
    BY DEF IsAnswer
  <2> QED
    BY <1>2, <2>1, <2>2 DEF Nothing
<1>7. ASSUME NEW d \in Slot
      PROVE  Known(call[d].target)' /\ CallIsSound(call[d])'
  <2>1. PICK one \in Calls : one = call[d]
    BY DEF TypeOK
  <2>2. Known(one.target) /\ CallIsSound(one) /\ call'[d] = one
    BY <1>1, <2>1 DEF ScreenIsSound
  <2>3. Known(one.target)' /\ CallIsSound(one)'
    BY <1>2, <2>2
  <2> QED
    BY <2>2, <2>3 DEF Known, CallIsSound
<1> QED
  BY <1>4, <1>5, <1>6, <1>7 DEF ScreenIsSound

(* An answer that leaves the daemon alone. *)
LEMMA AnswerSound ==
  ASSUME Sound, UNCHANGED daemon, NEW c \in Slot, NEW new \in Calls,
         call' = [call EXCEPT ![c] = new], Known(new.target), CallIsSound(new),
         selected' \in Meeting \cup {NoMeeting}, Known(selected'),
         chosen' \in Meeting \cup {NoMeeting}, Known(chosen'),
         shown' \in Pages, shown' = Nothing \/ IsAnswer(shown'),
         busy' \in BOOLEAN, settled' \in BOOLEAN,
         used' \in [clicks : 0..MaxClicks, changes : 0..MaxChanges, faults : 0..MaxFaults]
  PROVE  Sound'
<1> USE DEF Sound
<1>1. /\ call' \in [Slot -> Calls]
      /\ \A d \in Slot : Known(call[d].target)' /\ CallIsSound(call[d])'
  BY DaemonKept, OneCallChanges
<1>2. TypeOK'
  BY <1>1 DEF TypeOK, daemon
<1>3. Known(newest)' /\ Known(selected)' /\ Known(chosen)'
  BY DEF ScreenIsSound, Known, Existing, daemon
<1>4. (shown = Nothing \/ IsAnswer(shown))'
  BY DEF IsAnswer, Existing, daemon, Nothing
<1> QED
  BY <1>1, <1>2, <1>3, <1>4 DEF ScreenIsSound

LEMMA PollListedSound ==
  ASSUME Sound, NEW c \in Slot, PollListed(c)
  PROVE  Sound'
<1> USE DEF Sound
<1> DEFINE m == IF call[c].target # NoMeeting THEN call[c].target ELSE newest
<1>1. /\ m \in Meeting \cup {NoMeeting} /\ Known(m)
      /\ call[c] \in Calls
  BY DEF TypeOK, ScreenIsSound, Calls
<1>2. /\ selected' = m /\ call[c].kind = "poll"
      /\ UNCHANGED <<daemon, busy, choice, used>>
  BY DEF PollListed, At
<1>3. /\ chosen' \in Meeting \cup {NoMeeting} /\ Known(chosen')
      /\ busy' \in BOOLEAN /\ settled' \in BOOLEAN
      /\ used' \in [clicks : 0..MaxClicks, changes : 0..MaxChanges, faults : 0..MaxFaults]
  BY <1>2 DEF TypeOK, ScreenIsSound, choice
<1>4. CASE m = NoMeeting
  <2>1. call' = [call EXCEPT ![c] = Idle] /\ shown' = Nothing
    BY <1>4 DEF PollListed, Done
  <2>2. Known(Idle.target)
    BY CallTypes DEF Known
  <2> HIDE DEF m
  <2> QED
    BY <1>1, <1>2, <1>3, <2>1, <2>2, CallTypes, AnswerSound
<1>5. CASE m # NoMeeting
  <2>1. /\ call' = [call EXCEPT ![c].at = "fetch", ![c].target = m]
        /\ UNCHANGED shown
    BY <1>5 DEF PollListed
  <2> HIDE DEF m
  <2>2. PICK new \in Calls : new = [call[c] EXCEPT !.at = "fetch", !.target = m]
    BY <1>1 DEF Calls
  <2>3. /\ call' = [call EXCEPT ![c] = new]
        /\ new.at = "fetch" /\ new.kind = "poll" /\ new.target = m
    BY <1>1, <1>2, <2>1, <2>2 DEF TypeOK, Calls
  <2>4. Known(new.target) /\ CallIsSound(new)
    BY <1>1, <1>5, <2>3 DEF Known, CallIsSound
  <2>5. shown' \in Pages /\ (shown' = Nothing \/ IsAnswer(shown'))
    BY <2>1 DEF TypeOK, ScreenIsSound
  <2> QED
    BY <1>1, <1>2, <1>3, <2>2, <2>3, <2>4, <2>5, AnswerSound
<1> QED
  BY <1>4, <1>5

(* The call ends, with its page on screen or without. *)
LEMMA EndSound ==
  ASSUME Sound, NEW c \in Slot, Done(c),
         UNCHANGED <<daemon, selected, choice>>,
         shown' = shown \/ (call[c].at \in {"page", "relist"} /\ shown' = call[c].page),
         busy' \in BOOLEAN,
         used' \in [clicks : 0..MaxClicks, changes : 0..MaxChanges, faults : 0..MaxFaults]
  PROVE  Sound'
<1> USE DEF Sound
<1>1. call[c] \in Calls /\ CallIsSound(call[c])
  BY DEF TypeOK, ScreenIsSound
<1>2. shown' \in Pages /\ (shown' = Nothing \/ IsAnswer(shown'))
  BY <1>1 DEF TypeOK, ScreenIsSound, Calls, CallIsSound
<1>3. /\ selected' \in Meeting \cup {NoMeeting} /\ Known(selected')
      /\ chosen' \in Meeting \cup {NoMeeting} /\ Known(chosen')
      /\ settled' \in BOOLEAN
  BY DEF TypeOK, ScreenIsSound, choice
<1>4. call' = [call EXCEPT ![c] = Idle] /\ Known(Idle.target)
  BY CallTypes DEF Done, Known
<1> QED
  BY <1>2, <1>3, <1>4, CallTypes, AnswerSound

LEMMA PollAnsweredSound ==
  ASSUME Sound, NEW c \in Slot, PollAnswered(c)
  PROVE  Sound'
<1>1. busy' \in BOOLEAN /\ used' = used /\ UNCHANGED <<daemon, selected, choice>>
  BY DEF PollAnswered, Sound, TypeOK
<1>2. Done(c) /\ call[c].at = "page" /\ shown' = call[c].page
  BY DEF PollAnswered, At
<1> QED
  BY <1>1, <1>2, EndSound DEF Sound, TypeOK

LEMMA ActedSound ==
  ASSUME Sound, NEW c \in Slot, Acted(c)
  PROVE  Sound'
<1>1. busy' \in BOOLEAN /\ used' = used /\ UNCHANGED <<daemon, selected, choice>>
  BY DEF Acted
<1>2. Done(c) /\ call[c].at \in {"page", "relist"} /\ shown' = call[c].page
  BY DEF Acted, At
<1> QED
  BY <1>1, <1>2, EndSound DEF Sound, TypeOK

LEMMA FailedSound ==
  ASSUME Sound, NEW c \in Slot, Failed(c)
  PROVE  Sound'
<1>1. busy' \in BOOLEAN /\ shown' = shown /\ UNCHANGED <<daemon, selected, choice>>
  BY DEF Failed, Sound, TypeOK
<1>2. used' \in [clicks : 0..MaxClicks, changes : 0..MaxChanges, faults : 0..MaxFaults]
  BY ConstantsAssumption DEF Failed, Sound, TypeOK
<1> QED
  BY <1>1, <1>2, EndSound DEF Failed

LEMMA RelistSound ==
  ASSUME Sound, NEW c \in Slot, SelectAnswered(c) \/ CreateAnswered(c)
  PROVE  Sound'
<1> USE DEF Sound
<1>1. /\ call[c] \in Calls /\ CallIsSound(call[c]) /\ Known(call[c].target)
      /\ call[c].at = "page" /\ call[c].kind \in {"select", "create"}
      /\ IsAnswer(call[c].page)
  BY DEF TypeOK, ScreenIsSound, CallIsSound, SelectAnswered, CreateAnswered, At
<1>2. PICK new \in Calls : new = [call[c] EXCEPT !.at = "relist"]
  BY <1>1 DEF Calls
<1>3. call' = [call EXCEPT ![c] = new]
  BY <1>2 DEF SelectAnswered, CreateAnswered, TypeOK
<1>4. /\ new.at = "relist" /\ new.kind = call[c].kind
      /\ new.target = call[c].target /\ new.page = call[c].page
  BY <1>1, <1>2 DEF Calls
<1>5. Known(new.target) /\ CallIsSound(new)
  BY <1>1, <1>4 DEF CallIsSound
<1>6. /\ UNCHANGED <<daemon, shown, busy, used>>
      /\ shown' \in Pages /\ (shown' = Nothing \/ IsAnswer(shown'))
      /\ busy' \in BOOLEAN
      /\ used' \in [clicks : 0..MaxClicks, changes : 0..MaxChanges, faults : 0..MaxFaults]
  BY DEF SelectAnswered, CreateAnswered, screen, TypeOK, ScreenIsSound
<1>7. call[c].page.meeting \in Meeting /\ Known(call[c].page.meeting)
  BY <1>1 DEF IsAnswer, Known, Existing
<1>8. /\ selected' \in Meeting \cup {NoMeeting} /\ Known(selected')
      /\ chosen' \in Meeting \cup {NoMeeting} /\ Known(chosen')
      /\ settled' \in BOOLEAN
  <2>1. CASE SelectAnswered(c)
    BY <2>1 DEF SelectAnswered, screen, choice, TypeOK, ScreenIsSound
  <2>2. CASE CreateAnswered(c)
    BY <1>7, <2>2 DEF CreateAnswered
  <2> QED
    BY <2>1, <2>2
<1> QED
  BY <1>3, <1>5, <1>6, <1>8, AnswerSound

LEMMA StutterSound ==
  ASSUME Sound, UNCHANGED vars
  PROVE  Sound'
  BY DEF Sound, TypeOK, ScreenIsSound, CallIsSound, Known, IsAnswer, Existing,
         vars, daemon, screen, choice

LEMMA NextSound ==
  ASSUME Sound, [Next]_vars
  PROVE  Sound'
  BY SelectSound, CreateSound, ControlSound, CardSound, TickSound, ServeSound,
     ChangeSound, PollListedSound, PollAnsweredSound, ActedSound, FailedSound,
     RelistSound, StutterSound DEF Next, Answered

-----------------------------------------------------------------------------
(* What was chosen stays selected.                                         *)

(* A step after which the calls that move the selection are still those,   *)
(* or aim at it.                                                           *)
LEMMA SelectionKept ==
  ASSUME SelectionInv, UNCHANGED <<selected, choice>>,
         \A d \in Slot : At(d, {"poll"}, "list")' =>
           \/ At(d, {"poll"}, "list") /\ call'[d].target = call[d].target
           \/ call'[d].target = selected
  PROVE  SelectionInv'
  BY DEF SelectionInv, choice, At

LEMMA NextSelection ==
  ASSUME Sound, SelectionInv, [Next]_vars
  PROVE  SelectionInv'
<1> USE DEF Sound
<1>1. /\ call \in [Slot -> Calls]
      /\ Idle.at = "idle"
  BY CallTypes DEF TypeOK
<1>2. ASSUME NEW c \in Slot, NEW m \in Meeting, Select(m, c)
      PROVE  SelectionInv'
  <2>1. /\ selected' = m /\ chosen' = m /\ m # NoMeeting
        /\ settled' = \A d \in Slot : ~MovesFrom(m, d)
    BY <1>2, ConstantsAssumption DEF Select
  <2>2. call' = [call EXCEPT ![c] = Call("select", "fetch", m)]
    BY <1>2 DEF Select, Send
  <2>3. ASSUME NEW d \in Slot, At(d, {"poll"}, "list")', settled'
        PROVE  call'[d].target = m
    <3>1. call'[d] = call[d]
      BY <1>1, <2>2, <2>3 DEF At, Call
    <3>2. ~MovesFrom(m, d)
      BY <2>1, <2>3
    <3> QED
      BY <2>3, <3>1, <3>2 DEF MovesFrom, At
  <2> QED
    BY <2>1, <2>3 DEF SelectionInv
<1>3. ASSUME NEW c \in Slot, Create(c) \/ Control(c) \/ Card(c)
      PROVE  SelectionInv'
  <2>1. UNCHANGED <<selected, choice>>
    BY <1>3 DEF Create, Control, Card
  <2>2. PICK new : call' = [call EXCEPT ![c] = new] /\ new.at = "post"
    <3>1. PICK new : new \in {Call("create", "post", NoMeeting),
                              Call("control", "post", selected),
                              Call("card", "post", shown.meeting)}
                     /\ call' = [call EXCEPT ![c] = new]
      BY <1>3 DEF Create, Control, Card, Send
    <3>2. new.at = "post"
      BY <3>1 DEF Call
    <3> QED
      BY <3>1, <3>2
  <2>3. \A d \in Slot : At(d, {"poll"}, "list")' => call'[d] = call[d]
    BY <1>1, <2>2 DEF At, Call
  <2> QED
    BY <2>1, <2>3, SelectionKept DEF At
<1>4. ASSUME NEW c \in Slot, Tick(c)
      PROVE  SelectionInv'
  <2>1. /\ UNCHANGED <<selected, choice>>
        /\ call' = [call EXCEPT ![c] = Call("poll", "list", selected)]
    BY <1>4 DEF Tick, Send, screen
  <2>2. ASSUME NEW d \in Slot
        PROVE  call'[d] = call[d] \/ call'[d].target = selected
    BY <1>1, <2>1 DEF Call
  <2> QED
    BY <2>1, <2>2, SelectionKept DEF At
<1>5. ASSUME NEW c \in Slot, Serve(c)
      PROVE  SelectionInv'
  <2>1. UNCHANGED <<selected, choice>>
    BY <1>5 DEF Serve, screen
  <2>2. \A d \in Slot : d # c => call'[d] = call[d]
    BY <1>1, <1>5 DEF Serve
  <2>3. call'[c].at = "page"
    BY <1>1, <1>5 DEF Serve, Calls
  <2> QED
    BY <2>1, <2>2, <2>3, SelectionKept DEF At
<1>6. ASSUME NEW c \in Slot, PollListed(c)
      PROVE  SelectionInv'
  <2> DEFINE m == IF call[c].target # NoMeeting THEN call[c].target ELSE newest
  <2>1. /\ selected' = m /\ UNCHANGED choice /\ At(c, {"poll"}, "list")
    BY <1>6 DEF PollListed
  <2>2. settled => m = chosen /\ m = selected
    BY <2>1 DEF SelectionInv
  <2>3. \A d \in Slot : At(d, {"poll"}, "list")' => call'[d] = call[d]
    <3>1. \/ call' = [call EXCEPT ![c] = Idle]
          \/ call' = [call EXCEPT ![c].at = "fetch", ![c].target = m]
      BY <1>6 DEF PollListed, Done
    <3>2. \A d \in Slot : d # c => call'[d] = call[d]
      BY <1>1, <3>1
    <3>3. call'[c].at \in {"idle", "fetch"}
      BY <1>1, <3>1 DEF Calls
    <3> QED
      BY <3>2, <3>3 DEF At
  <2> HIDE DEF m
  <2> QED
    BY <2>1, <2>2, <2>3 DEF SelectionInv, choice, At
<1>7. ASSUME NEW c \in Slot,
             PollAnswered(c) \/ SelectAnswered(c) \/ Acted(c) \/ Failed(c)
      PROVE  SelectionInv'
  <2>1. UNCHANGED <<selected, choice>>
    BY <1>7 DEF PollAnswered, SelectAnswered, Acted, Failed, screen
  <2>2. \A d \in Slot : d # c => call'[d] = call[d]
    BY <1>1, <1>7 DEF PollAnswered, SelectAnswered, Acted, Failed, Done
  <2>3. call'[c].at \in {"idle", "relist"}
    BY <1>1, <1>7 DEF PollAnswered, SelectAnswered, Acted, Failed, Done, Calls
  <2> QED
    BY <2>1, <2>2, <2>3, SelectionKept DEF At
<1>8. ASSUME NEW c \in Slot, CreateAnswered(c)
      PROVE  SelectionInv'
  <2>1. call[c].page.meeting \in Meeting /\ At(c, {"create"}, "page")
    BY <1>8 DEF CreateAnswered, ScreenIsSound, CallIsSound, IsAnswer, Existing, At
  <2>2. /\ selected' = call[c].page.meeting /\ chosen' = selected'
        /\ settled' = \A d \in Slot \ {c} : ~MovesFrom(selected', d)
    BY <1>8 DEF CreateAnswered
  <2>3. \A d \in Slot : d # c => call'[d] = call[d]
    BY <1>1, <1>8 DEF CreateAnswered
  <2>4. call'[c].at = "relist"
    BY <1>1, <1>8 DEF CreateAnswered, Calls
  <2>5. \A d \in Slot : At(d, {"poll"}, "list")' /\ settled' => call'[d].target = chosen'
    BY <2>2, <2>3, <2>4 DEF At, MovesFrom
  <2> QED
    BY <2>1, <2>2, <2>5, ConstantsAssumption DEF SelectionInv
<1>9. ASSUME UNCHANGED <<screen, call, choice>>
      PROVE  SelectionInv'
  BY <1>9, SelectionKept DEF screen, At
<1> QED
  BY <1>2, <1>3, <1>4, <1>5, <1>6, <1>7, <1>8, <1>9 DEF Next, Answered, Change, vars

-----------------------------------------------------------------------------
(* The theorems.                                                           *)

(* The types, the soundness of the screen and the selection are inductive  *)
(* together.                                                               *)
THEOREM Invariance == Spec => []IInv
<1>1. Init => IInv
  BY InitIInv
<1>2. IInv /\ [Next]_vars => IInv'
  BY NextSound, NextSelection DEF IInv, Sound
<1> QED
  BY <1>1, <1>2, PTL DEF Spec

(* Every variable keeps its type. *)
THEOREM TypeCorrect == Spec => []TypeOK
<1>1. IInv => TypeOK
  BY DEF IInv
<1> QED
  BY <1>1, Invariance, PTL

(* ui/src/main.tsx: the screen and the calls under way hold only what the  *)
(* daemon said: a page is of the meeting that its call was sent for, never *)
(* newer than the meeting, and a control never reaches a meeting that is   *)
(* not there.                                                              *)
THEOREM ScreenIsSoundAlways == Spec => []ScreenIsSound
<1>1. IInv => ScreenIsSound
  BY DEF IInv
<1> QED
  BY <1>1, Invariance, PTL

(* refresh, selectMeeting, createMeeting: a meeting selected while no call *)
(* under way could move the selection stays selected, whatever answers     *)
(* later and in which order.                                               *)
THEOREM SelectionIsKeptAlways == Spec => []SelectionIsKept
<1>1. IInv => SelectionIsKept
  BY DEF IInv, SelectionInv, SelectionIsKept
<1> QED
  BY <1>1, Invariance, PTL

=============================================================================
