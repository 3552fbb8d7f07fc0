------------------------------ MODULE WebRequests ------------------------------
(***************************************************************************)
(* The web server's side of a request (webui.Handler): the checks in front *)
(* of every route, the body that is read or must be swallowed before the   *)
(* answer, the passcode that lets in a device of the network while there   *)
(* are no accounts, and the files requests leave: uploads, clips, and what *)
(* retention.py sweeps.  Requests run in threads of their own.  Accounts,  *)
(* and what they may use, are in SignIn.                                   *)
(***************************************************************************)
EXTENDS Naturals, Sequences, FiniteSets

CONSTANTS
  Calls,       \* requests, each used once: the server closes a connection after its answer
  Devices,     \* where they come from; lanFailures are counted for each
  Local,       \* this machine
  SmallBody,   \* what is read before anyone is known (4096), in parts
  LargestBody, \* MAX_REQUEST_BYTES, in parts
  MostGuesses, \* ten
  GuessersTracked, \* _LAN_MAX_TRACKED
  KeepNewest,  \* keep_newest of a folder
  MaxAge,      \* max_age_days, max_age_hours
  MaxClock     \* bound: age

ASSUME RequestsAssumption ==
  /\ Local \in Devices /\ "before" \notin Calls
  /\ SmallBody \in Nat \ {0} /\ LargestBody \in Nat /\ SmallBody <= LargestBody
  /\ MostGuesses \in Nat \ {0} /\ GuessersTracked \in Nat \ {0}
  /\ KeepNewest \in Nat /\ MaxAge \in Nat /\ MaxClock \in Nat

VARIABLES
  request,  \* the requests
  lanFailures, \* _LAN_FAILURES, a function on those tracked
  unlocked, \* devices holding one of _LAN_SESSIONS
  files,    \* what requests leave on disk: its kind and when it was made
  clips,    \* temporary clips, by the request that is transcribing one
  clock,    \* bound: age of the newest
  stored,   \* ghost: every file requests ever left
  wrong,    \* ghost: wrong passcodes each device sent since it last sent the right one
  most      \* ghost: the most requests that were let in to guess at the same time

requestvars == <<request, lanFailures, unlocked, files, clips, clock, stored, wrong, most>>

Routes == {"page", "file", "pair", "panel", "upload", "recording", "clip", "unknown"}
Posts == Routes \ {"page", "file"}
Steps == {"new", "known", "admitted", "guessing", "guessed", "opened", "handled", "closed"}

\* Generated: a document, a picture, a resume.
File == [kind : {"generated", "upload", "recording"}, of : Calls \cup {"before"}, made : 0..MaxClock]
Leftover == [kind |-> "generated", of |-> "before", made |-> 0]
Call == [step : Steps, from : Devices, kind : Routes, trusted : BOOLEAN, token : BOOLEAN, size : 0..(LargestBody + 1),
         came : BOOLEAN, read : 0..LargestBody, right : BOOLEAN, status : Seq(Nat), served : BOOLEAN, target : SUBSET File]
Unused == [step |-> "new", from |-> Local, kind |-> "unknown", trusted |-> FALSE, token |-> FALSE, size |-> 0,
           came |-> TRUE, read |-> 0, right |-> FALSE, status |-> <<>>, served |-> FALSE, target |-> {}]

RequestsTypeOK ==
  /\ request \in [Calls -> Call]
  /\ DOMAIN lanFailures \subseteq Devices /\ \A d \in DOMAIN lanFailures : lanFailures[d] \in Nat
  /\ unlocked \subseteq Devices /\ clips \subseteq Calls
  /\ files \subseteq stored /\ stored \subseteq File
  /\ clock \in 0..MaxClock /\ wrong \in [Devices -> Nat] /\ most \in Nat

RequestsInit ==
  /\ request = [c \in Calls |-> Unused] /\ lanFailures = <<>> /\ unlocked = {}
  /\ files = {Leftover} /\ stored = {Leftover} /\ clips = {}
  /\ clock = 0 /\ wrong = [d \in Devices |-> 0] /\ most = 0
-----------------------------------------------------------------------------
Least(a, b) == IF a < b THEN a ELSE b

\* Mutant of Swallowed: all of it, however much.
SwallowedWhole(call) == IF call.kind \notin Posts THEN call.read ELSE call.size

\* _drain_request_body: what nobody has read of the body, up to the most that is taken.  A
\* page or a file is asked for without one.
Swallowed(call) == IF call.kind \notin Posts THEN call.read ELSE Least(call.size, LargestBody)

\* The answer is sent and the connection closed: of the request only its body is left.
Closed(call, status, read) ==
  [Unused EXCEPT !.step = "closed", !.status = Append(call.status, status), !.size = call.size, !.read = read]

\* _send: the body first, then the status.
Respond(c, status) == [request EXCEPT ![c] = Closed(@, status, Swallowed(@))]

LeaveFiles == UNCHANGED <<unlocked, files, clips, clock, stored>>
LeaveGuesses == UNCHANGED <<lanFailures, wrong, most>>

\* A request of any sort from any device; what the checks in front of it do not get to is
\* left out.
Arrive(c, d, kind, trusted, token, size, came, right) ==
  /\ request[c].step = "new"
  /\ kind \notin Posts => size = 0 /\ ~token
  /\ size \in {0, LargestBody + 1} => came
  /\ ~trusted => ~token /\ ~right /\ kind \in {"page", "panel"}
  /\ kind \in Posts /\ ~token => kind \in {"pair", "panel"}
  /\ kind = "pair" => ~token
  /\ right => kind = "pair"
  /\ request' = [request EXCEPT ![c] =
       [Unused EXCEPT !.step = "known", !.from = d, !.kind = kind, !.trusted = trusted, !.token = token,
                      !.size = size, !.came = came, !.right = right]]
  /\ LeaveGuesses /\ LeaveFiles

\* _authorized without accounts: this machine always, another device with its session.
Authorized(call) == call.from = Local \/ call.from \in unlocked

\* _trusted_request, then _authorized; pairing comes before the second and needs no token.
TurnedAway(c) ==
  LET call == request[c] IN
  /\ call.step = "known"
  /\ \/ ~call.trusted /\ request' = Respond(c, 403)
     \/ call.trusted /\ call.kind \in Posts \ {"pair"} /\ ~call.token /\ request' = Respond(c, 403)
     \/ /\ call.trusted /\ call.kind # "pair" /\ (call.kind \in Posts => call.token) /\ ~Authorized(call)
        /\ request' = Respond(c, 401)
  /\ LeaveGuesses /\ LeaveFiles

LetIn(c) ==
  LET call == request[c] IN
  /\ call.step = "known" /\ call.trusted /\ call.kind # "pair" /\ (call.kind \in Posts => call.token)
  /\ Authorized(call)
  /\ request' = [request EXCEPT ![c].step = "admitted", ![c].served = TRUE]
  /\ LeaveGuesses /\ LeaveFiles
-----------------------------------------------------------------------------
Crowded(d) == Cardinality(DOMAIN lanFailures) >= GuessersTracked /\ d \notin DOMAIN lanFailures
Guesses(d) == IF d \in DOMAIN lanFailures THEN lanFailures[d] ELSE 0

\* Requests that were let in to guess and are not counted yet.
Guessing == {c \in Calls : request[c].step = "guessing"}

\* _pair: looks, reads the passcode, compares, and counts in a step of its own.
PairRefused(c) ==
  LET call == request[c] IN
  /\ call.step = "known" /\ call.kind = "pair" /\ call.trusted
  /\ Crowded(call.from) \/ Guesses(call.from) >= MostGuesses
  /\ request' = Respond(c, 429) /\ LeaveGuesses /\ LeaveFiles

PairRead(c) ==
  LET call == request[c] IN
  /\ call.step = "known" /\ call.kind = "pair" /\ call.trusted
  /\ ~Crowded(call.from) /\ Guesses(call.from) < MostGuesses
  /\ request' = [request EXCEPT ![c].step = "guessing", ![c].read = Least(call.size, SmallBody)]
  /\ most' = IF Cardinality(Guessing) < most THEN most ELSE Cardinality(Guessing) + 1
  /\ UNCHANGED <<lanFailures, wrong>> /\ LeaveFiles

\* A body that is not all of it is no passcode.
PairWrong(c) ==
  LET call == request[c] IN
  /\ call.step = "guessing" /\ ~(call.right /\ call.came /\ call.size = call.read /\ call.size > 0)
  /\ lanFailures' = [d \in DOMAIN lanFailures \cup {call.from} |->
                        IF d = call.from THEN Guesses(d) + 1 ELSE lanFailures[d]]
  /\ wrong' = [wrong EXCEPT ![call.from] = @ + 1]
  /\ request' = [request EXCEPT ![c].step = "guessed"] /\ UNCHANGED most /\ LeaveFiles

\* Making guessing cost real time: the answer comes a second later.
PairTold(c) ==
  /\ request[c].step = "guessed"
  /\ request' = Respond(c, 403) /\ LeaveGuesses /\ LeaveFiles

\* The only answer that is not sent by _send; all of the body was read for it.
PairRight(c) ==
  LET call == request[c] IN
  /\ call.step = "guessing" /\ call.right /\ call.came /\ call.size = call.read /\ call.size > 0
  /\ lanFailures' = [d \in DOMAIN lanFailures \ {call.from} |-> lanFailures[d]]
  /\ wrong' = [wrong EXCEPT ![call.from] = 0]
  /\ unlocked' = unlocked \cup {call.from}
  /\ request' = [request EXCEPT ![c] = Closed(@, 200, call.read)]
  /\ UNCHANGED <<most, files, clips, clock, stored>>
-----------------------------------------------------------------------------
\* _read_json, in a route that has a body to read: too large, late, no JSON, or read.
Readable(call) == call.size <= LargestBody /\ call.came

BadBody(c) ==
  LET call == request[c] IN
  /\ call.step = "admitted" /\ call.kind \in Posts \ {"unknown"}
  /\ request' = IF call.size > LargestBody THEN Respond(c, 400)
                ELSE [request EXCEPT ![c] = Closed(@, IF call.came THEN 400 ELSE 500, call.size)]
  /\ LeaveGuesses /\ LeaveFiles

Answered(c, status) ==
  /\ request[c].step = "admitted" /\ Readable(request[c])
  /\ request' = [request EXCEPT ![c] = Closed(@, status, @.size)] /\ LeaveGuesses

\* It is the newest of its kind.
Stores(c, kind) ==
  LET f == [kind |-> kind, of |-> c, made |-> clock] IN
  files' = files \cup {f} /\ stored' = stored \cup {f} /\ UNCHANGED <<unlocked, clips, clock>>

\* A panel's action, done or refused, which may write a resume.
PanelActs(c) ==
  /\ request[c].kind = "panel" /\ Answered(c, 200)
  /\ LeaveFiles \/ Stores(c, "generated")

\* Those that only look something up, or move the window.
PanelLooksUp(c) == request[c].kind = "panel" /\ Answered(c, 200) /\ LeaveFiles

\* Speech is made, or there is no engine for it.
PanelSpeaks(c) == request[c].kind = "panel" /\ (\E status \in {200, 503} : Answered(c, status)) /\ LeaveFiles

\* An upload in a folder of its own; the same name never meets another's.
Upload(c) ==
  /\ request[c].kind = "upload"
  /\ \/ Answered(c, 200) /\ Stores(c, "upload")
     \/ Answered(c, 413) /\ LeaveFiles

\* A recording is kept if it is one.
SaveRecording(c) ==
  /\ request[c].kind = "recording"
  /\ \/ Answered(c, 200) /\ Stores(c, "recording")
     \/ (\E status \in {400, 413} : Answered(c, status)) /\ LeaveFiles

\* _handle_transcribe: the clip is written, heard, and taken away whatever came of it.
ClipWritten(c) ==
  LET call == request[c] IN
  /\ call.step = "admitted" /\ call.kind = "clip" /\ Readable(call)
  /\ clips' = clips \cup {c}
  /\ request' = [request EXCEPT ![c].step = "handled", ![c].read = call.size]
  /\ LeaveGuesses /\ UNCHANGED <<unlocked, files, clock, stored>>

ClipHeard(c) ==
  /\ request[c].step = "handled"
  /\ clips' = clips \ {c} /\ request' = Respond(c, 200)
  /\ LeaveGuesses /\ UNCHANGED <<unlocked, files, clock, stored>>

\* The page, a panel's state, or nothing of that name.
ServeGet(c, status) ==
  /\ request[c].step = "admitted" /\ request[c].kind \in {"page", "unknown"}
  /\ request' = Respond(c, IF request[c].kind = "unknown" THEN 404 ELSE status)
  /\ LeaveGuesses /\ LeaveFiles

\* _safe_artifact: a file of ours by its bare name, if it is there.
OpenFile(c) ==
  /\ request[c].step = "admitted" /\ request[c].kind = "file"
  /\ \/ request' = Respond(c, 404)
     \/ \E f \in files : f.kind # "upload" /\ request' = [request EXCEPT ![c].step = "opened", ![c].target = {f}]
  /\ LeaveGuesses /\ LeaveFiles

\* It is read then; one that was swept in between ends the request with no answer.
SendFile(c) ==
  /\ request[c].step = "opened"
  /\ request' = IF request[c].target \subseteq files THEN Respond(c, 200)
                ELSE [request EXCEPT ![c] = [Unused EXCEPT !.step = "closed", !.target = request[c].target]]
  /\ LeaveGuesses /\ LeaveFiles
-----------------------------------------------------------------------------
Tick ==
  /\ clock < MaxClock /\ clock' = clock + 1
  /\ LeaveGuesses /\ UNCHANGED <<request, unlocked, files, clips, stored>>

Generated == {f \in files : f.kind = "generated"}

\* The first of them by time, in any order where they are of one time.
Newest(kept) ==
  /\ kept \subseteq Generated /\ Cardinality(kept) = Least(KeepNewest, Cardinality(Generated))
  /\ \A f \in kept, g \in Generated \ kept : f.made >= g.made

Old(f) == clock - f.made > MaxAge

\* sweep: neither among the newest nor young; sweep_uploads: not young.  Recordings stay.
Swept(kept) == {f \in Generated \ kept : Old(f)} \cup {f \in files : f.kind = "upload" /\ Old(f)}

Housekeeping ==
  /\ \E kept \in SUBSET files : Newest(kept) /\ files' = files \ Swept(kept)
  /\ LeaveGuesses /\ UNCHANGED <<request, unlocked, clips, clock, stored>>

RequestsNext ==
  \/ \E c \in Calls, d \in Devices, kind \in Routes, size \in 0..(LargestBody + 1),
        trusted, token, came, right \in BOOLEAN :
       Arrive(c, d, kind, trusted, token, size, came, right)
  \/ \E c \in Calls :
       \/ TurnedAway(c) \/ LetIn(c)
       \/ PairRefused(c) \/ PairRead(c) \/ PairWrong(c) \/ PairTold(c) \/ PairRight(c)
       \/ BadBody(c) \/ PanelActs(c) \/ PanelLooksUp(c) \/ PanelSpeaks(c)
       \/ Upload(c) \/ SaveRecording(c) \/ ClipWritten(c) \/ ClipHeard(c)
       \/ OpenFile(c) \/ SendFile(c) \/ \E status \in {200, 304, 404} : ServeGet(c, status)
  \/ Tick \/ Housekeeping

RequestsSpec == RequestsInit /\ [][RequestsNext]_requestvars
-----------------------------------------------------------------------------
\* The status arrives: closing a socket that still holds a body nobody read resets it, and
\* "Wrong passcode." is then the same to a phone as a laptop that is off.  Only more than is
\* ever taken is left, and only a file that was swept as it was sent has no answer.
AnswersArrive ==
  \A c \in Calls : request[c].step = "closed" =>
    /\ Len(request[c].status) = 1 \/ (request[c].target # {} /\ request[c].target \cap files = {})
    /\ request[c].read = request[c].size \/ request[c].size > LargestBody

\* Guesses are counted, by however many requests at once: a device gets no more of them, and no
\* more devices are tracked, than the limits and the requests that looked before the last of
\* them was counted.
GuessesAreCounted ==
  /\ \A d \in Devices : Guesses(d) = wrong[d]
  /\ Cardinality(DOMAIN lanFailures) < GuessersTracked + most
  /\ \A d \in Devices : wrong[d] < MostGuesses + most

\* Nobody on the network is served before it has paired.
NobodyIsServedUnpaired ==
  \A c \in Calls : request[c].served => request[c].from \in unlocked \cup {Local} /\ request[c].trusted

\* No clip outlives its request.
ClipsAreTakenAway == \A c \in clips : request[c].step = "handled"

\* What requests leave is swept only when it is old, and what was made for the user only
\* when it is not among the newest either, of all there ever was: however often the sweep
\* runs, and after whatever it took before.  What the user recorded is not swept.
TheNewestAreKept ==
  \A f \in stored \ files :
    /\ clock - f.made > MaxAge /\ f.kind # "recording"
    /\ f.kind = "generated" =>
         Cardinality({g \in stored \ {f} : g.kind = "generated" /\ g.made >= f.made}) >= KeepNewest

RequestsAreAnswered ==
  AnswersArrive /\ GuessesAreCounted /\ NobodyIsServedUnpaired /\ ClipsAreTakenAway /\ TheNewestAreKept
=============================================================================
