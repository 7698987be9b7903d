------------------------------ MODULE Sessions ------------------------------
(***************************************************************************)
(* The sessions of one user.  SessionService keeps three kinds of keys in  *)
(* Redis: the sessions, the list of a user's sessions and the session of   *)
(* each device.  AuthService creates them for logins, refreshes them, and  *)
(* ends them for logouts and for changed and reset passwords.              *)
(*                                                                         *)
(* Each Redis or MongoDB call is a step of its own, and nothing locks the  *)
(* keys between two of them.  Every session has the same lifetime, so they *)
(* expire in the order they were created.  What can still go wrong is      *)
(* stated by the properties at the end: each excuses exactly the           *)
(* interleavings that "races" records.                                     *)
(***************************************************************************)
EXTENDS Integers, FiniteSets, Sequences

CONSTANTS
  Devices,      \* devices of the user
  Handlers,     \* requests served at the same time
  MaxRequests,  \* bound: requests in a behaviour
  MaxFailures   \* bound: failing calls in a behaviour

ASSUME SetsAssumption == IsFiniteSet(Devices) /\ IsFiniteSet(Handlers)
ASSUME BoundAssumption == MaxRequests \in Nat /\ MaxFailures \in Nat

VARIABLES
  password,   \* version of the password in MongoDB
  token,      \* the reset token in MongoDB, 0 if none
  made,       \* the sessions created so far: their device and password
  sessions,   \* session:<id> in Redis
  list,       \* user_sessions:<user> in Redis
  deviceKey,  \* device_session:<user>:<device> in Redis, 0 if none
  expired,    \* sessions up to this one are past their expiresAt
  handler,    \* what each handler serves and where it is
  revoked,    \* history: sessions whose revocation was confirmed
  races,      \* history: what overtook what
  failures, requests  \* budgets spent

userVars == <<password, token>>
redisVars == <<sessions, list, deviceKey>>
sessionVars == <<made, expired>>
budgets == <<failures, requests>>
vars == <<password, token, made, sessions, list, deviceKey, expired, handler,
          revoked, races, failures, requests>>

Ids == 1..MaxRequests
Ops == {"none", "login", "refresh", "logout", "endAll"}
Steps == {"idle", "device", "get", "del", "listGet", "listSet", "delDevice",
          "store", "trackGet", "trackSet", "map", "touch", "touchSet",
          "update", "all", "delList"}
State == [op: Ops, step: Steps, id: 0..Len(made), target: 0..Len(made),
          todo: Seq(1..Len(made)), seen: Seq(1..Len(made))]
Races == {"login", "list", "all", "device", "touch", "credential"}

ListedIn(l) == {l[i] : i \in 1..Len(l)}

\* A list of sessions names each of them once: what filter leaves out is at one
\* place.
Distinct(l) == \A i, j \in 1..Len(l) : l[i] = l[j] => i = j
IsList(l) == l \in Seq(1..Len(made)) /\ Distinct(l)
Without(l, id) ==
  IF id \notin ListedIn(l) THEN l
  ELSE LET n == CHOOSE i \in 1..Len(l) : l[i] = id
       IN [i \in 1..(Len(l) - 1) |-> IF i < n THEN l[i] ELSE l[i + 1]]

TypeOK ==
  /\ password \in Nat \ {0} /\ token \in 0..requests
  /\ made \in Seq([device: Devices, password: 1..password])
  /\ Len(made) <= requests /\ expired \in 0..Len(made)
  /\ sessions \subseteq 1..Len(made) /\ IsList(list)
  /\ deviceKey \in [Devices -> 0..Len(made)]
  /\ handler \in [Handlers -> State]
  /\ \A h \in Handlers : IsList(handler[h].todo) /\ IsList(handler[h].seen)
  /\ revoked \subseteq Ids /\ races \subseteq Races
  /\ failures \in 0..MaxFailures /\ requests \in 0..MaxRequests

Idle == [op |-> "none", step |-> "idle", id |-> 0, target |-> 0,
         todo |-> <<>>, seen |-> <<>>]

\* A registered user without sessions.
Init ==
  /\ password = 1 /\ token = 0
  /\ made = <<>> /\ expired = 0
  /\ sessions = {} /\ list = <<>> /\ deviceKey = [d \in Devices |-> 0]
  /\ handler = [h \in Handlers |-> Idle]
  /\ revoked = {} /\ races = {}
  /\ failures = 0 /\ requests = 0

At(h, step) == handler[h].step = step
Moves(h, step) == handler' = [handler EXCEPT ![h].step = step]
Ends(h) == handler' = [handler EXCEPT ![h] = Idle]
Records(race, happened) ==
  races' = IF happened THEN races \cup {race} ELSE races

\* validateSession and the guard ask for a session in Redis that has not
\* expired and whose token names its device.
Valid == {i \in sessions : i > expired}

-----------------------------------------------------------------------------
(* Requests arrive                                                         *)

Receive(h) ==
  /\ At(h, "idle") /\ requests < MaxRequests
  /\ requests' = requests + 1
  /\ UNCHANGED failures

Serves(h, op, step, id) ==
  handler' = [handler EXCEPT ![h] = [Idle EXCEPT !.op = op, !.step = step,
                                       !.id = id, !.target = id]]

\* login reads the user, checks the password, and creates a session for the
\* device.
Login(h, d) ==
  /\ Receive(h)
  /\ made' = Append(made, [device |-> d, password |-> password])
  /\ Serves(h, "login", "device", Len(made) + 1)
  /\ Records("login", \E g \in Handlers : /\ handler[g].op = "login"
                                         /\ made[handler[g].id].device = d)
  /\ UNCHANGED <<userVars, expired, redisVars, revoked>>

\* The tokens of a session are handed out when its login is answered.
HandedOut(id) == \A g \in Handlers : handler[g].op = "login" => handler[g].id # id

\* refreshAccessToken validates the session, which ends one past its expiresAt,
\* then touches it.
Refresh(h, id) ==
  /\ Receive(h) /\ HandedOut(id)
  /\ \/ id \in Valid /\ Serves(h, "refresh", "touch", id)
     \/ id \in sessions \ Valid /\ Serves(h, "logout", "get", id)
  /\ UNCHANGED <<userVars, sessionVars, redisVars, revoked, races>>

\* The requests of a valid session that end one or all: logout, logoutAll and
\* changePassword.
EndSessions(h, id) ==
  /\ Receive(h) /\ id \in Valid /\ HandedOut(id)
  /\ \/ Serves(h, "logout", "get", id)
     \/ Serves(h, "endAll", "all", 0)
     \/ Serves(h, "endAll", "update", 0)
  /\ UNCHANGED <<userVars, sessionVars, redisVars, revoked, races>>

\* forgotPassword replaces the token.
ForgotPassword(h) ==
  /\ Receive(h)
  /\ token' = requests'
  /\ UNCHANGED <<password, sessionVars, redisVars, handler, revoked, races>>

\* resetPassword finds the user by the token it was mailed.
ResetPassword(h) ==
  /\ Receive(h) /\ token # 0
  /\ Serves(h, "endAll", "update", 0)
  /\ UNCHANGED <<userVars, sessionVars, redisVars, revoked, races>>

\* revokeSession finds the session by the masked id the client was shown and
\* then ends the session of that masked id, which there is none of.
RevokeSession(h, id) ==
  /\ Receive(h) /\ id \in sessions \cap ListedIn(list)
  /\ revoked' = revoked \cup {id}
  /\ UNCHANGED <<userVars, sessionVars, redisVars, handler, races>>

-----------------------------------------------------------------------------
(* invalidateSession: four calls, for a login, a logout or each session of *)
(* the list                                                                *)

\* What follows the invalidation of a session.
Resume(s) ==
  IF s.op = "login" THEN [s EXCEPT !.step = "store"]
  ELSE IF s.op = "logout" THEN Idle
  ELSE IF s.todo = <<>> THEN [s EXCEPT !.step = "delList"]
  ELSE [s EXCEPT !.step = "get", !.target = Head(s.todo), !.todo = Tail(s.todo)]
Returns(h) == handler' = [handler EXCEPT ![h] = Resume(handler[h])]

GetSession(h) ==
  /\ At(h, "get")
  /\ IF handler[h].target \in sessions THEN Moves(h, "del") ELSE Returns(h)
  /\ UNCHANGED <<userVars, sessionVars, redisVars, revoked, races, budgets>>

DeleteSession(h) ==
  /\ At(h, "del")
  /\ sessions' = sessions \ {handler[h].target}
  /\ Moves(h, "listGet")
  /\ UNCHANGED <<userVars, sessionVars, list, deviceKey, revoked, races, budgets>>

\* Slip: the session stays in the list and is added again.
KeepInList(h) ==
  LET s == handler[h] IN
  /\ At(h, "listSet")
  /\ list' = Append(s.seen, s.target)
  /\ handler' = [handler EXCEPT ![h] = [s EXCEPT !.step = "delDevice", !.seen = <<>>]]
  /\ Records("list", s.seen # list)
  /\ UNCHANGED <<userVars, sessionVars, sessions, deviceKey, revoked, budgets>>

\* removeUserSession reads the list, filters it and writes it back.
ReadList(h) ==
  LET s == handler[h] IN
  /\ At(h, "listGet")
  /\ handler' = [handler EXCEPT ![h] = [s EXCEPT !.step = "listSet", !.seen = list]]
  /\ UNCHANGED <<userVars, sessionVars, redisVars, revoked, races, budgets>>

RemoveFromList(h) ==
  LET s == handler[h] IN
  /\ At(h, "listSet")
  /\ list' = Without(s.seen, s.target)
  /\ handler' = [handler EXCEPT ![h] = [s EXCEPT !.step = "delDevice", !.seen = <<>>]]
  /\ Records("list", s.seen # list)
  /\ UNCHANGED <<userVars, sessionVars, sessions, deviceKey, revoked, budgets>>

\* The key of the device goes, whichever session it names.
DeleteDeviceKey(h) ==
  LET s == handler[h]
      d == made[s.target].device
  IN /\ At(h, "delDevice")
     /\ deviceKey' = [deviceKey EXCEPT ![d] = 0]
     /\ Records("device", deviceKey[d] \notin {0, s.target})
     /\ Returns(h)
     /\ UNCHANGED <<userVars, sessionVars, sessions, list, revoked, budgets>>

-----------------------------------------------------------------------------
(* createSession                                                           *)

\* Slip: the old session of the device is left alone.
KeepDeviceSession(h) ==
  /\ At(h, "device")
  /\ Moves(h, "store")
  /\ UNCHANGED <<userVars, sessionVars, redisVars, revoked, races, budgets>>

\* invalidateDeviceSession
GetDeviceKey(h) ==
  LET s == handler[h]
      d == made[s.id].device IN
  /\ At(h, "device")
  /\ handler' = [handler EXCEPT ![h] =
       IF deviceKey[d] = 0 THEN [s EXCEPT !.step = "store"]
       ELSE [s EXCEPT !.step = "get", !.target = deviceKey[d]]]
  /\ UNCHANGED <<userVars, sessionVars, redisVars, revoked, races, budgets>>

StoreSession(h) ==
  /\ At(h, "store")
  /\ sessions' = sessions \cup {handler[h].id}
  /\ Moves(h, "trackGet")
  /\ UNCHANGED <<userVars, sessionVars, list, deviceKey, revoked,
                 races, budgets>>

\* Slip: every session is tracked as the first.
TrackAlone(h) ==
  LET s == handler[h] IN
  /\ At(h, "trackSet")
  /\ list' = <<s.id>>
  /\ handler' = [handler EXCEPT ![h] = [s EXCEPT !.step = "map", !.seen = <<>>]]
  /\ Records("list", s.seen # list)
  /\ UNCHANGED <<userVars, sessionVars, sessions, deviceKey, revoked, budgets>>

\* trackUserSession reads the list, appends to it and writes it back.
ReadListToTrack(h) ==
  LET s == handler[h] IN
  /\ At(h, "trackGet")
  /\ handler' = [handler EXCEPT ![h] = [s EXCEPT !.step = "trackSet", !.seen = list]]
  /\ UNCHANGED <<userVars, sessionVars, redisVars, revoked, races, budgets>>

Track(h) ==
  LET s == handler[h] IN
  /\ At(h, "trackSet")
  /\ list' = Append(s.seen, s.id)
  /\ handler' = [handler EXCEPT ![h] = [s EXCEPT !.step = "map", !.seen = <<>>]]
  /\ Records("list", s.seen # list)
  /\ UNCHANGED <<userVars, sessionVars, sessions, deviceKey, revoked, budgets>>

SetDeviceKey(h) ==
  /\ At(h, "map")
  /\ deviceKey' = [deviceKey EXCEPT ![made[handler[h].id].device] = handler[h].id]
  /\ Ends(h)
  /\ UNCHANGED <<userVars, sessionVars, sessions, list, revoked,
                 races, budgets>>

-----------------------------------------------------------------------------
(* touchSession                                                            *)

Touch(h) ==
  /\ At(h, "touch")
  /\ IF handler[h].id \in sessions THEN Moves(h, "touchSet") ELSE Ends(h)
  /\ UNCHANGED <<userVars, sessionVars, redisVars, revoked, races, budgets>>

\* The session is written back as it was read, with no time to live when it has
\* expired since.
WriteBack(h) ==
  /\ At(h, "touchSet")
  /\ sessions' = sessions \cup {handler[h].id}
  /\ Records("touch", handler[h].id \notin sessions)
  /\ Ends(h)
  /\ UNCHANGED <<userVars, sessionVars, list, deviceKey, revoked, budgets>>

-----------------------------------------------------------------------------
(* Passwords and invalidateAllUserSessions                                 *)

\* The update unsets whatever token there is.  Changes overtake the logins that
\* have read the old password.
UpdatePassword(h) ==
  /\ At(h, "update")
  /\ password' = password + 1 /\ token' = 0
  /\ Moves(h, "all")
  /\ Records("credential", \E g \in Handlers : handler[g].op = "login")
  /\ UNCHANGED <<sessionVars, redisVars, revoked, budgets>>

\* Slip: the first session of the list is taken for the current one and kept.
ReadOthers(h) ==
  LET s == handler[h] IN
  /\ At(h, "all")
  /\ handler' = [handler EXCEPT ![h] =
       IF Len(list) < 2 THEN Idle
       ELSE [s EXCEPT !.step = "get", !.target = list[2], !.todo = Tail(Tail(list))]]
  /\ UNCHANGED <<userVars, sessionVars, redisVars, revoked, races, budgets>>

ReadAll(h) ==
  LET s == handler[h] IN
  /\ At(h, "all")
  /\ handler' = [handler EXCEPT ![h] =
       IF list = <<>> THEN Idle
       ELSE [s EXCEPT !.step = "get", !.target = Head(list), !.todo = Tail(list)]]
  /\ UNCHANGED <<userVars, sessionVars, redisVars, revoked, races, budgets>>

\* The list goes, with the sessions that were added since it was read.
DeleteList(h) ==
  /\ At(h, "delList")
  /\ list' = <<>>
  /\ Records("all", ListedIn(list) \cap sessions # {})
  /\ Ends(h)
  /\ UNCHANGED <<userVars, sessionVars, sessions, deviceKey, revoked, budgets>>

-----------------------------------------------------------------------------
(* Time and failures                                                       *)

\* The oldest session reaches its expiresAt; its keys have the same lifetime.
Expire ==
  /\ expired < Len(made)
  /\ \A h \in Handlers : handler[h].op = "login" => handler[h].id # expired + 1
  /\ expired' = expired + 1
  /\ sessions' = sessions \ {expired + 1}
  /\ deviceKey' = [d \in Devices |->
                     IF deviceKey[d] = expired + 1 THEN 0 ELSE deviceKey[d]]
  /\ UNCHANGED <<userVars, made, list, handler, revoked,
                 races, budgets>>

StepFails(h) ==
  /\ failures < MaxFailures /\ ~At(h, "idle")
  /\ failures' = failures + 1
  /\ Ends(h)
  /\ UNCHANGED <<userVars, sessionVars, redisVars, revoked, races, requests>>

Arrive(h) == \/ \E d \in Devices : Login(h, d)
             \/ \E id \in Ids : \/ Refresh(h, id) \/ EndSessions(h, id)
                                \/ RevokeSession(h, id)
             \/ ForgotPassword(h) \/ ResetPassword(h)

Serve(h) == \/ GetSession(h) \/ DeleteSession(h) \/ ReadList(h)
            \/ RemoveFromList(h) \/ DeleteDeviceKey(h) \/ GetDeviceKey(h)
            \/ StoreSession(h) \/ ReadListToTrack(h) \/ Track(h) \/ SetDeviceKey(h)
            \/ Touch(h) \/ WriteBack(h) \/ UpdatePassword(h) \/ ReadAll(h)
            \/ DeleteList(h) \/ StepFails(h)

Next == \/ \E h \in Handlers : Arrive(h) \/ Serve(h)
        \/ Expire

Spec == Init /\ [][Next]_vars

-----------------------------------------------------------------------------

\* A device has one session.  Failing calls, two logins of the device at once,
\* a logout that deletes the key of a newer session and a touch that brings a
\* session back are the ways to have two.
OneSessionPerDevice ==
  (failures = 0 /\ races \cap {"login", "device", "touch"} = {}) =>
    \A i, j \in Valid : made[i].device = made[j].device => i = j

\* Every session can be found to be ended: it is in the list, or about to be.
\* Only failing calls, writes of an outdated list, a list deleted under a new
\* session and a touch lose one.
SessionsTracked ==
  (failures = 0 /\ races \cap {"list", "all", "touch"} = {}) =>
    \A i \in sessions :
      \/ i \in ListedIn(list)
      \/ \E h \in Handlers : /\ handler[h].op = "login" /\ handler[h].id = i
                             /\ handler[h].step \in {"trackGet", "trackSet"}

\* When no change of the password is under way, the sessions in Redis were made
\* with the current one: changePassword and resetPassword end all others, up to
\* the same races and the logins they overtake.
OldPasswordEndsSessions ==
  (/\ failures = 0 /\ races \cap {"list", "all", "touch", "credential"} = {}
   /\ \A h \in Handlers : handler[h].op # "endAll")
  => \A i \in sessions : made[i].password = password

\* A session whose revocation was confirmed is not in Redis.
RevokedIsGone == revoked \cap sessions = {}

-----------------------------------------------------------------------------
(* The inductive invariant                                                 *)

InvalidateSteps == {"get", "del", "listGet", "listSet", "delDevice"}
BeforeStore == InvalidateSteps \cup {"device", "store"}
BeforeTrack == BeforeStore \cup {"trackGet", "trackSet"}

StepsOf(op) == CASE op = "none" -> {"idle"}
                 [] op = "login" -> BeforeTrack \cup {"map"}
                 [] op = "refresh" -> {"touch", "touchSet"}
                 [] op = "logout" -> InvalidateSteps
                 [] op = "endAll" -> InvalidateSteps \cup {"update", "all", "delList"}

LogsIn(h) == handler[h].op = "login"
Ending(h) == handler[h].step \in InvalidateSteps

\* What a handler serves.  The session of a login does not expire under it.
HandlersInv ==
  \A h \in Handlers :
    /\ handler[h].step \in StepsOf(handler[h].op)
    /\ LogsIn(h) => handler[h].id > expired
    /\ Ending(h) => handler[h].target # 0
    /\ handler[h].op = "refresh" => handler[h].id # 0

\* Nobody knows the session of a login before it is stored, and no list names it
\* before it is tracked.
Unknown(id) ==
  /\ id \notin sessions /\ \A d \in Devices : deviceKey[d] # id
  /\ \A g \in Handlers : /\ Ending(g) => handler[g].target # id
                         /\ handler[g].op = "refresh" => handler[g].id # id
Unlisted(id) ==
  /\ id \notin ListedIn(list)
  /\ \A g \in Handlers : id \notin ListedIn(handler[g].seen) \cup ListedIn(handler[g].todo)
LoginsInv ==
  \A h \in Handlers :
    LogsIn(h) =>
      /\ handler[h].step \in BeforeStore => Unknown(handler[h].id)
      /\ handler[h].step \in BeforeTrack => Unlisted(handler[h].id)
      /\ \A g \in Handlers \ {h} : LogsIn(g) => handler[g].id # handler[h].id

\* A session whose keys are deleted is gone.
GoneInv ==
  "touch" \notin races =>
    \A h \in Handlers :
      handler[h].step \in {"listGet", "listSet", "delDevice"} =>
        handler[h].target \notin sessions

\* The key of a device names its session, but for a login that has stored its own.
\* A login ends the session it found, and then the device has none.
DeviceOf(i) == made[i].device
KeyNamed(i) ==
  \/ deviceKey[DeviceOf(i)] = i
  \/ \E h \in Handlers : /\ LogsIn(h) /\ handler[h].id = i
                         /\ handler[h].step \in {"trackGet", "trackSet", "map"}
MayFind(s, i) == CASE s.step = "device" -> TRUE
                   [] s.step \in {"get", "del"} -> i = s.target
                   [] OTHER -> i = s.id
DevicesInv ==
  (failures = 0 /\ races \cap {"login", "device", "touch"} = {}) =>
    /\ \A i \in sessions : KeyNamed(i)
    /\ \A h, g \in Handlers :
         LogsIn(h) /\ LogsIn(g) /\ DeviceOf(handler[h].id) = DeviceOf(handler[g].id) => h = g
    /\ \A h \in Handlers : \A i \in sessions :
         LogsIn(h) /\ DeviceOf(i) = DeviceOf(handler[h].id) => MayFind(handler[h], i)

\* The sessions of an older password are about to be read or to be ended.
AboutToEnd(h, i) ==
  /\ handler[h].op = "endAll"
  /\ \/ At(h, "all")
     \/ handler[h].step \in {"get", "del"} /\ handler[h].target = i
     \/ Ending(h) /\ i \in ListedIn(handler[h].todo)
PasswordsInv ==
  "credential" \notin races =>
    /\ \A h \in Handlers : LogsIn(h) => made[handler[h].id].password = password
    /\ (failures = 0 /\ races \cap {"list", "all", "touch"} = {}) =>
         \A i \in sessions :
           made[i].password = password \/ \E h \in Handlers : AboutToEnd(h, i)

IInv == /\ TypeOK /\ HandlersInv /\ LoginsInv /\ GoneInv
        /\ DevicesInv /\ SessionsTracked /\ PasswordsInv
=============================================================================
