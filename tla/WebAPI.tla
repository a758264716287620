------------------------------- MODULE WebAPI -------------------------------
(***************************************************************************)
(* The HTTP side of clattermark (src/web.go): the limiter every mutating   *)
(* route shares, and what each handler makes of a request that passes it.  *)
(* What an accepted change does to the excludes is in DynExcludes.         *)
(*                                                                         *)
(* Time is counted in ticks; one critical section of the limiter is one    *)
(* step, and the clock is read before it.                                  *)
(***************************************************************************)
EXTENDS Naturals, FiniteSets

CONSTANTS Clients,
          Loads,        \* the requests of a behaviour, and what each carries
          Limit, Duration,
          MaxDelay,     \* the longest time from reading the clock to the lock
          MaxTime       \* bound

ASSUME LimitAssumption == Limit \in Nat \ {0}
ASSUME TimeAssumption ==
  MaxDelay \in Nat /\ Duration \in Nat /\ MaxTime \in Nat /\ MaxDelay < Duration

-----------------------------------------------------------------------------
(* The handlers.                                                           *)

Form == [handler : {"slash", "mute", "excludes"},
         method : {"GET", "POST", "DELETE", "PUT"},
         token : BOOLEAN,       \* one of the tokens of its handler
         decodes : BOOLEAN,     \* the body is JSON; enough words for a slash command
         command : {"mute", "unmute", "status", "other"},
         valid : BOOLEAN,       \* validateDynamicExclude accepts type and value
         reason : BOOLEAN]

ASSUME LoadAssumption ==
  \A load \in Loads : IsFiniteSet(DOMAIN load) /\ load \in [DOMAIN load -> Form]

Changes == {"mute", "unmute"}

SlashCommand(f) ==
  IF f.command = "status" THEN "table"
  ELSE IF f.command = "other" THEN "empty"
  ELSE IF f.decodes /\ f.valid THEN f.command ELSE "usage"

Slash(f) == IF f.method # "POST" THEN "empty"
            ELSE IF ~f.token THEN "unauthorized" ELSE SlashCommand(f)

Mute(f) == IF f.method # "POST" THEN "not allowed"
           ELSE IF ~f.token THEN "unauthorized"
           ELSE IF f.decodes /\ f.valid /\ f.command \in Changes THEN f.command
           ELSE "bad request"

ExcludesUnauthenticatedGet(f) ==             \* fault: the method is tested first
  IF f.method = "GET" THEN "list"
  ELSE IF ~f.token THEN "unauthorized"
  ELSE IF f.method \notin {"POST", "DELETE"} THEN "not allowed"
  ELSE IF ~(f.decodes /\ f.valid /\ f.reason) THEN "bad request"
  ELSE IF f.method = "POST" THEN "mute" ELSE "unmute"

Excludes(f) ==
  IF ~f.token THEN "unauthorized"
  ELSE IF f.method = "GET" THEN "list"
  ELSE IF f.method \notin {"POST", "DELETE"} THEN "not allowed"
  ELSE IF ~(f.decodes /\ f.valid /\ f.reason) THEN "bad request"
  ELSE IF f.method = "POST" THEN "mute" ELSE "unmute"

Verdict(f) == IF f.handler = "slash" THEN Slash(f)
              ELSE IF f.handler = "mute" THEN Mute(f) ELSE Excludes(f)

-----------------------------------------------------------------------------
VARIABLES
  now,
  windows,       \* limiter.windows: start 0 is the zero time
  stage,         \* each request: "new", "limiting", "admitted", "limited", "answered"
  client, form,
  observed,      \* what l.now() returned
  enteredAt,     \* history: when Allow decided
  answer

Requests == DOMAIN form

vars == <<now, windows, stage, client, form, observed, enteredAt, answer>>

Init ==
  /\ now = 1
  /\ form \in Loads
  /\ windows = [c \in Clients |-> [start |-> 0, count |-> 0]]
  /\ stage = [q \in Requests |-> "new"]
  /\ client \in [Requests -> Clients]
  /\ observed = [q \in Requests |-> 0]
  /\ enteredAt = [q \in Requests |-> 0]
  /\ answer = [q \in Requests |-> ""]

\* Allow reads the clock before it takes the lock.
ReadClock(q) ==
  /\ stage[q] = "new"
  /\ observed' = [observed EXCEPT ![q] = now]
  /\ stage' = [stage EXCEPT ![q] = "limiting"]
  /\ UNCHANGED <<now, windows, client, form, enteredAt, answer>>

\* start.IsZero() || now.Sub(start) >= duration
WindowOverLate(w, t) == w.start = 0 \/ t > w.start + Duration   \* fault: > for >=
WindowOver(w, t) == w.start = 0 \/ t >= w.start + Duration

StartUncounted(w, t) == IF WindowOver(w, t) THEN [start |-> t, count |-> 0]  \* fault:
                        ELSE [w EXCEPT !.count = @ + 1]    \* the first one is free
CountIn(w, t) == IF WindowOver(w, t) THEN [start |-> t, count |-> 1]
                 ELSE [w EXCEPT !.count = @ + 1]

Allow(q) ==
  LET w == CountIn(windows[client[q]], observed[q]) IN
  /\ stage[q] = "limiting"
  /\ windows' = [windows EXCEPT ![client[q]] = w]
  /\ enteredAt' = [enteredAt EXCEPT ![q] = now]
  /\ stage' = [stage EXCEPT ![q] = IF w.count <= Limit THEN "admitted" ELSE "limited"]
  /\ UNCHANGED <<now, client, form, observed, answer>>

Serve(q) ==
  /\ stage[q] = "admitted"
  /\ answer' = [answer EXCEPT ![q] = Verdict(form[q])]
  /\ stage' = [stage EXCEPT ![q] = "answered"]
  /\ UNCHANGED <<now, windows, client, form, observed, enteredAt>>

Tick ==
  /\ now < MaxTime
  /\ \A q \in Requests : stage[q] = "limiting" => now < observed[q] + MaxDelay
  /\ now' = now + 1
  /\ UNCHANGED <<windows, stage, client, form, observed, enteredAt, answer>>

Finished ==
  /\ \A q \in Requests : stage[q] \in {"limited", "answered"}
  /\ UNCHANGED vars

Next == \/ Tick \/ Finished
        \/ \E q \in Requests : ReadClock(q) \/ Allow(q) \/ Serve(q)

Spec == Init /\ [][Next]_vars

-----------------------------------------------------------------------------
(* Properties.                                                             *)

Entered(q) == stage[q] \in {"admitted", "limited", "answered"}
Admitted(q) == stage[q] \in {"admitted", "answered"}

\* The type of the limiter; a window that has begun counts the request it began with.
TypeOK ==
  /\ now \in Nat
  /\ windows \in [Clients -> [start : Nat, count : Nat]]
  /\ \A c \in Clients : windows[c].start = 0 <=> windows[c].count = 0
  /\ stage \in [Requests -> {"new", "limiting", "admitted", "limited", "answered"}]
  /\ client \in [Requests -> Clients] /\ form \in Loads
  /\ observed \in [Requests -> Nat] /\ enteredAt \in [Requests -> Nat]

\* The fixed window admits up to twice its limit around a boundary, never more:
\* no span of Duration, less what a request may wait for the lock, sees more
\* than twice Limit requests of one client pass.
AtMostTwiceLimit ==
  \A c \in Clients : \A t \in 1..MaxTime :
    Cardinality({q \in Requests : /\ client[q] = c /\ Admitted(q)
                                  /\ enteredAt[q] \in t..(t + Duration - MaxDelay)})
      <= 2 * Limit

\* A client is refused only for what it asked itself, and recently: Limit other
\* requests of its own were made within Duration, up to the wait for the lock.
\* So a client that was refused gets through again after it has paused.
RefusedOnlyOverLimit ==
  \A q \in Requests : stage[q] = "limited" =>
    Cardinality({p \in Requests \ {q} : /\ client[p] = client[q] /\ Entered(p)
                                        /\ observed[q] < observed[p] + Duration + MaxDelay})
      >= Limit

\* What a client may ask for, whatever the order of a handler's tests.
Asks(f) ==
  IF f.handler = "excludes"
  THEN IF f.method = "POST" THEN "mute" ELSE IF f.method = "DELETE" THEN "unmute"
       ELSE IF f.method = "GET" THEN "list" ELSE "nothing"
  ELSE IF f.method = "POST" /\ f.command \in Changes THEN f.command
  ELSE IF f.method = "POST" /\ f.handler = "slash" /\ f.command = "status" THEN "table"
  ELSE "nothing"

Complete(f) == f.decodes /\ f.valid /\ (f.handler = "excludes" => f.reason)

\* The three ways to reach the excludes agree: they are shown or changed for an
\* authorised and complete request that asks for it, as it asks, and in no other
\* case, although each handler tests in an order of its own.
HandlersAgree ==
  \A q \in Requests :
    LET f == form[q] IN
    stage[q] = "answered" =>
      /\ answer[q] \in Changes <=> f.token /\ Asks(f) \in Changes /\ Complete(f)
      /\ answer[q] \in Changes \cup {"list", "table"} => f.token /\ answer[q] = Asks(f)
=============================================================================
