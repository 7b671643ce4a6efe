----------------------------- MODULE RateLimiter -----------------------------
(***************************************************************************)
(* RateLimitInterceptor: a counter per tenant, method and principal, with  *)
(* a window that opens at the first request and is replaced by the first   *)
(* request after it has ended.  The interceptor runs to its end without    *)
(* awaiting anything, so a request is one step; the clock moves, and the   *)
(* process (whose memory holds the counters) may restart, between steps.   *)
(*                                                                         *)
(* admitted and header are observations: when each request that was let    *)
(* through came, with the counter it left and the restarts until then, and *)
(* what the headers of the last response said.                             *)
(***************************************************************************)
EXTENDS Integers, FiniteSets, Sequences

CONSTANTS Tenants,
          Methods,            \* the methods of one controller
          Users,
          Addresses,
          DefaultOptions,     \* windowMs and max without any decorator
          ControllerOptions,  \* the fields @RateLimit gives on the class
          HandlerOptions,     \* and, by method, on the method
          Second,             \* 1000 ms, in units of the clock
          MaxTime,
          MaxCount,           \* requests counted in one window
          MaxRestarts,
          Null

ASSUME RateAssumption ==
    /\ DefaultOptions \in [windowMs : Nat \ {0}, max : Nat \ {0}]
    /\ \A o \in {ControllerOptions} \cup {HandlerOptions[m] : m \in Methods} :
          /\ DOMAIN o \subseteq {"windowMs", "max"}
          /\ \A f \in DOMAIN o : o[f] \in Nat \ {0}
    /\ Second \in Nat \ {0} /\ MaxTime \in Nat /\ MaxCount \in Nat /\ MaxRestarts \in Nat
    /\ Null \notin Tenants \cup Users

VARIABLES clock, counters, admitted, header, restarts

vars == <<clock, counters, admitted, header, restarts>>

-----------------------------------------------------------------------------
\* Fields of the method's decorator replace those of the class, which replace the
\* defaults.
ResolveOptions(m) ==
    LET field(f) == IF f \in DOMAIN HandlerOptions[m] THEN HandlerOptions[m][f]
                    ELSE IF f \in DOMAIN ControllerOptions THEN ControllerOptions[f]
                    ELSE DefaultOptions[f]
    IN  [windowMs |-> field("windowMs"), max |-> field("max")]

Calls == [tenant : Tenants \cup {Null}, method : Methods,
          user : Users \cup {Null}, ip : Addresses]

\* The user when there is one, the address otherwise.  The option keyByUser is left
\* out: it is on by default, and no decorator turns it off.
BuildKey(c) ==
    [tenant |-> c.tenant, method |-> c.method,
     principal |-> IF c.user # Null THEN <<"user", c.user>> ELSE <<"ip", c.ip>>]

Keys == {BuildKey(c) : c \in Calls}

Times == 0 .. MaxTime

Counter == [count : 1 .. MaxCount, windowStart : Times]

\* undefined is no counter.
ASSUME NoCounter == Null \notin Counter

TypeOK ==
    /\ clock \in Times
    /\ counters \in [Keys -> Counter \cup {Null}]
    /\ admitted \in [Keys -> Seq([at : Times, counter : Counter, restarts : 0 .. MaxRestarts])]
    /\ \A k \in Keys : header[k] # Null =>
          /\ header[k].remaining \in 0 .. ResolveOptions(k.method).max
          /\ header[k].until >= 0 /\ header[k].refused \in BOOLEAN
    /\ restarts \in 0 .. MaxRestarts

Init ==
    /\ clock = 0
    /\ counters = [k \in Keys |-> Null]
    /\ admitted = [k \in Keys |-> <<>>]
    /\ header = [k \in Keys |-> Null]
    /\ restarts = 0

-----------------------------------------------------------------------------
\* The counter after this request: a new window when there is none, or it is over.
Counted(k) ==
    IF counters[k] = Null \/ clock - counters[k].windowStart >= ResolveOptions(k.method).windowMs
    THEN [count |-> 1, windowStart |-> clock]
    ELSE [counters[k] EXCEPT !.count = @ + 1]

\* Mutant: the count is compared before it is incremented.
RefusesLate(k, state) == state.count - 1 > ResolveOptions(k.method).max

Refuses(k, state) == state.count > ResolveOptions(k.method).max

\* Mutant: the number of requests left is not kept from falling below zero.
RemainingUnclamped(k, state) == ResolveOptions(k.method).max - state.count

\* Math.max(0, n)
AtLeastZero(n) == IF n < 0 THEN 0 ELSE n

Remaining(k, state) == AtLeastZero(ResolveOptions(k.method).max - state.count)

\* Mutant: the seconds until the reset are rounded down.
ResetInSecondsFloor(k, state) ==
    (ResolveOptions(k.method).windowMs - (clock - state.windowStart)) \div Second

\* Math.ceil of the time left in the window.
ResetInSeconds(k, state) ==
    LET resetInMs == AtLeastZero(ResolveOptions(k.method).windowMs - (clock - state.windowStart))
    IN  (resetInMs + Second - 1) \div Second

Intercept(c) ==
    LET k == BuildKey(c)
        state == Counted(k)
        refused == Refuses(k, state)
    IN
    /\ state.count <= MaxCount
    /\ counters' = [counters EXCEPT ![k] = state]
    /\ header' = [header EXCEPT ![k] =
          [remaining |-> Remaining(k, state), refused |-> refused,
           until |-> clock + ResetInSeconds(k, state) * Second]]
    /\ admitted' = IF refused THEN admitted ELSE [admitted EXCEPT ![k] =
          Append(@, [at |-> clock, counter |-> state, restarts |-> restarts])]
    /\ UNCHANGED <<clock, restarts>>

Tick ==
    /\ clock < MaxTime
    /\ clock' = clock + 1
    /\ UNCHANGED <<counters, admitted, header, restarts>>

\* The counters are gone with the process.
Restart ==
    /\ restarts < MaxRestarts
    /\ restarts' = restarts + 1
    /\ counters' = [k \in Keys |-> Null]
    /\ UNCHANGED <<clock, admitted, header>>

Next == (\E c \in Calls : Intercept(c)) \/ Tick \/ Restart

Spec == Init /\ [][Next]_vars

-----------------------------------------------------------------------------
(* What holds.                                                              *)

\* How many requests of a key were let through in the window that begins at t.
AdmittedFrom(k, t) ==
    Cardinality({i \in 1 .. Len(admitted[k]) :
        admitted[k][i].at >= t /\ admitted[k][i].at < t + ResolveOptions(k.method).windowMs})

\* Wherever a window is laid, it never holds more than twice the limit, and one
\* limit more for every restart: windows do not overlap, refused requests do not
\* move them, and no other principal's requests count.
BoundedBurst ==
    \A k \in Keys, t \in Times :
        AdmittedFrom(k, t) <= (2 + restarts) * ResolveOptions(k.method).max

\* A client that was refused and waits for as long as X-RateLimit-Reset says is
\* let through, whatever it or others did in the meantime.
ResetHonoured ==
    [][\A k \in Keys :
        (header[k] # Null /\ header[k].refused /\ clock >= header[k].until
            /\ counters'[k] # Null /\ counters'[k] # counters[k])
                => ~header'[k].refused]_vars

=============================================================================
