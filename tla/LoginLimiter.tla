---------------------------- MODULE LoginLimiter ----------------------------
(* The login rate limiter of the gateway and the login handlers that use it. *)
(* Handlers of several requests interleave: each takes the limiter's lock    *)
(* once per call, reads the clock before it has the lock, and asks the       *)
(* directory between the check and the record of the outcome, so that a      *)
(* check reserves nothing.                                                   *)
(*                                                                           *)
(* A bucket belongs to a source address (user "") or to one user at one      *)
(* address.  Time starts at 1; 0 is Go's zero time.                          *)
EXTENDS Naturals, Sequences, FiniteSets

CONSTANTS CleanupInterval, \* loginRateLimitCleanupInterval
          Skew,            \* how long a call may wait for the lock after reading the clock
          LoginPlans       \* settings, requests and the last moment of a behaviour

VARIABLES lplan,   \* [max, maxIP, window, lockout, logins, last]
          lnow,    \* the clock
          buckets, \* attempts: a bucket for each key that has one
          sweepAt, \* nextCleanup
          logins,  \* the handler of each request: its step, and the time of the last one
          failed,  \* ghost: the failures the limiter counted, never pruned
          marks    \* ghost, per key: failures before the last lockout or success,
                   \* and the end of that lockout

loginVars == <<lplan, lnow, buckets, sweepAt, logins, failed, marks>>

Requests == 1..Len(lplan.logins)
LimiterEnabled == lplan.max > 0 /\ lplan.window > 0 /\ lplan.lockout > 0

(* The key of an address has no user; a name that is not valid has no key. *)
loginRateLimitUsername(login) == IF login.valid THEN login.user ELSE ""
AnyUser(login) == [login EXCEPT !.valid = FALSE]
AddressKey(login) == [ip |-> login.ip, user |-> ""]
PairKey(login) == [ip |-> login.ip, user |-> loginRateLimitUsername(login)]
Keys == UNION {{AddressKey(lplan.logins[i]), PairKey(lplan.logins[i])} : i \in Requests}

MaxAttempts(k) == IF k.user = "" THEN lplan.maxIP ELSE lplan.max

Rules(login) == (IF loginRateLimitUsername(login) # "" THEN {PairKey(login)} ELSE {})
                    \cup (IF lplan.maxIP > 0 THEN {AddressKey(login)} ELSE {})

NoFailures == [fails |-> <<>>, until |-> 0]

PruneEarly(b, t) ==
    IF b.until # 0 /\ t >= b.until
    THEN NoFailures
    ELSE [b EXCEPT !.fails = SelectSeq(@, LAMBDA f : f + lplan.window > t)]
Prune(b, t) ==
    IF b.until # 0 /\ t >= b.until
    THEN NoFailures
    ELSE [b EXCEPT !.fails = SelectSeq(@, LAMBDA f : f + lplan.window >= t)]

Due(t) == sweepAt = 0 \/ t >= sweepAt
Unused(b) == b.fails = <<>> /\ b.until = 0

CleanupExpired(t) ==
    IF Due(t)
    THEN LET pruned == [k \in DOMAIN buckets |-> Prune(buckets[k], t)]
         IN  [k \in {j \in DOMAIN pruned : ~Unused(pruned[j])} |-> pruned[k]]
    ELSE buckets
NextSweep(t) == IF Due(t) THEN t + CleanupInterval ELSE sweepAt

Retries(b, t) == b.until # 0 /\ t < b.until

(* RetryAfter prunes the buckets it looks at; it creates none. *)
Looked(login, t) ==
    LET bs == CleanupExpired(t)
    IN  [k \in DOMAIN bs |-> IF k \in Rules(login) THEN Prune(bs[k], t) ELSE bs[k]]
RetryAfter(login, t) ==
    /\ LimiterEnabled
    /\ \E k \in Rules(login) \cap DOMAIN Looked(login, t) : Retries(Looked(login, t)[k], t)

(* RecordFailure creates the buckets of both keys before it looks at them. *)
Opened(login, t) ==
    LET bs == CleanupExpired(t)
    IN  [k \in DOMAIN bs \cup Rules(login) |->
            IF k \notin DOMAIN bs THEN NoFailures
            ELSE IF k \in Rules(login) THEN Prune(bs[k], t) ELSE bs[k]]
SwallowedNever(login, t) == FALSE
Swallowed(login, t) == \E k \in Rules(login) : Retries(Opened(login, t)[k], t)
Reaches(b, k) == Len(b.fails) + 1 >= MaxAttempts(k)
CountFailure(b, k, t) ==
    IF Reaches(b, k)
    THEN [fails |-> <<>>, until |-> t + lplan.lockout]
    ELSE [b EXCEPT !.fails = Append(@, t)]
AfterFailure(login, t) ==
    LET bs == Opened(login, t)
    IN  IF Swallowed(login, t) THEN bs
        ELSE [k \in DOMAIN bs |-> IF k \in Rules(login) THEN CountFailure(bs[k], k, t) ELSE bs[k]]

(* A successful login forgets the pair, a lockout included. *)
AfterSuccess(login) == [k \in DOMAIN buckets \ {PairKey(login)} |-> buckets[k]]

-----------------------------------------------------------------------------
LoginInit ==
    /\ lplan \in LoginPlans
    /\ lnow = 1 /\ buckets = <<>> /\ sweepAt = 0 /\ failed = <<>>
    /\ logins = [i \in Requests |-> [pc |-> "new", since |-> 1]]
    /\ marks = [k \in Keys |-> [at |-> 0, until |-> 0]]

(* The clock readings a call may act on. *)
Readings(i) == {t \in logins[i].since..lnow : t + Skew >= lnow}

Goes(i, pc) ==
    logins' = [logins EXCEPT ![i] = [pc |-> pc, since |-> IF pc = "done" THEN 0 ELSE lnow]]

(* rejectRateLimitedLogin: the request ends when a lockout is in force. *)
CheckLogin(i, login, pc) ==
    \E t \in Readings(i) :
        /\ IF LimiterEnabled
           THEN buckets' = Looked(login, t) /\ sweepAt' = NextSweep(t)
           ELSE UNCHANGED <<buckets, sweepAt>>
        /\ Goes(i, IF RetryAfter(login, t) THEN "done" ELSE pc)
        /\ UNCHANGED <<lplan, lnow, failed, marks>>

(* recordFailedLogin *)
RecordFailure(i, login) ==
    /\ Goes(i, "done")
    /\ UNCHANGED <<lplan, lnow>>
    /\ IF ~LimiterEnabled
       THEN UNCHANGED <<buckets, sweepAt, failed, marks>>
       ELSE \E t \in Readings(i) :
            /\ buckets' = AfterFailure(login, t)
            /\ sweepAt' = NextSweep(t)
            /\ IF Swallowed(login, t)
               THEN UNCHANGED <<failed, marks>>
               ELSE /\ failed' = Append(failed,
                            [ip |-> login.ip, user |-> loginRateLimitUsername(login), t |-> t])
                    /\ marks' = [k \in Keys |->
                            IF k \in Rules(login) /\ buckets'[k].until # 0
                            THEN [at |-> Len(failed'), until |-> t + lplan.lockout]
                            ELSE marks[k]]

CheckAddress(i) ==
    LET login == lplan.logins[i]
    IN  /\ logins[i].pc = "new"
        /\ CheckLogin(i, AnyUser(login), IF login.valid THEN "named" ELSE "unnamed")

RejectName(i) == logins[i].pc = "unnamed" /\ RecordFailure(i, AnyUser(lplan.logins[i]))

CheckUser(i) == logins[i].pc = "named" /\ CheckLogin(i, lplan.logins[i], "asking")

AuthenticationFails(i) ==
    logins[i].pc = "asking" /\ ~lplan.logins[i].good /\ RecordFailure(i, lplan.logins[i])

RecordSuccess(i) ==
    LET login == lplan.logins[i]
    IN  /\ logins[i].pc = "asking" /\ login.good
        /\ Goes(i, "done")
        /\ IF LimiterEnabled
           THEN /\ buckets' = AfterSuccess(login)
                /\ marks' = [marks EXCEPT ![PairKey(login)] = [at |-> Len(failed), until |-> 0]]
           ELSE UNCHANGED <<buckets, marks>>
        /\ UNCHANGED <<lplan, lnow, sweepAt, failed>>

LoginClock ==
    /\ lnow < lplan.last
    /\ lnow' = lnow + 1
    /\ UNCHANGED <<lplan, buckets, sweepAt, logins, failed, marks>>

LoginNext ==
    \/ \E i \in Requests :
          \/ CheckAddress(i) \/ RejectName(i) \/ CheckUser(i)
          \/ AuthenticationFails(i) \/ RecordSuccess(i)
    \/ LoginClock

-----------------------------------------------------------------------------
Of(f, k) == f.ip = k.ip /\ k.user \in {"", f.user}
Limited == {k \in Keys : LimiterEnabled /\ MaxAttempts(k) > 0}

(* A bucket is locked or counting, never both, holds fewer failures than     *)
(* lock it, and no later ones than the clock shows.                          *)
LoginTypeOK ==
    /\ DOMAIN buckets \subseteq Limited
    /\ \A k \in DOMAIN buckets :
          /\ Len(buckets[k].fails) < MaxAttempts(k)
          /\ buckets[k].until # 0 => buckets[k].fails = <<>>
          /\ \A j \in DOMAIN buckets[k].fails : buckets[k].fails[j] <= lnow
    /\ \A i \in Requests : logins[i].pc \in {"new", "named", "unnamed", "asking", "done"}

(* Pruning on every call, the periodic cleanup and calls that act on an old  *)
(* reading of the clock forget no failure that still counts: since a key's   *)
(* last lockout or success, fewer of its failures than its limit lie in one  *)
(* window that ends now (pruneBucket, cleanupExpired, RecordFailure).        *)
LimitKept ==
    \A k \in Limited :
        Cardinality({j \in (marks[k].at + 1)..Len(failed) :
            Of(failed[j], k) /\ failed[j].t + lplan.window >= lnow}) < MaxAttempts(k)

(* A lockout has its cause: as many counted failures as the limit, of this   *)
(* user at this address or of this address, in the window before it.  One    *)
(* user's mistakes do not lock another one out (rules).                      *)
LockoutJustified ==
    \A k \in DOMAIN buckets : buckets[k].until # 0 =>
        Cardinality({j \in DOMAIN failed :
            /\ Of(failed[j], k)
            /\ failed[j].t + lplan.window + lplan.lockout >= buckets[k].until})
          >= MaxAttempts(k)

(* While a lockout of its user or of its address runs, no request gets to    *)
(* ask the directory, however calls and cleanups interleave; only a          *)
(* concurrent success of the same user ends a lockout early.                 *)
LockoutHonoured ==
    \A i \in Requests :
          (logins[i].pc # "asking" /\ logins'[i].pc = "asking") =>
              \A k \in Rules(lplan.logins[i]) : marks[k].until <= lnow

(* "An existing lockout is not extended": failures of requests that were     *)
(* already past the check neither move its end nor are counted.              *)
LockoutNotExtended ==
    \A k \in Keys :
          marks[k].until > lnow => marks'[k].until \in {0, marks[k].until}

(* Limiter: as many failures as the limit within a window always end in a    *)
(* lockout, and a lockout has that many.                                     *)
LimitsKept == LoginTypeOK /\ LimitKept /\ LockoutJustified

(* Limiter: no password is asked for during a lockout, and attempts during   *)
(* it do not prolong it.                                                     *)
LockoutsStand == [][LockoutHonoured /\ LockoutNotExtended]_loginVars
=============================================================================
