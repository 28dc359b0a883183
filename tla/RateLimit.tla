--------------------------------- MODULE RateLimit ---------------------------------
(***********************************************************************************)
(* The fixed-window limit on mutating requests (core/ratelimit.py): the map of     *)
(* windows, check_and_increment and the answer of the middleware.  Time is counted *)
(* in steps, PerSecond of them to a second, because Retry-After rounds to seconds. *)
(***********************************************************************************)
EXTENDS Integers, Sequences, FiniteSets

CONSTANTS
    Clients,       \* "<identity>|<method>|<path>" keys
    Quota,         \* requests admitted in one window
    WindowSec,     \* length of a window, in seconds
    PerSecond,     \* steps of the clock in a second
    MaxWindows     \* _MAX_KEYS

ASSUME RateAssumption ==
    {Quota, WindowSec, PerSecond, MaxWindows} \subseteq Nat \ {0}

Window == WindowSec * PerSecond

VARIABLES
    windows,       \* _windows: per tracked key, the age and the count of its window
    admitted,      \* per key, the ages of its counted admissions, a window back
    told           \* per refused key, the steps it was told to wait and still has to

rateVars == <<windows, admitted, told>>

RateInit ==
    /\ windows = <<>>
    /\ admitted = [c \in Clients |-> <<>>]
    /\ told = <<>>

Tracked == DOMAIN windows

Expired(c) == windows[c].age >= Window

\* Mutant: any window makes room for a new key.
PrunedAll == <<>>

\* What is left when the map is full and a new key comes: the windows still open.
Pruned == [c \in {d \in Tracked : ~Expired(d)} |-> windows[c]]

\* The windows a new window can be added to.
Base(c) ==
    IF c \notin Tracked /\ Cardinality(Tracked) >= MaxWindows THEN Pruned ELSE windows

\* Mutant: the wait is rounded down.
CeilSecondsDown(steps) == steps \div PerSecond

CeilSeconds(steps) == (steps + PerSecond - 1) \div PerSecond

RetryAfter(c) ==
    LET wait == CeilSeconds(Window - windows[c].age) IN IF wait < 1 THEN 1 ELSE wait

\* Mutant: the request that reaches the limit is let through once more.
RefusedAbove(c) == c \in Tracked /\ ~Expired(c) /\ windows[c].count > Quota

Refused(c) == c \in Tracked /\ ~Expired(c) /\ windows[c].count >= Quota

\* A map full of open windows lets a new key through and does not remember it.
FailsOpen(c) == c \notin Tracked /\ Cardinality(DOMAIN Base(c)) >= MaxWindows

\* A map after the assignment of a key.
With(map, c, entry) ==
    [d \in DOMAIN map \cup {c} |-> IF d = c THEN entry ELSE map[d]]

Without(c) == [d \in DOMAIN told \ {c} |-> told[d]]

Admit(c) ==
    /\ admitted' = [admitted EXCEPT ![c] = <<0>> \o @]
    /\ told' = Without(c)

-------------------------------------------------------------------------------------
(* check_and_increment, one action per return.                                     *)

Refuse(c) ==
    /\ Refused(c)
    /\ told' = With(told, c, RetryAfter(c) * PerSecond)
    /\ UNCHANGED <<windows, admitted>>

Count(c) ==
    /\ c \in Tracked /\ ~Expired(c) /\ ~Refused(c)
    /\ windows' = [windows EXCEPT ![c].count = @ + 1]
    /\ Admit(c)

OpenWindow(c) ==
    /\ c \in Tracked => Expired(c)
    /\ ~FailsOpen(c)
    /\ windows' = With(Base(c), c, [age |-> 0, count |-> 1])
    /\ Admit(c)

LetThrough(c) ==
    /\ FailsOpen(c)
    /\ windows' = Base(c)
    /\ told' = Without(c)
    /\ UNCHANGED admitted

\* What is older than a window can no longer be told apart.
Aged(ages) ==
    LET young == {i \in DOMAIN ages : ages[i] + 1 < Window} IN [i \in young |-> ages[i] + 1]

RateClock ==
    /\ windows' = [c \in Tracked |->
                     [windows[c] EXCEPT !.age = IF @ < Window THEN @ + 1 ELSE @]]
    /\ admitted' = [c \in Clients |-> Aged(admitted[c])]
    /\ told' = [c \in DOMAIN told |-> IF told[c] > 0 THEN told[c] - 1 ELSE 0]

RateNext ==
    \/ RateClock
    \/ \E c \in Clients : Refuse(c) \/ Count(c) \/ OpenWindow(c) \/ LetThrough(c)

RateSpec == RateInit /\ [][RateNext]_rateVars

-------------------------------------------------------------------------------------
(* Properties.                                                                     *)

\* The map never outgrows its bound and no window counts beyond the limit.
RateTypeOK ==
    /\ Tracked \subseteq Clients /\ Cardinality(Tracked) <= MaxWindows
    /\ \A c \in Tracked : windows[c] \in [age : 0..Window, count : 1..Quota]
    /\ \A c \in Clients : \A i \in DOMAIN admitted[c] : admitted[c][i] \in 0..Window - 1
    /\ DOMAIN told \subseteq Clients
    /\ \A c \in DOMAIN told : told[c] \in 0..Window + PerSecond

\* Two windows can meet, but no key is admitted twice the limit within the length of
\* one: its second window opens only when the first is over, and other keys that need
\* room in a full map never make it forget a window that is still open.  (What a full
\* map lets through untracked is not counted: the code has no limit there.)
NeverTwiceTheLimit ==
    \A c \in Clients : Len(admitted[c]) < 2 * Quota

\* A client that waits as long as its 429 said, and sends nothing meanwhile, is
\* admitted: the rounding of Retry-After never falls short of the window.
WaitIsEnough ==
    \A c \in DOMAIN told : told[c] = 0 => ~Refused(c)

=====================================================================================
