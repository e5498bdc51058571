----------------------------- MODULE CaddyConfig -----------------------------
(***************************************************************************)
(* internal/proxy/proxy.go: the routes of the applications and of the      *)
(* dashboard, when they conflict, and the list of matchers the manager     *)
(* builds from them.  Caddy goes through the list and takes the first      *)
(* matcher that fits.                                                      *)
(*                                                                         *)
(* A pattern of ParseDomainRoute always ends in "/*": it is the sequence   *)
(* of the segments before that, <<>> for the catch-all, and fits the paths *)
(* that begin with them ("/api/*" and its twin "/api").                    *)
(***************************************************************************)
EXTENDS Naturals, Sequences, SequencesExt

CONSTANTS
    Apps,          \* applications
    Hosts,         \* host names; numbers, for the list is sorted by them
    Segments,      \* what stands between two slashes of a path
    Paths,         \* patterns and paths of requests: sequences of segments
    Upstreams,     \* addresses of containers
    PathBytes,     \* the length of each pattern as text, in bytes
    Dashboard,     \* owner of the dashboard's route, and its target
    None           \* no route, no host, no configuration

ASSUME ConfigAssumption ==
    /\ Hosts \subseteq Nat
    /\ <<>> \in Paths /\ Paths \subseteq Seq(Segments)
    /\ PathBytes \in [Paths -> Nat]
    /\ \A p, q \in Paths : IsPrefix(p, q) /\ p # q => PathBytes[p] < PathBytes[q]
    /\ Dashboard \notin Apps
    /\ None \notin Apps \cup {Dashboard}

Owners == Apps \cup {Dashboard}

\* What one owner asks to be served: at which hosts and patterns, and by whom.
\* ValidateRoute admits no route without a domain, or to an address of the host.
Route == [domains: (SUBSET (Hosts \X Paths)) \ {{}}, upstream: Upstreams \cup {Dashboard}]

\* dashboardDomain and dashboardTarget, as a route of their own.
DashboardRoute(h) == [domains |-> {<<h, <<>>>>}, upstream |-> Dashboard]

\* A table of routes; the configuration built from it is a function of it.
Table == [Owners -> Route \cup {None}]
EmptyTable == [o \in Owners |-> None]

\* Two applications may not have one host and pattern (ValidateRoutes); the
\* dashboard is not looked at.
ValidateRoutes(table) ==
    \A a, b \in Apps :
        a # b /\ table[a] # None /\ table[b] # None =>
            table[a].domains \cap table[b].domains = {}

-----------------------------------------------------------------------------
\* The matchers of the applications, and that of the dashboard, which looks at
\* the host only.
AppItems(table) ==
    UNION {{[owner |-> a, host |-> d[1], path |-> d[2]] : d \in table[a].domains} :
              a \in {b \in Apps : table[b] # None}}

DashboardItems(table) ==
    IF table[Dashboard] = None THEN {}
    ELSE {[owner |-> Dashboard, host |-> d[1], path |-> <<>>] : d \in table[Dashboard].domains}

BuildCaddyConfig(table) == DashboardItems(table) \cup AppItems(table)

\* Mutant of SpecificBefore: the shortest pattern first.
ShorterBefore(x, y) ==
    \/ PathBytes[x.path] < PathBytes[y.path]
    \/ PathBytes[x.path] = PathBytes[y.path] /\ x.host < y.host

\* The longest pattern first, then by host.  How the code breaks the remaining
\* ties tells no requests apart: two patterns of one length and one host fit no
\* common path, unless they are the same.
SpecificBefore(x, y) ==
    \/ PathBytes[x.path] > PathBytes[y.path]
    \/ PathBytes[x.path] = PathBytes[y.path] /\ x.host < y.host

CatchAllBefore(x, y) == x.host < y.host

\* The order of the list: the dashboard, the specific patterns, the catch-alls.
Rank(x) == IF x.owner = Dashboard THEN 0 ELSE IF x.path # <<>> THEN 1 ELSE 2

ComesBefore(x, y) ==
    \/ Rank(x) < Rank(y)
    \/ Rank(x) = 1 /\ Rank(y) = 1 /\ SpecificBefore(x, y)
    \/ Rank(x) = 2 /\ Rank(y) = 2 /\ CatchAllBefore(x, y)

Fits(x, host, path) == x.host = host /\ IsPrefix(x.path, path)

\* Who answers a request when Caddy has the list: the first matcher that fits,
\* for each is terminal.
Answers(table, host, path) ==
    LET fitting == {x \in BuildCaddyConfig(table) : Fits(x, host, path)}
    IN IF fitting = {} THEN None
       ELSE (CHOOSE x \in fitting : \A y \in fitting : ~ComesBefore(y, x)).owner

\* Who should answer it: the dashboard on its own host, else the application
\* with the most specific of the patterns that fit.
Fitting(table, host, path) == {x \in AppItems(table) : Fits(x, host, path)}

ShouldAnswer(table, host, path) ==
    IF table[Dashboard] # None /\ <<host, <<>>>> \in table[Dashboard].domains
    THEN {Dashboard}
    ELSE LET fitting == Fitting(table, host, path) IN
         IF fitting = {} THEN {None}
         ELSE {x.owner : x \in {y \in fitting : \A z \in fitting : Len(z.path) <= Len(y.path)}}

=============================================================================
