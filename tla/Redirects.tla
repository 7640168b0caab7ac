----------------------------- MODULE Redirects -----------------------------
(***************************************************************************)
(* Redirects of the site: those an admin edits, those the system registers *)
(* when a stylist's username changes, and the flattened map the site       *)
(* serves.  fromPath is unique, so the collection is a function.           *)
(***************************************************************************)
EXTENDS Integers, FiniteSets

CONSTANTS
    Paths,        \* normalized paths
    Pages,        \* stylists, by their profile pages
    Requests,     \* calls of admins and of username changes
    MaxChain,     \* MAX_CHAIN
    NoPath, NoPage

ASSUME RedirectAssumption == MaxChain \in Nat /\ NoPath \notin Paths /\ NoPage \notin Pages

VARIABLES
    target,       \* toPath of the redirect of each path
    address,      \* the path of each stylist's page
    request,      \* what each call is at
    lastHolder,   \* whose page a path was last
    undisturbed   \* no admin edited redirects, no call was cut off, and username
                  \* changes came one after the other

redirectVars == <<target, address, request, lastHolder, undisturbed>>

Waiting == [op |-> "none"]
Calls == [op : {"create", "update", "find", "drop", "flatten", "point"}, from : Paths, to : Paths]

RedirectTypeOK ==
    /\ target \in [Paths -> Paths \cup {NoPath}]
    /\ address \in [Pages -> Paths]
    /\ request \in [Requests -> Calls \cup {Waiting}]
    /\ lastHolder \in [Paths -> Pages \cup {NoPage}]
    /\ undisturbed \in BOOLEAN

RedirectInit ==
    /\ target = [p \in Paths |-> NoPath]
    /\ address \in [Pages -> Paths]
    /\ \A a, b \in Pages : a # b => address[a] # address[b]
    /\ request = [r \in Requests |-> Waiting]
    /\ lastHolder = [p \in Paths |-> IF \E a \in Pages : address[a] = p
                                     THEN CHOOSE a \in Pages : address[a] = p ELSE NoPage]
    /\ undisturbed = TRUE

\* the paths from p on, NoPath after the last
Trail(p) ==
    LET at[n \in 0 .. MaxChain + 1] ==
            IF n = 0 THEN p ELSE IF at[n - 1] = NoPath THEN NoPath ELSE target[at[n - 1]]
    IN  at

-----------------------------------------------------------------------------
(* Edits of an admin *)

\* the walk accepts at the first path that is ignored or has no redirect
AssertNoCycle(from, to, ignored) ==
    LET at == Trail(to)
        seen(n) == {from} \cup {at[k] : k \in 0 .. n - 1}
    IN  /\ from # to
        /\ \E n \in 0 .. MaxChain :
              /\ at[n] \in ignored \/ (at[n] \notin seen(n) /\ at[n] # NoPath /\ at[n + 1] = NoPath)
              /\ \A k \in 0 .. n - 1 : at[k] \notin ignored \cup seen(k)

Begin(r, call) == request[r] = Waiting /\ request' = [request EXCEPT ![r] = call]
End(r) == request' = [request EXCEPT ![r] = Waiting]

CreateRedirect(r, from, to) ==
    /\ AssertNoCycle(from, to, {})
    /\ target[from] = NoPath
    /\ Begin(r, [op |-> "create", from |-> from, to |-> to])
    /\ undisturbed' = FALSE
    /\ UNCHANGED <<target, address, lastHolder>>

\* the edited row's own edge is skipped, and so is the rest of the chain behind it
UpdateRedirect(r, from, to) ==
    /\ target[from] # NoPath
    /\ AssertNoCycle(from, to, {from})
    /\ Begin(r, [op |-> "update", from |-> from, to |-> to])
    /\ undisturbed' = FALSE
    /\ UNCHANGED <<target, address, lastHolder>>

\* the insert fails on the unique index, the save on a row that is gone
SaveRedirect(r) ==
    LET from == request[r].from IN
    /\ \/ request[r].op = "create" /\ target' = [target EXCEPT ![from] = IF @ = NoPath THEN request[r].to ELSE @]
       \/ request[r].op = "update" /\ target' = [target EXCEPT ![from] = IF @ = NoPath THEN @ ELSE request[r].to]
    /\ End(r)
    /\ UNCHANGED <<address, lastHolder, undisturbed>>

DeleteRedirect(from) ==
    /\ target[from] # NoPath
    /\ target' = [target EXCEPT ![from] = NoPath]
    /\ undisturbed' = FALSE
    /\ UNCHANGED <<address, request, lastHolder>>

-----------------------------------------------------------------------------
(* A username changes: the profile is saved, then its old path is redirected *)

Rename(r, page, to) ==
    /\ to # address[page]
    /\ \A other \in Pages : address[other] # to
    /\ Begin(r, [op |-> "find", from |-> address[page], to |-> to])
    /\ address' = [address EXCEPT ![page] = to]
    /\ lastHolder' = [lastHolder EXCEPT ![to] = page]
    /\ undisturbed' = (undisturbed /\ \A q \in Requests : request[q] = Waiting)
    /\ UNCHANGED target

Step(r, op) == request' = [request EXCEPT ![r].op = op]

FindAutoRedirect(r) ==
    /\ request[r].op = "find"
    /\ IF target[request[r].from] = request[r].to THEN End(r) ELSE Step(r, "drop")
    /\ UNCHANGED <<target, address, lastHolder, undisturbed>>

\* the stale redirect of a live page is kept
KeepStaleRedirect(r) ==
    /\ request[r].op = "drop"
    /\ Step(r, "flatten")
    /\ UNCHANGED <<target, address, lastHolder, undisturbed>>

DropStaleRedirect(r) ==
    /\ request[r].op = "drop"
    /\ target' = [target EXCEPT ![request[r].to] = NoPath]
    /\ Step(r, "flatten")
    /\ UNCHANGED <<address, lastHolder, undisturbed>>

FlattenRedirects(r) ==
    /\ request[r].op = "flatten"
    /\ target' = [p \in Paths |-> IF target[p] = request[r].from THEN request[r].to ELSE target[p]]
    /\ Step(r, "point")
    /\ UNCHANGED <<address, lastHolder, undisturbed>>

PointRedirect(r) ==
    /\ request[r].op = "point"
    /\ target' = [target EXCEPT ![request[r].from] = request[r].to]
    /\ End(r)
    /\ UNCHANGED <<address, lastHolder, undisturbed>>

CrashRequest(r) ==
    /\ request[r] # Waiting
    /\ End(r)
    /\ undisturbed' = FALSE
    /\ UNCHANGED <<target, address, lastHolder>>

-----------------------------------------------------------------------------
(* The map for the site *)

\* the walk from toPath ends before MAX_CHAIN hops, or at a path without a redirect
GetRedirectMap ==
    LET walk(from) == Trail(target[from])
        ends(from, n) == walk(from)[n] # NoPath /\ walk(from)[n + 1] = NoPath
        loops(from, n) == \E k \in 0 .. n - 1 :
            target[walk(from)[k]] # NoPath /\ walk(from)[k] \in {from} \cup {walk(from)[j] : j \in 0 .. k - 1}
    IN  {hop \in Paths \X Paths :
            /\ target[hop[1]] # NoPath
            /\ hop[1] # hop[2]
            /\ \E n \in 0 .. MaxChain : ends(hop[1], n) /\ hop[2] = walk(hop[1])[n] /\ ~loops(hop[1], n)}

RedirectNext ==
    \/ \E from \in Paths : DeleteRedirect(from)
    \/ \E r \in Requests :
          \/ \E from, to \in Paths : CreateRedirect(r, from, to) \/ UpdateRedirect(r, from, to)
          \/ \E page \in Pages, to \in Paths : Rename(r, page, to)
          \/ SaveRedirect(r) \/ FindAutoRedirect(r) \/ DropStaleRedirect(r) \/ FlattenRedirects(r)
          \/ PointRedirect(r) \/ CrashRequest(r)

RedirectSpec == RedirectInit /\ [][RedirectNext]_redirectVars

-----------------------------------------------------------------------------
(* Properties *)

\* what is served lands, along the redirects, on a path that has none itself, also
\* when edits closed a loop or drew a chain out; who lands directly is served
ServedInOneHop ==
    /\ \A hop \in GetRedirectMap :
          /\ target[hop[2]] = NoPath
          /\ \E p \in Paths : target[p] = hop[2]
          /\ \A other \in GetRedirectMap : other[1] = hop[1] => other = hop
    /\ \A from \in Paths : target[from] # NoPath /\ target[from] # from /\ target[target[from]] = NoPath
          => <<from, target[from]>> \in GetRedirectMap

(* "The browser always gets a single hop", and "keep the previous profile URL *)
(* alive": while only usernames change, one after the other, no live page is  *)
(* hidden by a redirect, and every path that was a page is served to where    *)
(* its last holder's page is now.                                             *)
OldAddressesLeadHome ==
    /\ ServedInOneHop
    /\ undisturbed /\ (\A r \in Requests : request[r] = Waiting) =>
        /\ \A a \in Pages : target[address[a]] = NoPath
        /\ \A p \in Paths : lastHolder[p] # NoPage /\ address[lastHolder[p]] # p
              => <<p, address[lastHolder[p]]>> \in GetRedirectMap
=============================================================================
