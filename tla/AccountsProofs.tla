--------------------------- MODULE AccountsProofs ---------------------------
(***************************************************************************)
(* That redirects lead home, that the wallet is the sum of its history, that *)
(* roles keep their backing, that what is approved was reviewed, and that a *)
(* session never has two tokens which can be used, unless one of its tokens *)
(* was exchanged twice at once, and none after a logout: for any number of *)
(* accounts, names, tokens, images and calls.                              *)
(***************************************************************************)
EXTENDS Redirects, Sessions, IdentityReview, Onboarding, Wallet, FinanceProofs

(* Redirects                                                               *)

Ends == Paths \cup {NoPath}
Hop(p) == IF p = NoPath THEN NoPath ELSE target[p]
Walks(at, p, n) ==
    at = [k \in 0 .. n |-> IF k = 0 THEN p ELSE IF at[k - 1] = NoPath THEN NoPath ELSE target[at[k - 1]]]

\* There is a walk of any length, within the paths.
LEMMA WalkExists ==
  ASSUME RedirectTypeOK, NEW p \in Ends
  PROVE  \A n \in Nat : \E at \in [0 .. n -> Ends] : Walks(at, p, n)
  <1> DEFINE Walked(n) == \E at \in [0 .. n -> Ends] : Walks(at, p, n)
             T == {n \in Nat : ~Walked(n)}
  <1>1. ASSUME T # {}
        PROVE  FALSE
    <2>1. PICK n \in T : \A k \in T : n <= k
      <3> T \in SUBSET Nat
        OBVIOUS
      <3> HIDE DEF T
      <3>1. QED
        BY <1>1, LeastOf
    <2>2. n # 0
      <3>1. Walks([k \in 0 .. 0 |-> p], p, 0)
        BY DEF Walks
      <3>2. Walked(0)
        BY <3>1
      <3>3. QED
        BY <3>2
    <2>3. n - 1 \in Nat /\ Walked(n - 1)
      <3>1. n - 1 \in Nat /\ ~(n <= n - 1)
        BY <2>2
      <3>2. n - 1 \notin T
        BY <2>1, <3>1
      <3> HIDE DEF Walked
      <3>3. QED
        BY <3>1, <3>2
    <2>4. PICK at \in [0 .. n - 1 -> Ends] : Walks(at, p, n - 1)
      BY <2>3
    <2> DEFINE on == [k \in 0 .. n |-> IF k = n THEN Hop(at[n - 1]) ELSE at[k]]
    <2>5. Hop(at[n - 1]) \in Ends
      BY <2>3 DEF Hop, Ends, RedirectTypeOK
    <2>6. on \in [0 .. n -> Ends]
      BY <2>3, <2>5
    <2>7. ASSUME NEW k \in 0 .. n
          PROVE  on[k] = IF k = 0 THEN p ELSE IF on[k - 1] = NoPath THEN NoPath ELSE target[on[k - 1]]
      <3>1. CASE k = n
        <4>1. n - 1 \in 0 .. n - 1 /\ n - 1 # n /\ k # 0
          BY <2>2, <2>3, <3>1
        <4>2. on[k - 1] = at[n - 1] /\ on[k] = Hop(at[n - 1])
          BY <3>1, <4>1
        <4>3. QED
          BY <4>1, <4>2 DEF Hop
      <3>2. CASE k # n /\ k # 0
        <4>1. k \in 0 .. n - 1 /\ k - 1 \in 0 .. n - 1 /\ k - 1 # n
          BY <3>2
        <4>2. on[k] = at[k] /\ on[k - 1] = at[k - 1]
          BY <3>2, <4>1
        <4>3. at[k] = IF at[k - 1] = NoPath THEN NoPath ELSE target[at[k - 1]]
          BY <2>4, <3>2, <4>1 DEF Walks
        <4>4. QED
          BY <3>2, <4>2, <4>3
      <3>3. CASE k = 0
        <4>1. 0 \in 0 .. n - 1 /\ 0 # n
          BY <2>2, <2>3
        <4>2. on[0] = at[0] /\ at[0] = p
          BY <2>4, <4>1 DEF Walks
        <4>3. QED
          BY <3>3, <4>2
      <3>4. QED
        BY <3>1, <3>2, <3>3
    <2>8. Walks(on, p, n)
      BY <2>7 DEF Walks
    <2>9. QED
      BY <2>6, <2>8
  <1>2. QED
    BY <1>1

\* Trail is that walk.
LEMMA TrailIsWalk ==
  ASSUME RedirectTypeOK, NEW p \in Ends
  PROVE  /\ Trail(p)[0] = p
         /\ \A n \in 0 .. MaxChain + 1 : Trail(p)[n] \in Ends
         /\ \A n \in 0 .. MaxChain : Trail(p)[n + 1] = Hop(Trail(p)[n])
  <1>1. MaxChain + 1 \in Nat
    BY RedirectAssumption
  <1>2. PICK w \in [0 .. MaxChain + 1 -> Ends] : Walks(w, p, MaxChain + 1)
    BY <1>1, WalkExists
  <1>3. Trail(p) = CHOOSE at : Walks(at, p, MaxChain + 1)
    BY DEF Trail, Walks
  <1>4. Walks(Trail(p), p, MaxChain + 1)
    BY <1>2, <1>3
  <1> DEFINE at == Trail(p)
  <1>5. \A k \in 0 .. MaxChain + 1 : at[k] = IF k = 0 THEN p ELSE Hop(at[k - 1])
    <2> HIDE DEF at
    <2>1. QED
      BY <1>4 DEF Walks, Hop, at
  <1>6. at[0] = p
    BY <1>1, <1>5
  <1>7. ASSUME NEW n \in 0 .. MaxChain
        PROVE  at[n + 1] = Hop(at[n])
    <2>1. n + 1 \in 0 .. MaxChain + 1 /\ n + 1 # 0 /\ (n + 1) - 1 = n
      BY RedirectAssumption
    <2> HIDE DEF at
    <2>2. QED
      BY <1>5, <2>1
  <1>8. ASSUME NEW n \in 0 .. MaxChain + 1
        PROVE  at[n] \in Ends
    <2> DEFINE T == {k \in 0 .. MaxChain + 1 : at[k] \notin Ends}
    <2>1. ASSUME T # {}
          PROVE  FALSE
      <3>1. PICK k \in T : \A j \in T : k <= j
        <4> T \in SUBSET Nat
          OBVIOUS
        <4> HIDE DEF T
        <4>1. QED
          BY <2>1, LeastOf
      <3>2. k \in 0 .. MaxChain + 1 /\ at[k] \notin Ends /\ k # 0
        BY <1>6
      <3>3. k - 1 \in 0 .. MaxChain + 1 /\ k - 1 \notin T
        BY <3>1, <3>2, <1>1
      <3>4. at[k - 1] \in Ends
        BY <3>3
      <3>5. at[k] = Hop(at[k - 1])
        BY <1>5, <3>2
      <3>6. QED
        BY <3>2, <3>4, <3>5 DEF Hop, Ends, RedirectTypeOK
    <2>2. QED
      BY <2>1
  <1>9. QED
    BY <1>6, <1>7, <1>8

-----------------------------------------------------------------------------
(* What the map serves *)

Landing(from, n) == Trail(target[from])[n]

\* A hop of the map: where the walk from its redirect ends.
LEMMA MapHops ==
  ASSUME NEW hop \in GetRedirectMap
  PROVE  /\ hop \in Paths \X Paths
         /\ target[hop[1]] # NoPath /\ hop[1] # hop[2]
         /\ \E n \in 0 .. MaxChain : /\ hop[2] = Landing(hop[1], n) /\ Landing(hop[1], n) # NoPath
                                     /\ Landing(hop[1], n + 1) = NoPath
  BY DEF GetRedirectMap, Landing

\* A walk ends once: past its end there is nothing.
LEMMA OneEnd ==
  ASSUME RedirectTypeOK, NEW p \in Ends, NEW n \in 0 .. MaxChain, Trail(p)[n + 1] = NoPath
  PROVE  \A m \in n + 1 .. MaxChain : Trail(p)[m] = NoPath
  <1> DEFINE at == Trail(p)
             T == {m \in n + 1 .. MaxChain : at[m] # NoPath}
  <1>0. n \in Nat /\ MaxChain \in Nat
    BY RedirectAssumption
  <1>1. ASSUME T # {}
        PROVE  FALSE
    <2>1. PICK m \in T : \A k \in T : m <= k
      <3> T \in SUBSET Nat
        BY <1>0
      <3> HIDE DEF T
      <3>1. QED
        BY <1>1, LeastOf
    <2>2. m \in n + 1 .. MaxChain /\ at[m] # NoPath /\ m # n + 1
      OBVIOUS
    <2>3. m - 1 \in n + 1 .. MaxChain /\ m - 1 \in 0 .. MaxChain /\ (m - 1) + 1 = m /\ ~(m <= m - 1)
      BY <1>0, <2>2
    <2>4. at[m - 1] = NoPath
      BY <2>1, <2>3
    <2>5. at[m] = Hop(at[m - 1])
      <3>1. at[(m - 1) + 1] = Hop(at[m - 1])
        BY <2>3, TrailIsWalk
      <3>2. QED
        BY <2>3, <3>1
    <2>6. QED
      BY <2>2, <2>4, <2>5 DEF Hop
  <1>2. QED
    BY <1>1

\* "The browser always gets a single hop" (redirect.service.ts): what is served
\* lands on a path without a redirect, a path is served once, and who lands
\* directly is served.  It holds of any collection of redirects.
LEMMA MapServesOneHop ==
  ASSUME RedirectTypeOK
  PROVE  ServedInOneHop
  <1>0. MaxChain \in Nat
    BY RedirectAssumption
  <1>1. ASSUME NEW hop \in GetRedirectMap
        PROVE  /\ target[hop[2]] = NoPath
               /\ \E p \in Paths : target[p] = hop[2]
    <2>1. /\ hop[1] \in Paths /\ hop[2] \in Paths /\ hop[2] # NoPath /\ target[hop[1]] \in Ends
      BY <1>1, MapHops, RedirectAssumption DEF RedirectTypeOK, Ends
    <2>2. PICK n \in 0 .. MaxChain : hop[2] = Landing(hop[1], n) /\ Landing(hop[1], n + 1) = NoPath
      BY <1>1, MapHops
    <2>3. Landing(hop[1], n + 1) = Hop(hop[2])
      BY <2>1, <2>2, TrailIsWalk DEF Landing
    <2>4. target[hop[2]] = NoPath
      BY <2>1, <2>2, <2>3 DEF Hop
    <2>5. CASE n = 0
      BY <2>1, <2>2, <2>4, <2>5, TrailIsWalk DEF Landing
    <2>6. CASE n # 0
      <3>1. n - 1 \in 0 .. MaxChain /\ n - 1 \in 0 .. MaxChain + 1 /\ (n - 1) + 1 = n
        BY <1>0, <2>6
      <3>2. Landing(hop[1], (n - 1) + 1) = Hop(Landing(hop[1], n - 1)) /\ Landing(hop[1], n - 1) \in Ends
        BY <2>1, <3>1, TrailIsWalk DEF Landing
      <3>3. hop[2] = Hop(Landing(hop[1], n - 1))
        BY <2>2, <3>1, <3>2
      <3>4. QED
        BY <2>1, <2>4, <3>2, <3>3 DEF Hop, Ends
    <2>7. QED
      BY <2>4, <2>5, <2>6
  <1>2. ASSUME NEW hop \in GetRedirectMap, NEW other \in GetRedirectMap, other[1] = hop[1]
        PROVE  other = hop
    <2>1. /\ hop \in Paths \X Paths /\ other \in Paths \X Paths /\ target[hop[1]] \in Ends
      BY <1>2, MapHops DEF RedirectTypeOK, Ends
    <2>2. PICK n \in 0 .. MaxChain :
             /\ hop[2] = Landing(hop[1], n) /\ Landing(hop[1], n) # NoPath /\ Landing(hop[1], n + 1) = NoPath
      BY <1>2, MapHops
    <2>3. PICK m \in 0 .. MaxChain :
             /\ other[2] = Landing(hop[1], m) /\ Landing(hop[1], m) # NoPath /\ Landing(hop[1], m + 1) = NoPath
      BY <1>2, MapHops
    <2>4. ~(m \in n + 1 .. MaxChain) /\ ~(n \in m + 1 .. MaxChain)
      BY <2>1, <2>2, <2>3, OneEnd DEF Landing
    <2>5. m = n
      BY <1>0, <2>4
    <2>6. QED
      BY <2>1, <2>2, <2>3, <2>5, <1>2
  <1>3. ASSUME NEW from \in Paths, target[from] # NoPath, target[from] # from, target[target[from]] = NoPath
        PROVE  <<from, target[from]>> \in GetRedirectMap
    <2>1. target[from] \in Paths /\ target[from] \in Ends
      BY <1>3 DEF RedirectTypeOK, Ends
    <2>2. 0 \in 0 .. MaxChain /\ 0 + 1 = 1 /\ \A k \in 0 .. 0 - 1 : FALSE
      BY <1>0
    <2>3. Trail(target[from])[0] = target[from] /\ Trail(target[from])[0 + 1] = Hop(target[from])
      BY <2>1, <2>2, TrailIsWalk
    <2>4. Hop(target[from]) = NoPath
      BY <1>3 DEF Hop
    <2>5. QED
      BY <1>3, <2>1, <2>2, <2>3, <2>4 DEF GetRedirectMap
  <1>4. QED
    BY <1>1, <1>2, <1>3 DEF ServedInOneHop

-----------------------------------------------------------------------------
(* Usernames that change one after the other *)

\* Pages have addresses of their own, and an address was last theirs.
Addressed ==
    /\ \A a, b \in Pages : a # b => address[a] # address[b]
    /\ \A a \in Pages : lastHolder[address[a]] = a

\* No live page is hidden, and every path that was a page leads to where its
\* last holder's page is now.
Homed ==
    /\ \A a \in Pages : target[address[a]] = NoPath
    /\ \A p \in Paths : lastHolder[p] # NoPage /\ address[lastHolder[p]] # p => target[p] = address[lastHolder[p]]

\* What a change of username that runs alone has done, and has still to do.
Moving(op, from, to) ==
    /\ op \in {"find", "drop", "flatten", "point"}
    /\ from # to /\ target[from] = NoPath
    /\ \A a \in Pages : address[a] # from /\ (address[a] # to => target[address[a]] = NoPath)
    /\ op \in {"flatten", "point"} => target[to] = NoPath
    /\ lastHolder[from] \in Pages /\ address[lastHolder[from]] = to
    /\ \A p \in Paths \ {from} : lastHolder[p] # NoPage /\ address[lastHolder[p]] # p =>
          target[p] = IF address[lastHolder[p]] = to /\ op # "point" THEN from ELSE address[lastHolder[p]]

Undisturbed ==
    /\ \A q, r \in Requests : request[q] # Waiting /\ request[r] # Waiting => q = r
    /\ (\A r \in Requests : request[r] = Waiting) => Homed
    /\ \A r \in Requests : request[r] # Waiting => Moving(request[r].op, request[r].from, request[r].to)

RedirectInv == RedirectTypeOK /\ Addressed /\ (undisturbed => Undisturbed)

\* Calls that are of a request, and those that are waiting.
LEMMA RequestKinds ==
  ASSUME RedirectTypeOK, NEW r \in Requests
  PROVE  /\ request[r].op # "none" => request[r] \in Calls
         /\ request[r] # Waiting <=> request[r].op # "none"
         /\ Waiting.op = "none"
  BY DEF RedirectTypeOK, Calls, Waiting

\* Edits of an admin, and whatever cuts a call off, disturb.
LEMMA DisturbingStep ==
  ASSUME RedirectInv, RedirectTypeOK', address' = address, lastHolder' = lastHolder, undisturbed' = FALSE
  PROVE  RedirectInv'
  BY DEF RedirectInv, Addressed

\* Every step leaves redirects in their types.
LEMMA RedirectTypeStep ==
  ASSUME RedirectTypeOK, [RedirectNext]_redirectVars
  PROVE  RedirectTypeOK'
  <1> USE DEF RedirectTypeOK, Begin, End, Step
  <1>1. ASSUME NEW from \in Paths, DeleteRedirect(from)
        PROVE  RedirectTypeOK'
    BY <1>1 DEF DeleteRedirect
  <1>2. ASSUME NEW r \in Requests, NEW from \in Paths, NEW to \in Paths, CreateRedirect(r, from, to) \/ UpdateRedirect(r, from, to)
        PROVE  RedirectTypeOK'
    <2>1. PICK c \in Calls : request' = [request EXCEPT ![r] = c] /\ undisturbed' = FALSE /\ UNCHANGED <<target, address, lastHolder>>
      <3>1. \A op \in {"create", "update"} : [op |-> op, from |-> from, to |-> to] \in Calls
        BY DEF Calls
      <3>2. QED
        BY <1>2, <3>1 DEF CreateRedirect, UpdateRedirect
    <2>2. QED
      BY <2>1
  <1>3. ASSUME NEW r \in Requests, NEW page \in Pages, NEW to \in Paths, Rename(r, page, to)
        PROVE  RedirectTypeOK'
    <2>1. [op |-> "find", from |-> address[page], to |-> to] \in Calls
      BY DEF Calls
    <2>2. QED
      BY <1>3, <2>1 DEF Rename
  <1>4. ASSUME NEW r \in Requests, SaveRedirect(r) \/ CrashRequest(r)
        PROVE  RedirectTypeOK'
    BY <1>4, RequestKinds DEF SaveRedirect, CrashRequest, Calls
  <1>5. ASSUME NEW r \in Requests, FindAutoRedirect(r) \/ DropStaleRedirect(r) \/ FlattenRedirects(r) \/ PointRedirect(r)
        PROVE  RedirectTypeOK'
    <2>1. request[r] \in Calls
      BY <1>5, RequestKinds DEF FindAutoRedirect, DropStaleRedirect, FlattenRedirects, PointRedirect
    <2>2. \A op \in {"drop", "flatten", "point"} : [request EXCEPT ![r].op = op] \in [Requests -> Calls \cup {Waiting}]
      BY <2>1 DEF Calls
    <2>3. QED
      BY <1>5, <2>1, <2>2 DEF FindAutoRedirect, DropStaleRedirect, FlattenRedirects, PointRedirect, Calls
  <1>6. CASE UNCHANGED redirectVars
    BY <1>6 DEF redirectVars
  <1>7. QED
    BY <1>1, <1>2, <1>3, <1>4, <1>5, <1>6 DEF RedirectNext

\* A username changes while nothing else runs.
LEMMA MoveStep ==
  ASSUME RedirectInv, RedirectTypeOK', NEW r \in Requests, NEW page \in Pages, NEW to \in Paths, Rename(r, page, to)
  PROVE  RedirectInv'
  <1> USE DEF RedirectTypeOK
  <1> DEFINE found == [op |-> "find", from |-> address[page], to |-> to]
  <1>1. /\ to # address[page] /\ (\A other \in Pages : address[other] # to)
        /\ request[r] = Waiting /\ request' = [request EXCEPT ![r] = found]
        /\ address' = [address EXCEPT ![page] = to] /\ lastHolder' = [lastHolder EXCEPT ![to] = page]
        /\ undisturbed' = (undisturbed /\ \A q \in Requests : request[q] = Waiting)
        /\ target' = target
    BY DEF Rename, Begin
  <1>2. /\ address'[page] = to /\ \A a \in Pages \ {page} : address'[a] = address[a]
        /\ lastHolder'[to] = page /\ \A p \in Paths \ {to} : lastHolder'[p] = lastHolder[p]
        /\ address[page] \in Paths /\ lastHolder[address[page]] = page
    BY <1>1 DEF RedirectInv, Addressed
  <1>3. Addressed'
    BY <1>1, <1>2 DEF RedirectInv, Addressed
  <1>4. ASSUME undisturbed'
        PROVE  Undisturbed'
    <2>1. Homed /\ \A q \in Requests : request[q] = Waiting
      BY <1>1, <1>4 DEF RedirectInv, Undisturbed
    <2>2. request'[r] = found /\ \A q \in Requests \ {r} : request'[q] = Waiting
      BY <1>1, <2>1
    <2>3. found # Waiting
      BY DEF Waiting
    <2>4. PICK from \in Paths : from = address[page] /\ found = [op |-> "find", from |-> from, to |-> to]
      BY <1>2
    <2>5. \A a \in Pages : address'[a] # from /\ (address'[a] # to => target[address'[a]] = NoPath)
      BY <1>1, <1>2, <2>1, <2>4 DEF Homed, RedirectInv, Addressed
    <2>6. ASSUME NEW p \in Paths \ {from}, lastHolder'[p] # NoPage, address'[lastHolder'[p]] # p
          PROVE  target[p] = IF address'[lastHolder'[p]] = to THEN from ELSE address'[lastHolder'[p]]
      <3>1. p # to
        BY <1>2, <2>6
      <3>2. lastHolder'[p] = lastHolder[p] /\ lastHolder[p] \in Pages
        BY <1>2, <2>6, <3>1
      <3>3. CASE lastHolder[p] = page
        BY <1>2, <2>1, <2>4, <2>6, <3>2, <3>3 DEF Homed
      <3>4. CASE lastHolder[p] # page
        BY <1>1, <1>2, <2>1, <2>4, <2>6, <3>2, <3>4, RedirectAssumption DEF Homed
      <3>5. QED
        BY <3>3, <3>4
    <2>7. lastHolder'[from] = page /\ address'[page] = to /\ target[from] = NoPath /\ from # to
      BY <1>1, <1>2, <2>1, <2>4 DEF Homed
    <2>8. Moving("find", from, to)'
      BY <1>1, <2>2, <2>4, <2>5, <2>6, <2>7 DEF Moving
    <2>9. QED
      BY <2>2, <2>3, <2>4, <2>8 DEF Undisturbed
  <1>5. QED
    BY <1>3, <1>4 DEF RedirectInv

\* The only call under way goes one step on.
LEMMA MovingStep ==
  ASSUME RedirectInv, RedirectTypeOK', NEW r \in Requests,
         FindAutoRedirect(r) \/ DropStaleRedirect(r) \/ FlattenRedirects(r) \/ PointRedirect(r)
  PROVE  RedirectInv'
  <1>1. UNCHANGED <<address, lastHolder, undisturbed>>
    BY DEF FindAutoRedirect, DropStaleRedirect, FlattenRedirects, PointRedirect
  <1>2. Addressed'
    BY <1>1 DEF RedirectInv, Addressed
  <1>3. ASSUME undisturbed
        PROVE  Undisturbed'
    <2>1. Undisturbed /\ RedirectTypeOK
      BY <1>3 DEF RedirectInv
    <2>2. request[r] # Waiting /\ request[r] \in Calls
      BY <2>1, RequestKinds DEF FindAutoRedirect, DropStaleRedirect, FlattenRedirects, PointRedirect
    <2>3. PICK from \in Paths, to \in Paths : from = request[r].from /\ to = request[r].to
      BY <2>2 DEF Calls
    <2>4. Moving(request[r].op, from, to) /\ \A q \in Requests \ {r} : request[q] = Waiting
      BY <2>1, <2>2, <2>3 DEF Undisturbed
    <2>5. /\ from # to /\ target[from] = NoPath /\ to # NoPath
          /\ \A a \in Pages : address[a] \in Paths /\ address[a] # from /\ (address[a] # to => target[address[a]] = NoPath)
          /\ lastHolder[from] \in Pages /\ address[lastHolder[from]] = to
      BY <2>1, <2>4, RedirectAssumption DEF Moving, RedirectTypeOK
    <2>6. ASSUME NEW op \in {"drop", "flatten", "point"}, Step(r, op), Moving(op, from, to)'
          PROVE  Undisturbed'
      <3>1. request'[r].op = op /\ request'[r].from = from /\ request'[r].to = to /\ \A q \in Requests \ {r} : request'[q] = Waiting
        BY <2>1, <2>2, <2>3, <2>4, <2>6 DEF Step, RedirectTypeOK, Calls
      <3>2. request'[r] # Waiting
        BY <3>1 DEF Waiting
      <3>3. QED
        BY <2>6, <3>1, <3>2 DEF Undisturbed
    <2>7. CASE FindAutoRedirect(r)
      <3>1. request[r].op = "find" /\ Step(r, "drop") /\ target' = target
        BY <2>3, <2>5, <2>7 DEF FindAutoRedirect
      <3>2. Moving("drop", from, to)'
        BY <1>1, <2>4, <3>1 DEF Moving
      <3>3. QED
        BY <2>6, <3>1, <3>2
    <2>8. CASE DropStaleRedirect(r)
      <3>1. request[r].op = "drop" /\ Step(r, "flatten") /\ target' = [target EXCEPT ![to] = NoPath]
        BY <2>3, <2>8 DEF DropStaleRedirect
      <3>2. target'[to] = NoPath /\ \A p \in Paths \ {to} : target'[p] = target[p]
        BY <2>1, <3>1 DEF RedirectTypeOK
      <3>3. \A p \in Paths : lastHolder[p] # NoPage /\ address[lastHolder[p]] # p => p # to
        BY <2>5 DEF RedirectInv, Addressed
      <3>4. Moving("flatten", from, to)'
        BY <1>1, <2>4, <2>5, <3>1, <3>2, <3>3 DEF Moving
      <3>5. QED
        BY <2>6, <3>1, <3>4
    <2>9. CASE FlattenRedirects(r)
      <3>1. /\ request[r].op = "flatten" /\ Step(r, "point")
            /\ \A p \in Paths : target'[p] = IF target[p] = from THEN to ELSE target[p]
        BY <2>3, <2>9 DEF FlattenRedirects
      <3>2. target[to] = NoPath /\ from # NoPath
        BY <2>4, <3>1, RedirectAssumption DEF Moving
      <3>3. ASSUME NEW p \in Paths \ {from}, lastHolder[p] # NoPage, address[lastHolder[p]] # p
            PROVE  target'[p] = address[lastHolder[p]]
        <4>1. target[p] = IF address[lastHolder[p]] = to THEN from ELSE address[lastHolder[p]]
          BY <2>4, <3>1, <3>3 DEF Moving
        <4>2. lastHolder[p] \in Pages
          BY <2>1, <3>3 DEF RedirectTypeOK
        <4>3. QED
          BY <2>5, <3>1, <4>1, <4>2
      <3>4. \A a \in Pages : address[a] # to => target'[address[a]] = NoPath
        BY <2>5, <3>1, <3>2
      <3>5. target'[from] = NoPath /\ target'[to] = NoPath
        BY <2>5, <3>1, <3>2
      <3>6. Moving("point", from, to)'
        BY <1>1, <2>5, <3>3, <3>4, <3>5 DEF Moving
      <3>7. QED
        BY <2>6, <3>1, <3>6
    <2>10. CASE PointRedirect(r)
      <3>1. /\ request[r].op = "point" /\ request' = [request EXCEPT ![r] = Waiting]
            /\ target' = [target EXCEPT ![from] = to]
        BY <2>3, <2>10 DEF PointRedirect, End
      <3>2. target'[from] = to /\ \A p \in Paths \ {from} : target'[p] = target[p]
        BY <2>1, <3>1 DEF RedirectTypeOK
      <3>3. target[to] = NoPath
        BY <2>4, <3>1 DEF Moving
      <3>4. \A a \in Pages : target'[address[a]] = NoPath
        BY <2>5, <3>2, <3>3
      <3>5. \A p \in Paths \ {from} : lastHolder[p] # NoPage /\ address[lastHolder[p]] # p => target'[p] = address[lastHolder[p]]
        BY <2>4, <3>1, <3>2 DEF Moving
      <3>6. Homed'
        BY <1>1, <2>5, <3>2, <3>4, <3>5 DEF Homed
      <3>7. \A q \in Requests : request'[q] = Waiting
        BY <2>1, <2>4, <3>1 DEF RedirectTypeOK
      <3>8. QED
        BY <3>6, <3>7 DEF Undisturbed
    <2>11. QED
      BY <2>7, <2>8, <2>9, <2>10
  <1>4. QED
    BY <1>1, <1>2, <1>3 DEF RedirectInv

\* The invariant of redirects holds in every state: types, an address per page,
\* and, while only usernames change one after the other, what the call under way
\* has done and has still to do (redirect.service.ts).
THEOREM RedirectInvariantHolds == RedirectSpec => []RedirectInv
  <1>1. RedirectInit => RedirectInv
    <2> SUFFICES ASSUME RedirectInit
                 PROVE  RedirectInv
      OBVIOUS
    <2>1. ASSUME NEW p \in Paths
          PROVE  lastHolder[p] \in Pages \cup {NoPage} /\ (lastHolder[p] # NoPage => address[lastHolder[p]] = p)
      <3>1. CASE \E a \in Pages : address[a] = p
        BY <3>1 DEF RedirectInit
      <3>2. CASE ~\E a \in Pages : address[a] = p
        BY <3>2 DEF RedirectInit
      <3>3. QED
        BY <3>1, <3>2
    <2>2. ASSUME NEW a \in Pages
          PROVE  lastHolder[address[a]] = a
      <3>1. address[a] \in Paths
        BY DEF RedirectInit
      <3>2. lastHolder[address[a]] \in Pages /\ address[lastHolder[address[a]]] = address[a]
        BY <3>1 DEF RedirectInit
      <3>3. QED
        BY <3>2 DEF RedirectInit
    <2>3. RedirectTypeOK
      BY <2>1 DEF RedirectInit, RedirectTypeOK
    <2>4. Homed
      BY <2>1 DEF RedirectInit, Homed
    <2>5. QED
      BY <2>2, <2>3, <2>4 DEF RedirectInit, RedirectInv, Addressed, Undisturbed
  <1>2. RedirectInv /\ [RedirectNext]_redirectVars => RedirectInv'
    <2> SUFFICES ASSUME RedirectInv, [RedirectNext]_redirectVars
                 PROVE  RedirectInv'
      OBVIOUS
    <2>1. RedirectTypeOK'
      BY RedirectTypeStep DEF RedirectInv
    <2>2. ASSUME NEW r \in Requests, NEW from \in Paths, NEW to \in Paths,
                 CreateRedirect(r, from, to) \/ UpdateRedirect(r, from, to)
          PROVE  RedirectInv'
      BY <2>1, <2>2, DisturbingStep DEF CreateRedirect, UpdateRedirect
    <2>3. ASSUME NEW from \in Paths, DeleteRedirect(from)
          PROVE  RedirectInv'
      BY <2>1, <2>3, DisturbingStep DEF DeleteRedirect
    <2>4. ASSUME NEW r \in Requests, CrashRequest(r)
          PROVE  RedirectInv'
      BY <2>1, <2>4, DisturbingStep DEF CrashRequest
    <2>5. ASSUME NEW r \in Requests, SaveRedirect(r)
          PROVE  RedirectInv'
      <3>1. request[r].op \in {"create", "update"} /\ UNCHANGED <<address, lastHolder, undisturbed>>
        BY <2>5 DEF SaveRedirect
      <3>2. ~undisturbed
        BY <3>1, RequestKinds DEF RedirectInv, Undisturbed, Moving
      <3>3. QED
        BY <2>1, <3>1, <3>2 DEF RedirectInv, Addressed
    <2>6. CASE UNCHANGED redirectVars
      BY <2>6 DEF redirectVars, RedirectInv, RedirectTypeOK, Addressed, Undisturbed, Homed, Moving
    <2>7. QED
      BY <2>1, <2>2, <2>3, <2>4, <2>5, <2>6, MoveStep, MovingStep DEF RedirectNext
  <1>3. QED
    BY <1>1, <1>2, PTL DEF RedirectSpec

\* "The browser always gets a single hop" and "keep the previous profile URL
\* alive" (redirect.service.ts): whatever redirects there are, the map lands in
\* one hop; and while only usernames change, one after the other, every path
\* that was a page is served to where its last holder's page is now.
THEOREM OldAddressesHold == RedirectSpec => []OldAddressesLeadHome
  <1>1. RedirectInv => OldAddressesLeadHome
    <2> SUFFICES ASSUME RedirectInv
                 PROVE  OldAddressesLeadHome
      OBVIOUS
    <2>1. ServedInOneHop
      BY MapServesOneHop DEF RedirectInv
    <2>2. ASSUME undisturbed, \A r \in Requests : request[r] = Waiting
          PROVE  Homed
      BY <2>2 DEF RedirectInv, Undisturbed
    <2>3. ASSUME Homed, NEW p \in Paths, lastHolder[p] # NoPage, address[lastHolder[p]] # p
          PROVE  <<p, address[lastHolder[p]]>> \in GetRedirectMap
      <3>1. lastHolder[p] \in Pages /\ address[lastHolder[p]] \in Paths
        BY <2>3 DEF RedirectInv, RedirectTypeOK
      <3>2. target[p] = address[lastHolder[p]] /\ target[target[p]] = NoPath /\ target[p] # NoPath
        BY <2>3, <3>1, RedirectAssumption DEF Homed
      <3>3. QED
        BY <2>1, <2>3, <3>2 DEF ServedInOneHop
    <2>4. QED
      BY <2>1, <2>2, <2>3 DEF OldAddressesLeadHome, Homed
  <1>2. QED
    BY <1>1, RedirectInvariantHolds, PTL

-----------------------------------------------------------------------------
(* The wallet                                                              *)

\* A change that is under way has not written its row; one that has read knows
\* the balance there is, or that it is out of date.
ChangeInv(c) ==
    /\ change[c].at # "over" => history[c] = NoEntry
    /\ change[c].at \in {"asked", "read"} => change[c].entry # NoEntry
    /\ change[c].at = "read" /\ ~change[c].conflict =>
          /\ change[c].current = walletBalance
          /\ change[c].entry.type = "debit" => change[c].entry.amount <= walletBalance

WalletInv ==
    /\ WalletTypeOK
    /\ \A c \in Changes : ChangeInv(c)
    /\ walletBalance = SumOf("credit") - SumOf("debit")

\* The rows that credit or debit, and their amounts.
RowsOf(direction) == {c \in Changes : history[c] # NoEntry /\ history[c].type = direction}
Amounts == [c \in Changes |-> history[c].amount]

\* The sum of the rows of one direction after one more row.
LEMMA SumOfRows ==
  ASSUME NEW direction
  PROVE  /\ SumOf(direction) = SumFunctionOnSet(Amounts, RowsOf(direction))
         /\ SumOf(direction)' = SumFunctionOnSet(Amounts', RowsOf(direction)')
  <1>1. /\ {c \in GetWallet.transactions : history[c].type = direction} = RowsOf(direction)
        /\ {c \in GetWallet'.transactions : history'[c].type = direction} = RowsOf(direction)'
    BY DEF GetWallet, ListTransactions, RowsOf
  <1>2. QED
    BY <1>1 DEF SumOf, Amounts

\* A row credits or debits.
LEMMA EntryKinds ==
  /\ \A n \in Sums : n \in Nat /\ n \in Int /\ n > 0
  /\ NoEntry \notin [type : Directions, amount : Sums, reason : Reasons]
  /\ NoEntry.amount \in Nat
  /\ NoEntry \in WalletRows
  BY WalletAssumption DEF NoEntry, Directions, WalletRows

\* The sums of the rows are integers.
LEMMA WalletSumsAreInts ==
  ASSUME WalletTypeOK
  PROVE  /\ \A c \in Changes : history[c].amount \in Int
         /\ \A d : IsFiniteSet(RowsOf(d))
         /\ \A d : SumOf(d) \in Int
  <1>1. \A c \in Changes : history[c].amount \in Int
    <2>1. ASSUME NEW c \in Changes
          PROVE  history[c].amount \in Int
      <3>1. CASE history[c] = NoEntry
        BY <3>1, EntryKinds
      <3>2. CASE history[c] \in [type : Directions, amount : Sums, reason : Reasons]
        BY <3>2, EntryKinds
      <3>3. QED
        BY <3>1, <3>2 DEF WalletTypeOK, WalletRows
    <2>2. QED
      BY <2>1
  <1>2. \A d : RowsOf(d) \in SUBSET Changes
    BY DEF RowsOf
  <1>3. \A d : IsFiniteSet(RowsOf(d))
    BY <1>2, WalletAssumption, FS_Subset
  <1>4. \A c \in Changes : Amounts[c] \in Int
    BY <1>1 DEF Amounts
  <1>5. ASSUME NEW d
        PROVE  SumOf(d) \in Int
    BY <1>2, <1>4, WalletAssumption, SumType, SumOfRows
  <1>6. QED
    BY <1>1, <1>3, <1>5

\* A row is written: the sum of its direction grows by its amount, the other stays.
LEMMA RowIsAdded ==
  ASSUME WalletTypeOK, NEW c \in Changes, history[c] = NoEntry,
         NEW entry \in [type : Directions, amount : Sums, reason : Reasons],
         history' = [history EXCEPT ![c] = entry]
  PROVE  \A d \in Directions :
            SumOf(d)' = IF entry.type = d THEN entry.amount + SumOf(d) ELSE SumOf(d)
  <1> SUFFICES ASSUME NEW d \in Directions
               PROVE  SumOf(d)' = IF entry.type = d THEN entry.amount + SumOf(d) ELSE SumOf(d)
    OBVIOUS
  <1>1. entry # NoEntry /\ entry.amount \in Int
    BY EntryKinds
  <1>2. /\ history'[c] = entry
        /\ \A k \in Changes \ {c} : history'[k] = history[k]
    BY DEF WalletTypeOK
  <1>3. c \notin RowsOf(d) /\ Amounts'[c] = entry.amount /\ \A k \in RowsOf(d) : Amounts'[k] = Amounts[k] /\ Amounts[k] \in Int
    BY <1>2, WalletSumsAreInts DEF RowsOf, Amounts
  <1>4. SumOf(d)' = SumFunctionOnSet(Amounts', RowsOf(d)')
    BY SumOfRows
  <1>5. IsFiniteSet(RowsOf(d))
    BY WalletSumsAreInts
  <1>6. CASE entry.type = d
    <2>1. RowsOf(d)' = RowsOf(d) \cup {c}
      BY <1>1, <1>2, <1>6 DEF RowsOf
    <2>2. SumFunctionOnSet(Amounts', RowsOf(d) \cup {c}) = Amounts'[c] + SumFunctionOnSet(Amounts, RowsOf(d))
      BY <1>1, <1>3, <1>5, SumWithOneMore
    <2>3. QED
      BY <1>3, <1>4, <1>6, <2>1, <2>2, SumOfRows
  <1>7. CASE entry.type # d
    <2>1. RowsOf(d)' = RowsOf(d)
      BY <1>1, <1>2, <1>7 DEF RowsOf
    <2>2. SumFunctionOnSet(Amounts', RowsOf(d)) = SumFunctionOnSet(Amounts, RowsOf(d))
      BY <1>3, <1>5, SumAgrees
    <2>3. QED
      BY <1>4, <1>7, <2>1, <2>2, SumOfRows
  <1>8. QED
    BY <1>6, <1>7

\* Steps that write neither the balance nor a row.
LEMMA NothingWritten ==
  ASSUME WalletInv, walletBalance' = walletBalance, history' = history, WalletTypeOK',
         \A c \in Changes : ChangeInv(c)'
  PROVE  WalletInv'
  <1>1. \A d : SumOf(d)' = SumOf(d)
    BY DEF SumOf, GetWallet, ListTransactions
  <1>2. QED
    BY <1>1 DEF WalletInv

\* A record of a change stays one when its fields do.
LEMMA ChangeRecords ==
  /\ Unasked \in [at : {"idle", "asked", "read", "over"}, entry : WalletRows, current : Nat, conflict : BOOLEAN]
  /\ Unasked.at = "idle" /\ Over.at = "over"
  /\ Over \in [at : {"idle", "asked", "read", "over"}, entry : WalletRows, current : Nat, conflict : BOOLEAN]
  <1>1. Unasked \in [at : {"idle", "asked", "read", "over"}, entry : WalletRows, current : Nat, conflict : BOOLEAN]
    BY EntryKinds DEF Unasked
  <1>2. QED
    BY <1>1, EntryKinds DEF Over, Unasked

\* What a commit makes out of date.
LEMMA OutdatedChanges ==
  ASSUME WalletTypeOK
  PROVE  /\ Outdated \in [Changes -> [at : {"idle", "asked", "read", "over"}, entry : WalletRows,
                                      current : Nat, conflict : BOOLEAN]]
         /\ \A c \in Changes : /\ Outdated[c].at = change[c].at /\ Outdated[c].entry = change[c].entry
                               /\ Outdated[c].at = "read" => Outdated[c].conflict
  BY DEF WalletTypeOK, Outdated

\* A change is asked for.
LEMMA AskStep ==
  ASSUME WalletInv, NEW c \in Changes, NEW entry \in [type : Directions, amount : Sums, reason : Reasons], Ask(c, entry)
  PROVE  WalletInv'
  <1> DEFINE asked == [Unasked EXCEPT !.at = "asked", !.entry = entry]
  <1>1. entry # NoEntry /\ entry \in WalletRows
    BY EntryKinds DEF WalletRows
  <1>2. /\ asked \in [at : {"idle", "asked", "read", "over"}, entry : WalletRows, current : Nat, conflict : BOOLEAN]
        /\ asked.at = "asked" /\ asked.entry = entry
    BY <1>1, ChangeRecords DEF Unasked
  <1>3. change' = [change EXCEPT ![c] = asked] /\ UNCHANGED <<walletBalance, isDebtLocked, history>> /\ change[c].at # "over"
    BY ChangeRecords DEF Ask
  <1>4. WalletTypeOK'
    BY <1>2, <1>3 DEF WalletInv, WalletTypeOK
  <1>5. \A k \in Changes : ChangeInv(k)'
    BY <1>1, <1>2, <1>3 DEF WalletInv, WalletTypeOK, ChangeInv
  <1>6. QED
    BY <1>3, <1>4, <1>5, NothingWritten

\* The snapshot: what was read is the balance, and a debit is covered by it.
LEMMA ReadStep ==
  ASSUME WalletInv, NEW c \in Changes, ReadBalance(c)
  PROVE  WalletInv'
  <1> DEFINE read == [change[c] EXCEPT !.at = "read", !.current = walletBalance, !.conflict = FALSE]
             next == IF change[c].entry.type = "debit" /\ walletBalance < change[c].entry.amount THEN Over ELSE read
  <1>1. /\ change' = [change EXCEPT ![c] = next] /\ change[c].at = "asked"
        /\ UNCHANGED <<walletBalance, isDebtLocked, history>>
    BY DEF ReadBalance
  <1>2. change[c].entry # NoEntry /\ change[c].entry \in [type : Directions, amount : Sums, reason : Reasons] /\ history[c] = NoEntry
    BY <1>1 DEF WalletInv, WalletTypeOK, WalletRows, ChangeInv
  <1>3. /\ read \in [at : {"idle", "asked", "read", "over"}, entry : WalletRows, current : Nat, conflict : BOOLEAN]
        /\ read.at = "read" /\ read.current = walletBalance /\ read.entry = change[c].entry /\ ~read.conflict
    BY DEF WalletInv, WalletTypeOK
  <1>4. /\ next \in [at : {"idle", "asked", "read", "over"}, entry : WalletRows, current : Nat, conflict : BOOLEAN]
        /\ next.at = "over" \/ (next.at = "read" /\ next.current = walletBalance /\ next.entry = change[c].entry
                                 /\ (next.entry.type = "debit" => next.entry.amount <= walletBalance))
    <2>1. CASE next = Over
      BY <2>1, ChangeRecords
    <2>2. CASE next = read /\ ~(change[c].entry.type = "debit" /\ walletBalance < change[c].entry.amount)
      <3>1. change[c].entry.amount \in Int /\ walletBalance \in Int
        BY <1>2, EntryKinds DEF WalletInv, WalletTypeOK
      <3>2. change[c].entry.type = "debit" => change[c].entry.amount <= walletBalance
        BY <2>2, <3>1
      <3> HIDE DEF read, next
      <3>3. QED
        BY <1>3, <2>2, <3>2
    <2>3. QED
      BY <2>1, <2>2
  <1> HIDE DEF next
  <1>5. WalletTypeOK'
    BY <1>1, <1>4 DEF WalletInv, WalletTypeOK
  <1>6. \A k \in Changes \ {c} : ChangeInv(k)'
    BY <1>1 DEF WalletInv, WalletTypeOK, ChangeInv
  <1>7. ChangeInv(c)'
    BY <1>1, <1>2, <1>4 DEF WalletInv, WalletTypeOK, ChangeInv
  <1>8. QED
    BY <1>1, <1>5, <1>6, <1>7, NothingWritten

\* Balance and row together, or the transaction once more.
LEMMA CommitStep ==
  ASSUME WalletInv, NEW c \in Changes, Commit(c)
  PROVE  WalletInv'
  <1>1. CASE change[c].conflict
    <2>1. /\ change' = [change EXCEPT ![c].at = "asked"] /\ change[c].at = "read"
          /\ UNCHANGED <<walletBalance, isDebtLocked, history>>
      BY <1>1 DEF Commit
    <2>2. WalletTypeOK'
      BY <2>1 DEF WalletInv, WalletTypeOK
    <2>3. \A k \in Changes : ChangeInv(k)'
      BY <2>1 DEF WalletInv, WalletTypeOK, ChangeInv
    <2>4. QED
      BY <2>1, <2>2, <2>3, NothingWritten
  <1>2. CASE ~change[c].conflict
    <2>1. PICK entry \in [type : Directions, amount : Sums, reason : Reasons] :
             /\ entry = change[c].entry /\ history[c] = NoEntry /\ change[c].current = walletBalance
             /\ entry.type = "debit" => entry.amount <= walletBalance
             /\ change[c].at = "read"
      BY <1>2 DEF WalletInv, WalletTypeOK, WalletRows, ChangeInv, Commit
    <2>2. /\ walletBalance' = IF entry.type = "credit" THEN walletBalance + entry.amount ELSE walletBalance - entry.amount
          /\ history' = [history EXCEPT ![c] = entry]
          /\ change' = [Outdated EXCEPT ![c] = Over]
          /\ isDebtLocked' = isDebtLocked
      <3>1. entry.amount \in Int /\ walletBalance \in Int
        BY EntryKinds DEF WalletInv, WalletTypeOK
      <3>2. walletBalance' = walletBalance + (IF entry.type = "credit" THEN entry.amount ELSE - entry.amount)
        BY <1>2, <2>1 DEF Commit, NewBalance
      <3>3. QED
        BY <1>2, <2>1, <3>1, <3>2 DEF Commit
    <2>3. entry.amount \in Nat /\ walletBalance \in Nat /\ entry.type \in {"credit", "debit"}
      BY EntryKinds DEF WalletInv, WalletTypeOK, Directions
    <2>4. walletBalance' \in Nat
      BY <2>1, <2>2, <2>3
    <2>5. history' \in [Changes -> WalletRows]
      BY <2>2 DEF WalletInv, WalletTypeOK, WalletRows
    <2>6. /\ change' \in [Changes -> [at : {"idle", "asked", "read", "over"}, entry : WalletRows,
                                      current : Nat, conflict : BOOLEAN]]
          /\ change'[c] = Over /\ \A k \in Changes \ {c} : change'[k] = Outdated[k]
      BY <2>2, OutdatedChanges, ChangeRecords DEF WalletInv
    <2>7. WalletTypeOK'
      BY <2>2, <2>4, <2>5, <2>6 DEF WalletInv, WalletTypeOK
    <2>8. ASSUME NEW k \in Changes \ {c}
          PROVE  ChangeInv(k)'
      <3>1. /\ change'[k].at = change[k].at /\ change'[k].entry = change[k].entry /\ history'[k] = history[k]
            /\ change'[k].at = "read" => change'[k].conflict
        BY <2>2, <2>6, OutdatedChanges DEF WalletInv, WalletTypeOK
      <3>2. QED
        BY <3>1 DEF WalletInv, ChangeInv
    <2>9. ChangeInv(c)'
      BY <2>6, ChangeRecords DEF ChangeInv
    <2>10. \A d \in Directions : SumOf(d)' = IF entry.type = d THEN entry.amount + SumOf(d) ELSE SumOf(d)
      BY <2>1, <2>2, RowIsAdded DEF WalletInv
    <2>11. walletBalance' = SumOf("credit")' - SumOf("debit")'
      <3>1. /\ SumOf("credit") \in Int /\ SumOf("debit") \in Int
            /\ walletBalance = SumOf("credit") - SumOf("debit")
        BY WalletSumsAreInts DEF WalletInv
      <3>2. CASE entry.type = "credit"
        <4>1. SumOf("credit")' = entry.amount + SumOf("credit") /\ SumOf("debit")' = SumOf("debit")
          BY <2>10, <3>2 DEF Directions
        <4>2. walletBalance' = walletBalance + entry.amount
          BY <2>2, <3>2
        <4>3. QED
          BY <2>3, <3>1, <4>1, <4>2
      <3>3. CASE entry.type = "debit"
        <4>1. SumOf("debit")' = entry.amount + SumOf("debit") /\ SumOf("credit")' = SumOf("credit")
          BY <2>10, <3>3 DEF Directions
        <4>2. walletBalance' = walletBalance - entry.amount
          BY <2>2, <3>3
        <4>3. QED
          BY <2>3, <3>1, <4>1, <4>2
      <3>4. QED
        BY <2>3, <3>2, <3>3
    <2>12. QED
      BY <2>7, <2>8, <2>9, <2>11 DEF WalletInv
  <1>3. QED
    BY <1>1, <1>2

\* A transaction is given up, or the user row is written by the debt lock.
LEMMA OtherWalletStep ==
  ASSUME WalletInv, (\E c \in Changes : Abort(c)) \/ (\E locked \in BOOLEAN : SetUserDebtLock(locked))
  PROVE  WalletInv'
  <1>1. ASSUME NEW c \in Changes, Abort(c)
        PROVE  WalletInv'
    <2>1. change' = [change EXCEPT ![c] = Over] /\ UNCHANGED <<walletBalance, isDebtLocked, history>>
      BY <1>1 DEF Abort
    <2>2. WalletTypeOK'
      BY <2>1, ChangeRecords DEF WalletInv, WalletTypeOK
    <2>3. \A k \in Changes : ChangeInv(k)'
      BY <2>1, ChangeRecords DEF WalletInv, WalletTypeOK, ChangeInv
    <2>4. QED
      BY <2>1, <2>2, <2>3, NothingWritten
  <1>2. ASSUME NEW locked \in BOOLEAN, SetUserDebtLock(locked)
        PROVE  WalletInv'
    <2>1. isDebtLocked' = locked /\ change' = Outdated /\ UNCHANGED <<walletBalance, history>>
      BY <1>2 DEF SetUserDebtLock
    <2>2. WalletTypeOK'
      BY <2>1, OutdatedChanges DEF WalletInv, WalletTypeOK
    <2>3. \A k \in Changes : ChangeInv(k)'
      BY <2>1, OutdatedChanges DEF WalletInv, ChangeInv
    <2>4. QED
      BY <2>1, <2>2, <2>3, NothingWritten
  <1>3. QED
    BY <1>1, <1>2

\* The invariant of the wallet holds in every state: types, what a transaction
\* under way knows of the balance, and the balance as the sum of the rows
\* (wallet.service.ts).
THEOREM WalletInvariantHolds == WalletSpec => []WalletInv
  <1>1. WalletInit => WalletInv
    <2> SUFFICES ASSUME WalletInit
                 PROVE  WalletInv
      OBVIOUS
    <2>1. WalletTypeOK
      BY EntryKinds, ChangeRecords DEF WalletInit, WalletTypeOK
    <2>2. \A c \in Changes : ChangeInv(c)
      BY ChangeRecords DEF WalletInit, ChangeInv
    <2>3. RowsOf("credit") = {} /\ RowsOf("debit") = {}
      BY DEF WalletInit, RowsOf
    <2>4. SumOf("credit") = 0 /\ SumOf("debit") = 0
      BY <2>3, SumOfRows, SumOfNone
    <2>5. QED
      BY <2>1, <2>2, <2>4 DEF WalletInit, WalletInv
  <1>2. WalletInv /\ [WalletNext]_walletVars => WalletInv'
    <2> SUFFICES ASSUME WalletInv, [WalletNext]_walletVars
                 PROVE  WalletInv'
      OBVIOUS
    <2>1. CASE UNCHANGED walletVars
      <3>1. WalletTypeOK' /\ \A c \in Changes : ChangeInv(c)'
        BY <2>1 DEF walletVars, WalletInv, WalletTypeOK, ChangeInv
      <3>2. QED
        BY <2>1, <3>1, NothingWritten DEF walletVars
    <2>2. ASSUME NEW c \in Changes, NEW amount \in Sums, CreditTopup(c, amount)
          PROVE  WalletInv'
      <3>1. Entry("credit", amount, "topup") \in [type : Directions, amount : Sums, reason : Reasons]
        BY DEF Entry, Directions, Reasons
      <3>2. QED
        BY <2>2, <3>1, AskStep DEF CreditTopup
    <2>3. ASSUME NEW c \in Changes, NEW amount \in Sums, NEW type \in Directions, AdjustUserWallet(c, type, amount)
          PROVE  WalletInv'
      <3>1. Entry(type, amount, "admin_adjust") \in [type : Directions, amount : Sums, reason : Reasons]
        BY DEF Entry, Reasons
      <3>2. QED
        BY <2>3, <3>1, AskStep DEF AdjustUserWallet
    <2>4. QED
      BY <2>1, <2>2, <2>3, ReadStep, CommitStep, OtherWalletStep DEF WalletNext, ClearUserDebt
  <1>3. QED
    BY <1>1, <1>2, PTL DEF WalletSpec

\* "Balance and history never drift" (wallet.service.ts): whatever changes run at
\* once, conflict and are run again or given up, the balance is what the rows
\* credit less what they debit, and never below zero.
THEOREM WalletNeverDriftsHolds == WalletSpec => []WalletNeverDrifts
  <1>1. WalletInv => WalletNeverDrifts
    BY DEF WalletInv, WalletTypeOK, WalletNeverDrifts, GetWallet
  <1>2. QED
    BY <1>1, WalletInvariantHolds, PTL

-----------------------------------------------------------------------------
(* Onboarding                                                              *)

\* The calls under way about user u.
CallsFor(u) == {f \in Forms : form[f] # Blank /\ form[f].who = u}

Backed(u) == u \in owned => "owner" \in roles[u]
Drafted(u) == profile[u] # NoProfile <=> "stylist" \in roles[u]

\* What the only call about u knows, and what it still has to repair.
FormInv(c, u) ==
    /\ c.at \in {"roles", "counted"} => c.fresh /\ c.seen = roles[u]
    /\ c.at \in {"roles", "counted", "finish", "activate"} => Backed(u) /\ Drafted(u)
    /\ c.at = "counted" /\ "owner" \in c.seen /\ (c.swap => u \in owned) => "owner" \in c.want
    /\ c.at = "counted" /\ ~c.swap => c.seen \subseteq c.want
    /\ c.at \in {"finish", "activate"} => profile[u] # NoProfile
    /\ c.at = "reset" => Backed(u) /\ "stylist" \notin roles[u]
    /\ c.at = "ensure" => Backed(u) /\ "stylist" \in roles[u]
    /\ c.at = "member" => Drafted(u) /\ ("owner" \in roles[u] \/ u \in owned)

UserInv(u) ==
    u \notin mixed =>
        /\ \A f, g \in CallsFor(u) : f = g
        /\ CallsFor(u) = {} => Backed(u) /\ Drafted(u)
        /\ \A f \in CallsFor(u) : FormInv(form[f], u)

\* The steps of the form are numbered 1 to 8, and a call that answers the last
\* one activates.
FormSteps ==
    \A f \in Forms : /\ form[f].at = "ensure" => form[f].step \in 1 .. Last
                     /\ form[f].at = "finish" => form[f].step \in 1 .. Last - 1

OnboardingInv == OnboardingTypeOK /\ FormSteps /\ \A u \in Members : UserInv(u)

\* The steps of the wizard are numbered to 8, the answered ones from 2 to 6.
LEMMA StepNumbers == Last = 8 /\ \A s \in Answered : IndexOf(s) \in 2 .. 6
  <1>1. Last = 8
    BY DEF Last, Steps
  <1>2. ASSUME NEW s \in Answered
        PROVE  IndexOf(s) \in 2 .. 6
    <2>1. s \in {"personal", "location", "services", "workplace", "workingHours"}
      BY OnboardingAssumption
    <2>2. \E i \in 1 .. Last : Steps[i] = s
      BY <2>1 DEF Steps, Last
    <2>3. IndexOf(s) \in 1 .. Last /\ Steps[IndexOf(s)] = s
      BY <2>2 DEF IndexOf, Last
    <2>4. QED
      BY <1>1, <2>1, <2>3 DEF Steps
  <1>3. QED
    BY <1>1, <1>2

\* No profile is no document.
LEMMA NoProfileApart == NoProfile \notin [step : 1 .. Last, active : BOOLEAN]
  BY StepNumbers DEF NoProfile

\* A call of u does not disturb what is known of v.
LEMMA OthersUndisturbed ==
  ASSUME NEW v, UserInv(v), v \notin mixed' => v \notin mixed,
         roles'[v] = roles[v], profile'[v] = profile[v], v \in owned' <=> v \in owned,
         \A f \in Forms : (form'[f] # Blank /\ form'[f].who = v) \/ (form[f] # Blank /\ form[f].who = v) => form'[f] = form[f]
  PROVE  UserInv(v)'
  <1>1. CallsFor(v)' = CallsFor(v)
    BY DEF CallsFor
  <1>2. \A f \in CallsFor(v) : form'[f] = form[f]
    BY DEF CallsFor
  <1>3. QED
    BY <1>1, <1>2 DEF UserInv, FormInv, Backed, Drafted

\* The call f about u goes on, or ends, and leaves u as the invariant asks.
LEMMA CallGoesOn ==
  ASSUME NEW f \in Forms, form[f] # Blank, NEW u, u = form[f].who, UserInv(u),
         u \notin mixed' => u \notin mixed,
         \A g \in Forms \ {f} : form'[g] = form[g] \/ (form[g] # Blank /\ form[g].who = u /\ form'[g] # Blank /\ form'[g].who = u),
         u \notin mixed' /\ FormInv(form[f], u) =>
            IF form'[f] = Blank THEN Backed(u)' /\ Drafted(u)'
            ELSE form'[f].who = u /\ FormInv(form[f], u)'
  PROVE  UserInv(u)'
  <1> SUFFICES ASSUME u \notin mixed'
               PROVE  /\ \A g, h \in CallsFor(u)' : g = h
                      /\ CallsFor(u)' = {} => Backed(u)' /\ Drafted(u)'
                      /\ \A g \in CallsFor(u)' : FormInv(form[g], u)'
    BY DEF UserInv
  <1>1. CallsFor(u) = {f} /\ FormInv(form[f], u)
    BY DEF UserInv, CallsFor
  <1>2. CallsFor(u)' \subseteq {f}
    BY <1>1 DEF CallsFor
  <1>3. form'[f] = Blank => CallsFor(u)' = {}
    BY <1>2 DEF CallsFor
  <1>4. form'[f] # Blank /\ form'[f].who = u => CallsFor(u)' = {f}
    BY <1>2 DEF CallsFor
  <1>5. QED
    BY <1>1, <1>2, <1>3, <1>4

\* A call begins: it is the only one, or u is mixed.
LEMMA CallBegins ==
  ASSUME NEW f \in Forms, form[f] = Blank, NEW u, UserInv(u),
         mixed' = IF Busy(u) THEN mixed \cup {u} ELSE mixed,
         \A g \in Forms \ {f} : form'[g] = form[g] \/ (form[g] # Blank /\ form[g].who = u),
         form'[f] # Blank, form'[f].who = u,
         Backed(u) /\ Drafted(u) => FormInv(form[f], u)'
  PROVE  UserInv(u)'
  <1> SUFFICES ASSUME u \notin mixed'
               PROVE  /\ \A g, h \in CallsFor(u)' : g = h
                      /\ CallsFor(u)' = {} => Backed(u)' /\ Drafted(u)'
                      /\ \A g \in CallsFor(u)' : FormInv(form[g], u)'
    BY DEF UserInv
  <1>1. ~Busy(u) /\ u \notin mixed
    OBVIOUS
  <1>2. CallsFor(u) = {} /\ \A g \in Forms : form[g] = Blank \/ form[g].who # u
    BY <1>1 DEF CallsFor, Busy
  <1>3. CallsFor(u)' = {f}
    BY <1>2 DEF CallsFor
  <1>4. QED
    BY <1>1, <1>2, <1>3 DEF UserInv


-----------------------------------------------------------------------------
\* What a call becomes when its document was written by another.
LEMMA StaleCalls ==
  ASSUME OnboardingTypeOK, NEW u \in Members, NEW f \in Forms, NEW ats, ats \in {Choosing, Answering}
  PROVE  /\ Stale(u, f, ats) \in [Forms -> FormCalls \cup {Blank}]
         /\ Stale(u, f, ats)[f] = form[f]
         /\ \A g \in Forms : \/ Stale(u, f, ats)[g] = form[g]
                             \/ /\ form[g] # Blank /\ form[g].who = u
                                /\ Stale(u, f, ats)[g] # Blank /\ Stale(u, f, ats)[g].who = u
         /\ \A g \in Forms : Stale(u, f, ats)[g].at = form[g].at
         /\ \A g \in Forms : form[g].at \in {"ensure", "finish"} => Stale(u, f, ats)[g].step = form[g].step
  <1> USE DEF OnboardingTypeOK, FormCalls, Blank
  <1> SUFFICES ASSUME NEW g \in Forms
               PROVE  /\ Stale(u, f, ats)[g] \in FormCalls \cup {Blank}
                      /\ \/ Stale(u, f, ats)[g] = form[g]
                         \/ /\ form[g] # Blank /\ form[g].who = u
                            /\ Stale(u, f, ats)[g] # Blank /\ Stale(u, f, ats)[g].who = u
                      /\ Stale(u, f, ats)[g].at = form[g].at
                      /\ form[g].at \in {"ensure", "finish"} => Stale(u, f, ats)[g].step = form[g].step
                      /\ Stale(u, f, ats)[f] = form[f]
    BY DEF Stale
  <1>1. Stale(u, f, ats)[g] = form[g] \/ (form[g].who = u /\ form[g].at \in ats /\ g # f /\ Stale(u, f, ats)[g] = [form[g] EXCEPT !.fresh = FALSE])
    BY DEF Stale
  <1>2. Stale(u, f, ats)[f] = form[f]
    BY DEF Stale
  <1>3. CASE Stale(u, f, ats)[g] = form[g]
    BY <1>2, <1>3
  <1>4. CASE Stale(u, f, ats)[g] # form[g]
    <2> DEFINE Long == [at : {"roles", "counted", "save", "reset", "ensure", "finish", "activate"}, who : Members,
                        seen : SUBSET Roles, want : SUBSET Roles, swap : BOOLEAN, fresh : BOOLEAN,
                        step : 0 .. Last, read : Profiles]
               c == form[g]
    <2>1. c \in FormCalls \cup {Blank} /\ c.at \in {"roles", "counted", "finish", "activate"}
      BY <1>1, <1>4 DEF Choosing, Answering
    <2>2. c \in Long
      BY <2>1
    <2>3. [c EXCEPT !.fresh = FALSE] \in Long /\ \A k \in {"at", "who", "step"} : [c EXCEPT !.fresh = FALSE][k] = c[k]
      BY <2>2
    <2>4. Stale(u, f, ats)[g] \in Long /\ Stale(u, f, ats)[g].at = c.at /\ Stale(u, f, ats)[g].who = u /\ Stale(u, f, ats)[g].step = c.step
      BY <1>1, <1>4, <2>3
    <2>5. c # Blank /\ c.who = u /\ Stale(u, f, ats)[g] # Blank
      BY <1>1, <1>4, <2>2, <2>4
    <2>6. QED
      BY <1>2, <2>4, <2>5
  <1>5. QED
    BY <1>3, <1>4

\* What each action must give: the types and numbers, and the user it is about.
Kept(u) == OnboardingTypeOK' /\ FormSteps' /\ UserInv(u)'

\* The users an action is not about stay as they were.
LEMMA OneUser ==
  ASSUME OnboardingInv, NEW u \in Members, Kept(u), mixed \subseteq mixed',
         \A v \in Members \ {u} : roles'[v] = roles[v] /\ profile'[v] = profile[v] /\ (v \in owned' <=> v \in owned),
         \A f \in Forms : form'[f] = form[f] \/ (/\ form[f] # Blank => form[f].who = u
                                                 /\ form'[f] # Blank => form'[f].who = u)
  PROVE  OnboardingInv'
  <1>1. ASSUME NEW v \in Members \ {u}
        PROVE  UserInv(v)'
    BY <1>1, OthersUndisturbed DEF OnboardingInv
  <1>2. QED
    BY <1>1 DEF OnboardingInv, Kept

\* A call is begun, and reads.
LEMMA BeginStep ==
  ASSUME OnboardingInv, NEW f \in Forms, NEW u \in Members,
         \/ \E want \in RoleSets, swap \in BOOLEAN : SetRoles(f, u, want, swap)
         \/ \E s \in Answered : CompleteStep(f, u, s)
         \/ SaveStylistMedia(f, u)
  PROVE  OnboardingInv'
  <1> USE DEF OnboardingInv, OnboardingTypeOK
  <1>1. PICK c \in FormCalls :
           /\ form[f] = Blank /\ form' = [form EXCEPT ![f] = c] /\ c.who = u /\ c # Blank
           /\ mixed' = IF Busy(u) THEN mixed \cup {u} ELSE mixed
           /\ UNCHANGED <<roles, profile, owned>>
           /\ c.at = "ensure" => c.step \in 1 .. Last
           /\ \/ c.at = "roles" /\ c.fresh /\ c.seen = roles[u]
              \/ c.at = "ensure" /\ "stylist" \in roles[u]
    <2>1. CASE \E want \in RoleSets, swap \in BOOLEAN : SetRoles(f, u, want, swap)
      <3>1. PICK want \in RoleSets, swap \in BOOLEAN : SetRoles(f, u, want, swap)
        BY <2>1
      <3>2. Form("roles", u, roles[u], want, swap, 0) \in FormCalls
        BY OnboardingAssumption, StepNumbers DEF Form, FormCalls, Profiles, NoProfile
      <3>3. QED
        BY <3>1, <3>2 DEF SetRoles, Start, Form, Blank
    <2>2. CASE \E s \in Answered : CompleteStep(f, u, s)
      <3>1. PICK s \in Answered : CompleteStep(f, u, s)
        BY <2>2
      <3>2. Form("ensure", u, {}, {}, FALSE, IndexOf(s)) \in FormCalls
        BY StepNumbers DEF Form, FormCalls, Profiles, NoProfile
      <3>3. IndexOf(s) \in 1 .. Last
        BY StepNumbers
      <3>4. QED
        BY <3>1, <3>2, <3>3 DEF CompleteStep, Start, Form, Blank
    <2>3. CASE SaveStylistMedia(f, u)
      <3>1. Form("ensure", u, {}, {}, FALSE, Last) \in FormCalls /\ Last \in 1 .. Last
        BY StepNumbers DEF Form, FormCalls, Profiles, NoProfile
      <3>2. QED
        BY <2>3, <3>1 DEF SaveStylistMedia, Start, Form, Blank
    <2>4. QED
      BY <2>1, <2>2, <2>3
  <1>2. OnboardingTypeOK'
    BY <1>1
  <1>3. FormSteps'
    BY <1>1 DEF FormSteps
  <1>4. Backed(u) /\ Drafted(u) => FormInv(form[f], u)'
    BY <1>1 DEF FormInv, Backed, Drafted
  <1>5. UserInv(u)'
    BY <1>1, <1>4, CallBegins
  <1>6. QED
    BY <1>1, <1>2, <1>3, <1>5, OneUser DEF Kept

\* The roles are checked against what stands behind them.
LEMMA CheckStep ==
  ASSUME OnboardingInv, NEW f \in Forms, CheckBacking(f)
  PROVE  OnboardingInv'
  <1> USE DEF OnboardingInv, OnboardingTypeOK
  <1> DEFINE c == form[f]
             u == c.who
  <1>1. /\ c \in FormCalls /\ c.at = "roles" /\ u \in Members /\ c # Blank
        /\ UNCHANGED <<roles, profile, owned, mixed>>
    BY DEF CheckBacking, FormCalls, Blank
  <1>2. PICK kept \in SUBSET Roles :
           /\ form' = [form EXCEPT ![f] = [c EXCEPT !.at = "counted", !.want = @ \cup kept]]
           /\ ~c.swap => kept = c.seen
           /\ c.swap /\ "owner" \in c.seen /\ u \in owned => "owner" \in kept
    <2> DEFINE kept == IF c.swap
                       THEN (c.seen \cap {r \in {"owner", "stylist"} :
                                               IF r = "owner" THEN u \in owned ELSE profile[u].active})
                       ELSE c.seen
    <2>1. kept \in SUBSET Roles
      BY <1>1 DEF FormCalls, Roles
    <2>2. form' = [form EXCEPT ![f] = [c EXCEPT !.at = "counted", !.want = @ \cup kept]]
      BY <1>1 DEF CheckBacking
    <2>3. /\ ~c.swap => kept = c.seen
          /\ c.swap /\ "owner" \in c.seen /\ u \in owned => "owner" \in kept
      OBVIOUS
    <2>4. QED
      BY <2>1, <2>2, <2>3
  <1>3. /\ form'[f] \in FormCalls /\ form'[f].at = "counted" /\ form'[f].who = u /\ form'[f].want = c.want \cup kept
        /\ form'[f].seen = c.seen /\ form'[f].fresh = c.fresh /\ form'[f].swap = c.swap /\ form'[f] # Blank
    BY <1>1, <1>2 DEF FormCalls, Blank
  <1>4. OnboardingTypeOK' /\ FormSteps'
    BY <1>1, <1>2, <1>3 DEF FormSteps
  <1>5. FormInv(form[f], u) => FormInv(form[f], form[f].who)'
    BY <1>1, <1>2, <1>3 DEF FormInv, Backed, Drafted
  <1>6. UserInv(u)'
    BY <1>1, <1>2, <1>3, <1>5, CallGoesOn
  <1>7. QED
    BY <1>1, <1>2, <1>3, <1>4, <1>6, OneUser DEF Kept

\* The roles are saved, or refused, and the profile is next.
LEMMA SaveStep ==
  ASSUME OnboardingInv, NEW f \in Forms, SaveRoles(f)
  PROVE  OnboardingInv'
  <1> USE DEF OnboardingInv, OnboardingTypeOK
  <1>0. PICK c \in FormCalls, u \in Members : c = form[f] /\ u = c.who
    BY DEF SaveRoles, FormCalls, Blank
  <1> DEFINE changed == c.want # c.seen
             refused == c.swap /\ changed /\ ~c.fresh
             next == CASE "stylist" \in c.seen \ c.want -> "reset"
                       [] "stylist" \in c.want -> "ensure"
                       [] OTHER -> "blank"
             asked == IF next = "blank" THEN Blank ELSE Form(next, u, {}, {}, FALSE, 1)
  <1>1. /\ form[f] = c /\ u = c.who /\ c.at = "counted" /\ c # Blank
        /\ c.want \subseteq Roles /\ c.seen \subseteq Roles
        /\ UNCHANGED <<profile, owned, mixed>>
    BY <1>0 DEF SaveRoles, FormCalls, Blank
  <1>2. CASE refused
    <2>1. form' = [form EXCEPT ![f] = Blank] /\ roles' = roles
      BY <1>1, <1>2 DEF SaveRoles, Finish
    <2>2. OnboardingTypeOK' /\ FormSteps'
      BY <1>1, <2>1 DEF FormSteps, Blank
    <2>3. FormInv(form[f], u) => FALSE
      BY <1>1, <1>2 DEF FormInv
    <2>4. UserInv(u)'
      BY <1>1, <2>1, <2>3, CallGoesOn
    <2>5. QED
      BY <1>1, <2>1, <2>2, <2>4, OneUser DEF Kept
  <1>3. CASE ~refused
    <2>1. /\ roles' = [roles EXCEPT ![u] = IF ~changed THEN @ ELSE IF c.swap THEN c.want ELSE @ \cup c.want]
          /\ form' = [IF changed THEN Stale(u, f, Choosing) ELSE form EXCEPT ![f] = asked]
      BY <1>1, <1>3 DEF SaveRoles
    <2> DEFINE base == IF changed THEN Stale(u, f, Choosing) ELSE form
    <2>2. /\ base \in [Forms -> FormCalls \cup {Blank}]
          /\ \A g \in Forms : \/ base[g] = form[g]
                              \/ form[g] # Blank /\ form[g].who = u /\ base[g] # Blank /\ base[g].who = u
          /\ \A g \in Forms : base[g].at = form[g].at
          /\ \A g \in Forms : form[g].at \in {"ensure", "finish"} => base[g].step = form[g].step
      BY <1>1, StaleCalls
    <2>3. next \in {"reset", "ensure", "blank"} /\ asked \in FormCalls \cup {Blank}
          /\ (next # "blank" => asked # Blank /\ asked.at = next /\ asked.who = u /\ asked.step = 1)
          /\ (next = "blank" => asked = Blank)
      BY <1>1, StepNumbers DEF Form, FormCalls, Blank, Profiles, NoProfile
    <2>4. form' = [base EXCEPT ![f] = asked]
      BY <2>1
    <2>5. form' \in [Forms -> FormCalls \cup {Blank}] /\ form'[f] = asked /\ \A g \in Forms \ {f} : form'[g] = base[g]
      BY <2>2, <2>3, <2>4
    <2>6. roles' \in [Members -> SUBSET Roles] /\ \A v \in Members \ {u} : roles'[v] = roles[v]
      BY <1>1, <2>1
    <2>7. OnboardingTypeOK'
      BY <1>1, <2>5, <2>6
    <2>8. asked.at \in {"reset", "ensure", "blank"} /\ (asked.at = "ensure" => asked.step \in 1 .. Last)
      <3> HIDE DEF asked, next
      <3>1. CASE next = "blank"
        BY <2>3, <3>1 DEF Blank
      <3>2. CASE next # "blank"
        BY <2>3, <3>2, StepNumbers
      <3>3. QED
        BY <3>1, <3>2
    <2>9. FormSteps'
      <3>1. ASSUME NEW g \in Forms
            PROVE  /\ form'[g].at = "ensure" => form'[g].step \in 1 .. Last
                   /\ form'[g].at = "finish" => form'[g].step \in 1 .. Last - 1
        <4>1. CASE g = f
          BY <2>5, <2>8, <4>1
        <4>2. CASE g # f
          BY <2>2, <2>5, <4>2 DEF FormSteps
        <4>3. QED
          BY <4>1, <4>2
      <3>2. QED
        BY <3>1 DEF FormSteps
    <2>10. ASSUME FormInv(form[f], u)
           PROVE  IF form'[f] = Blank THEN Backed(u)' /\ Drafted(u)'
                  ELSE form'[f].who = u /\ FormInv(form[f], u)'
      <3>1. /\ c.fresh /\ c.seen = roles[u] /\ Backed(u) /\ Drafted(u)
            /\ "owner" \in c.seen /\ (c.swap => u \in owned) => "owner" \in c.want
            /\ ~c.swap => c.seen \subseteq c.want
        BY <1>1, <2>10 DEF FormInv
      <3>2. roles'[u] = c.want
        BY <1>1, <2>1, <3>1
      <3>3. Backed(u)'
        BY <1>1, <3>1, <3>2 DEF Backed
      <3>4. CASE next = "reset"
        <4>1. "stylist" \notin roles'[u]
          BY <3>2, <3>4
        <4>2. QED
          BY <2>3, <2>5, <3>3, <3>4, <4>1 DEF FormInv
      <3>5. CASE next = "ensure"
        <4>1. "stylist" \in roles'[u]
          BY <3>2, <3>5
        <4>2. QED
          BY <2>3, <2>5, <3>3, <3>5, <4>1 DEF FormInv
      <3>6. CASE next = "blank"
        <4>1. "stylist" \notin roles'[u] /\ "stylist" \notin roles[u]
          BY <3>1, <3>2, <3>6
        <4>2. Drafted(u)'
          BY <1>1, <3>1, <4>1 DEF Drafted
        <4>3. QED
          BY <2>3, <2>5, <3>3, <3>6, <4>2
      <3>7. QED
        BY <2>3, <3>4, <3>5, <3>6
    <2>11. \A g \in Forms \ {f} : \/ form'[g] = form[g]
                                  \/ form[g] # Blank /\ form[g].who = u /\ form'[g] # Blank /\ form'[g].who = u
      BY <2>2, <2>5
    <2>12. UserInv(u)'
      BY <1>1, <2>10, <2>11, CallGoesOn
    <2>13. form'[f] # Blank => form'[f].who = u
      BY <2>3, <2>5
    <2>14. QED
      BY <1>1, <2>6, <2>7, <2>9, <2>11, <2>12, <2>13, OneUser DEF Kept
  <1>4. QED
    BY <1>2, <1>3

\* A draft is deleted once its role is gone.
LEMMA ResetStep ==
  ASSUME OnboardingInv, NEW f \in Forms, ResetStylistDraft(f)
  PROVE  OnboardingInv'
  <1> USE DEF OnboardingInv, OnboardingTypeOK
  <1>0. PICK u \in Members : u = form[f].who
    BY DEF ResetStylistDraft, FormCalls, Blank
  <1> DEFINE base == Stale(u, f, Answering)
  <1>1. /\ form[f].at = "reset" /\ form[f] # Blank /\ u = form[f].who
        /\ profile' = [profile EXCEPT ![u] = NoProfile] /\ form' = [base EXCEPT ![f] = Blank]
        /\ UNCHANGED <<roles, owned, mixed>>
    BY <1>0 DEF ResetStylistDraft, FormCalls, Blank
  <1>2. /\ base \in [Forms -> FormCalls \cup {Blank}]
        /\ \A g \in Forms : \/ base[g] = form[g]
                            \/ form[g] # Blank /\ form[g].who = u /\ base[g] # Blank /\ base[g].who = u
        /\ \A g \in Forms : base[g].at = form[g].at
        /\ \A g \in Forms : form[g].at \in {"ensure", "finish"} => base[g].step = form[g].step
    BY <1>1, StaleCalls
  <1>3. form' \in [Forms -> FormCalls \cup {Blank}] /\ form'[f] = Blank /\ \A g \in Forms \ {f} : form'[g] = base[g]
    BY <1>1, <1>2
  <1>4. OnboardingTypeOK'
    BY <1>1, <1>3 DEF Profiles
  <1>5. FormSteps'
    BY <1>2, <1>3 DEF FormSteps, Blank
  <1>6. FormInv(form[f], u) => Backed(u)' /\ Drafted(u)'
    BY <1>1 DEF FormInv, Backed, Drafted
  <1>7. UserInv(u)'
    BY <1>1, <1>2, <1>3, <1>6, CallGoesOn
  <1>8. QED
    BY <1>1, <1>2, <1>3, <1>4, <1>5, <1>7, OneUser DEF Kept

\* The profile is made if there is none, and read.
LEMMA EnsureStep ==
  ASSUME OnboardingInv, NEW f \in Forms, EnsureStylistProfile(f)
  PROVE  OnboardingInv'
  <1> USE DEF OnboardingInv, OnboardingTypeOK
  <1>0. PICK c \in FormCalls, u \in Members : c = form[f] /\ u = c.who
    BY DEF EnsureStylistProfile, FormCalls, Blank
  <1> DEFINE now == IF profile[u] = NoProfile THEN [step |-> 1, active |-> FALSE] ELSE profile[u]
             at == IF c.step = Last THEN "activate" ELSE "finish"
             asked == [c EXCEPT !.at = at, !.read = now]
  <1>1. /\ form[f] = c /\ u = c.who /\ c.at = "ensure" /\ c # Blank /\ c.step \in 1 .. Last
        /\ profile' = [profile EXCEPT ![u] = now]
        /\ UNCHANGED <<roles, owned, mixed>>
    BY <1>0 DEF EnsureStylistProfile, FormCalls, Blank, FormSteps
  <1>2. form' = [form EXCEPT ![f] = asked]
    BY <1>0 DEF EnsureStylistProfile
  <1>3. now \in Profiles /\ now # NoProfile
    BY <1>1, StepNumbers DEF Profiles, NoProfile
  <1>4. asked \in FormCalls /\ asked.at = at /\ asked.who = u /\ asked.step = c.step /\ asked # Blank
    BY <1>1, <1>3 DEF FormCalls, Blank
  <1>5. OnboardingTypeOK'
    BY <1>1, <1>2, <1>3, <1>4
  <1>6. FormSteps'
    BY <1>1, <1>2, <1>4, StepNumbers DEF FormSteps
  <1>7. FormInv(form[f], u) => FormInv(form[f], u)'
    <2>1. form'[f].at \in {"finish", "activate"} /\ profile'[u] = now
      BY <1>1, <1>2, <1>4
    <2>2. QED
      BY <1>1, <1>3, <2>1 DEF FormInv, Backed, Drafted
  <1>8. UserInv(u)'
    BY <1>1, <1>2, <1>4, <1>7, CallGoesOn
  <1>9. QED
    BY <1>1, <1>2, <1>4, <1>5, <1>6, <1>8, OneUser DEF Kept

\* A step is answered, or the last one completes the onboarding.
LEMMA AnswerStep ==
  ASSUME OnboardingInv, NEW f \in Forms, AdvanceStep(f) \/ ActivateProfile(f)
  PROVE  OnboardingInv'
  <1> USE DEF OnboardingInv, OnboardingTypeOK
  <1>0. PICK c \in FormCalls, u \in Members : c = form[f] /\ u = c.who
    BY DEF AdvanceStep, ActivateProfile, FormCalls, Blank
  <1>1. /\ form[f] = c /\ u = c.who /\ c.at \in {"finish", "activate"} /\ c # Blank
        /\ form' = [form EXCEPT ![f] = Blank]
        /\ UNCHANGED <<roles, owned, mixed>>
    BY <1>0 DEF AdvanceStep, ActivateProfile, Finish, FormCalls, Blank
  <1>2. PICK p \in Profiles : /\ profile' = [profile EXCEPT ![u] = p]
                              /\ p = NoProfile <=> profile[u] = NoProfile
    <2>1. CASE AdvanceStep(f)
      <3>1. c.at = "finish" /\ c.step + 1 \in 1 .. Last
        BY <2>1, <1>1, StepNumbers DEF AdvanceStep, FormSteps
      <3>2. ASSUME profile[u] # NoProfile
            PROVE  [profile[u] EXCEPT !.step = c.step + 1] \in Profiles \ {NoProfile}
        <4>1. profile[u] \in [step : 1 .. Last, active : BOOLEAN]
          BY <3>2 DEF Profiles
        <4>2. [profile[u] EXCEPT !.step = c.step + 1] \in [step : 1 .. Last, active : BOOLEAN]
          BY <3>1, <4>1
        <4>3. QED
          BY <4>2, NoProfileApart DEF Profiles
      <3>3. CASE c.fresh /\ profile[u] # NoProfile /\ c.step + 1 > c.read.step
        BY <1>1, <2>1, <3>2, <3>3 DEF AdvanceStep
      <3>4. CASE ~(c.fresh /\ profile[u] # NoProfile /\ c.step + 1 > c.read.step)
        BY <1>1, <2>1, <3>4 DEF AdvanceStep
      <3>5. QED
        BY <3>3, <3>4
    <2>2. CASE ActivateProfile(f)
      <3> DEFINE q == [step |-> IF c.read.step = Last THEN profile[u].step ELSE Last,
                       active |-> profile[u].active \/ ~c.read.active]
      <3>1. ASSUME profile[u] # NoProfile
            PROVE  q \in Profiles \ {NoProfile}
        <4>1. profile[u] \in [step : 1 .. Last, active : BOOLEAN]
          BY <3>1 DEF Profiles
        <4>2. q \in [step : 1 .. Last, active : BOOLEAN]
          BY <4>1, StepNumbers
        <4>3. QED
          BY <4>2, NoProfileApart DEF Profiles
      <3>2. CASE c.fresh /\ profile[u] # NoProfile
        BY <1>1, <2>2, <3>1, <3>2 DEF ActivateProfile
      <3>3. CASE ~(c.fresh /\ profile[u] # NoProfile)
        BY <1>1, <2>2, <3>3 DEF ActivateProfile
      <3>4. QED
        BY <3>2, <3>3
    <2>3. QED
      BY <2>1, <2>2
  <1>3. OnboardingTypeOK' /\ FormSteps'
    BY <1>1, <1>2 DEF FormSteps, Blank
  <1>4. FormInv(form[f], u) => Backed(u)' /\ Drafted(u)'
    BY <1>1, <1>2 DEF FormInv, Backed, Drafted
  <1>5. UserInv(u)'
    BY <1>1, <1>4, CallGoesOn
  <1>6. QED
    BY <1>1, <1>2, <1>3, <1>5, OneUser DEF Kept

\* An admin puts a profile on or off.
LEMMA StatusStep ==
  ASSUME OnboardingInv, NEW u \in Members, NEW active \in BOOLEAN, AdminSetStylistStatus(u, active)
  PROVE  OnboardingInv'
  <1> USE DEF OnboardingInv, OnboardingTypeOK
  <1>1. PICK p \in Profiles \ {NoProfile} : profile[u] # NoProfile /\ profile' = [profile EXCEPT ![u] = p]
    <2>1. profile[u] \in [step : 1 .. Last, active : BOOLEAN]
      BY DEF AdminSetStylistStatus, Profiles
    <2>2. [profile[u] EXCEPT !.active = active] \in Profiles \ {NoProfile}
      BY <2>1, NoProfileApart DEF Profiles
    <2>3. QED
      BY <2>2 DEF AdminSetStylistStatus
  <1>2. UNCHANGED <<roles, owned, form>> /\ mixed' = IF Busy(u) THEN mixed \cup {u} ELSE mixed
    BY DEF AdminSetStylistStatus
  <1>3. OnboardingTypeOK' /\ FormSteps'
    BY <1>1, <1>2 DEF FormSteps
  <1>4. UserInv(u)'
    <2> SUFFICES ASSUME u \notin mixed'
                 PROVE  CallsFor(u)' = {} /\ Backed(u)' /\ Drafted(u)'
      BY DEF UserInv
    <2>1. u \notin mixed /\ CallsFor(u) = {}
      BY <1>2 DEF Busy, CallsFor
    <2>2. Backed(u) /\ Drafted(u)
      BY <2>1 DEF UserInv
    <2>3. QED
      BY <1>1, <1>2, <2>1, <2>2 DEF CallsFor, Backed, Drafted
  <1>5. QED
    BY <1>1, <1>2, <1>3, <1>4, OneUser DEF Kept

\* The role and the salon of an owner come one after the other.
LEMMA OwnerStep ==
  ASSUME OnboardingInv, NEW f \in Forms,
         (\E u \in Members : GrantOwner(f, u)) \/ BecomeOwner(f)
  PROVE  OnboardingInv'
  <1> USE DEF OnboardingInv, OnboardingTypeOK
  <1>1. ASSUME NEW u \in Members, GrantOwner(f, u)
        PROVE  OnboardingInv'
    <2> DEFINE asked == [at |-> "member", who |-> u]
    <2>1. /\ asked \in FormCalls /\ asked # Blank /\ form[f] = Blank
          /\ mixed' = (IF Busy(u) THEN mixed \cup {u} ELSE mixed) /\ profile' = profile
      BY <1>1 DEF GrantOwner, FormCalls, Blank
    <2>2. PICK base \in [Forms -> FormCalls \cup {Blank}] :
            /\ form' = [base EXCEPT ![f] = asked]
            /\ \A g \in Forms : \/ base[g] = form[g]
                                \/ form[g] # Blank /\ form[g].who = u /\ base[g] # Blank /\ base[g].who = u
            /\ \A g \in Forms : base[g].at = form[g].at
            /\ \A g \in Forms : form[g].at \in {"ensure", "finish"} => base[g].step = form[g].step
            /\ \/ roles' = [roles EXCEPT ![u] = @ \cup {"owner"}] /\ owned' = owned
               \/ owned' = owned \cup {u} /\ roles' = roles
      <3>1. CASE roles' = [roles EXCEPT ![u] = @ \cup {"owner"}] /\ form' = [Stale(u, f, Choosing) EXCEPT ![f] = asked] /\ owned' = owned
        <4> DEFINE stale == Stale(u, f, Choosing)
        <4>1. /\ stale \in [Forms -> FormCalls \cup {Blank}]
              /\ \A g \in Forms : \/ stale[g] = form[g]
                                  \/ form[g] # Blank /\ form[g].who = u /\ stale[g] # Blank /\ stale[g].who = u
              /\ \A g \in Forms : stale[g].at = form[g].at
              /\ \A g \in Forms : form[g].at \in {"ensure", "finish"} => stale[g].step = form[g].step
          BY StaleCalls
        <4>2. form' = [stale EXCEPT ![f] = asked]
          BY <3>1
        <4> HIDE DEF stale, asked
        <4>3. QED
          BY <3>1, <4>1, <4>2
      <3>2. CASE owned' = owned \cup {u} /\ form' = [form EXCEPT ![f] = asked] /\ roles' = roles
        BY <3>2
      <3>3. QED
        BY <1>1, <3>1, <3>2 DEF GrantOwner
    <2>3. form' \in [Forms -> FormCalls \cup {Blank}] /\ form'[f] = asked /\ \A g \in Forms \ {f} : form'[g] = base[g]
      BY <2>1, <2>2
    <2>4. roles' \in [Members -> SUBSET Roles] /\ \A v \in Members \ {u} : roles'[v] = roles[v] /\ (v \in owned' <=> v \in owned)
      BY <2>2 DEF Roles
    <2>5. OnboardingTypeOK'
      BY <2>1, <2>2, <2>3, <2>4
    <2>6. FormSteps'
      BY <2>2, <2>3 DEF FormSteps
    <2>7. Backed(u) /\ Drafted(u) => FormInv(form[f], u)'
      <3>1. ("owner" \in roles'[u] \/ u \in owned') /\ ("stylist" \in roles'[u] <=> "stylist" \in roles[u])
        <4>1. CASE roles' = [roles EXCEPT ![u] = @ \cup {"owner"}]
          BY <4>1
        <4>2. CASE owned' = owned \cup {u} /\ roles' = roles
          BY <4>2
        <4>3. QED
          BY <2>2, <4>1, <4>2
      <3>2. form'[f].at = "member"
        BY <2>3
      <3>3. QED
        BY <2>1, <3>1, <3>2 DEF FormInv, Drafted
    <2>8. UserInv(u)'
      BY <2>1, <2>2, <2>3, <2>7, CallBegins
    <2>9. QED
      BY <2>1, <2>2, <2>3, <2>4, <2>5, <2>6, <2>8, OneUser DEF Kept
  <1>2. ASSUME BecomeOwner(f)
        PROVE  OnboardingInv'
    <2>1. PICK u \in Members : u = form[f].who /\ form[f] # Blank /\ form[f].at = "member"
      BY <1>2 DEF BecomeOwner, FormCalls, Blank
    <2>2. /\ owned' = owned \cup {u} /\ form' = [form EXCEPT ![f] = Blank]
          /\ roles' = [roles EXCEPT ![u] = IF u \in owned THEN @ \cup {"owner"} ELSE @]
          /\ UNCHANGED <<profile, mixed>>
      BY <1>2, <2>1 DEF BecomeOwner, Finish
    <2>3. OnboardingTypeOK' /\ FormSteps'
      BY <2>2 DEF FormSteps, Blank, Roles
    <2>4. FormInv(form[f], u) => Backed(u)' /\ Drafted(u)'
      BY <2>1, <2>2 DEF FormInv, Backed, Drafted
    <2>5. UserInv(u)'
      BY <2>1, <2>2, <2>4, CallGoesOn
    <2>6. QED
      BY <2>1, <2>2, <2>3, <2>5, OneUser DEF Kept
  <1>3. QED
    BY <1>1, <1>2

\* The process stops in a call: its user is mixed.
LEMMA CutShortStep ==
  ASSUME OnboardingInv, NEW f \in Forms, CutShort(f)
  PROVE  OnboardingInv'
  <1> USE DEF OnboardingInv, OnboardingTypeOK
  <1>1. PICK u \in Members : u = form[f].who /\ form[f] # Blank
    BY DEF CutShort, FormCalls, Blank
  <1>2. mixed' = mixed \cup {u} /\ form' = [form EXCEPT ![f] = Blank] /\ UNCHANGED <<roles, profile, owned>>
    BY <1>1 DEF CutShort, Finish
  <1>3. OnboardingTypeOK' /\ FormSteps'
    BY <1>2 DEF FormSteps, Blank
  <1>4. UserInv(u)'
    BY <1>2 DEF UserInv
  <1>5. QED
    BY <1>1, <1>2, <1>3, <1>4, OneUser DEF Kept

\* The invariant of onboarding holds in every state: types, the steps a call is
\* at, and what each call that runs alone for its user knows and must repair
\* (onboarding.service.ts).
THEOREM OnboardingInvariantHolds == OnboardingSpec => []OnboardingInv
  <1>1. OnboardingInit => OnboardingInv
    <2> SUFFICES ASSUME OnboardingInit
                 PROVE  OnboardingInv
      OBVIOUS
    <2>1. OnboardingTypeOK /\ FormSteps
      BY DEF OnboardingInit, OnboardingTypeOK, FormSteps, Profiles, Blank
    <2>2. \A u \in Members : CallsFor(u) = {} /\ Backed(u) /\ Drafted(u)
      BY DEF OnboardingInit, CallsFor, Backed, Drafted
    <2>3. QED
      BY <2>1, <2>2 DEF OnboardingInv, UserInv
  <1>2. OnboardingInv /\ [OnboardingNext]_onboardingVars => OnboardingInv'
    <2> SUFFICES ASSUME OnboardingInv, [OnboardingNext]_onboardingVars
                 PROVE  OnboardingInv'
      OBVIOUS
    <2>1. CASE UNCHANGED onboardingVars
      BY <2>1 DEF OnboardingInv, OnboardingTypeOK, FormSteps, UserInv, CallsFor, FormInv, Backed, Drafted, onboardingVars
    <2>2. CASE OnboardingNext
      BY <2>2, BeginStep, CheckStep, SaveStep, ResetStep, EnsureStep, AnswerStep, StatusStep, OwnerStep, CutShortStep
         DEF OnboardingNext
    <2>3. QED
      BY <2>1, <2>2
  <1>3. QED
    BY <1>1, <1>2, PTL DEF OnboardingSpec

\* "'owner' only without an owned salon; 'stylist' only while still a draft":
\* whoever owns a salon has the role for it, and a stylist, and nobody else, has
\* a profile, unless calls for one user overlapped (onboarding.service.ts).
THEOREM RolesKeep == OnboardingSpec => []RolesKeepTheirBacking
  <1>1. OnboardingInv => RolesKeepTheirBacking
    <2> SUFFICES ASSUME OnboardingInv, NEW u \in Members \ mixed, ~Busy(u)
                 PROVE  Backed(u) /\ Drafted(u)
      BY DEF RolesKeepTheirBacking, Backed, Drafted
    <2>1. CallsFor(u) = {}
      BY DEF CallsFor, Busy
    <2>2. QED
      BY <2>1 DEF OnboardingInv, UserInv
  <1>2. QED
    BY <1>1, OnboardingInvariantHolds, PTL

-----------------------------------------------------------------------------
(* The review of identities                                                *)

\* Call d is about person u.
AtDesk(d, u) == desk[d] # Vacant /\ desk[d].of = u

\* The documents of u, or a call about u, name the image.
Belongs(image, u) ==
    \/ image \in {person[u].passport, tick[u].front, tick[u].back}
    \/ \E d \in Desks : AtDesk(d, u) /\ image \in Mentioned(desk[d])

\* No image belongs to two people.
ImagesApart ==
    \A u, v \in People, image \in Images : Belongs(image, u) /\ Belongs(image, v) => u = v

\* In any interleaving a passport is replaced, never taken away, and whoever
\* waits for a decision has one.
PassportKept ==
    /\ \A u \in People : person[u].approval = "pending" => person[u].passport # NoImage
    /\ \A d \in Desks : desk[d].op \in {"person", "approve"} =>
          LET held == desk[d] IN
          /\ held.seen.passport # NoImage => person[held.of].passport # NoImage
          /\ held.new.passport = NoImage => held.seen.passport = NoImage
          /\ held.new.approval = "pending" /\ held.seen.approval # "pending" => held.new.passport # NoImage

\* What a person is shown as agrees with the id approved last.
PersonFits(p, approved) ==
    /\ p.approval # "not_required" => p.foreign
    /\ p.foreign /\ p.approval = "approved" => p.id = approved
    /\ p.approval = "awaiting_documents" => p.passport = NoImage
    /\ p.approval = "pending" => p.passport # NoImage

TickFits(t) ==
    /\ t.verified <=> t.status = "verified"
    /\ t.status = "pending" => t.front # NoImage /\ t.back # NoImage

\* The images of a person are three different ones, all in storage.
ImagesKept(p, t) ==
    /\ {p.passport, t.front, t.back} \subseteq stored \cup {NoImage}
    /\ p.passport \in {t.front, t.back} => p.passport = NoImage
    /\ t.front = t.back => t.front = NoImage

\* What the only call about u saves fits, as what u has now does.
CallFits(held, u) ==
    /\ held.op \in {"person", "approve"} =>
          /\ held.seen = person[u]
          /\ held.op = "approve" => held.new.id = held.seen.id
          /\ PersonFits(held.new, IF held.op = "approve" /\ held.new.approval = "approved" THEN held.seen.id ELSE approvedId[u])
          /\ ImagesKept(held.new, tick[u])
          /\ held.purge \cap {held.new.passport, tick[u].front, tick[u].back} = {}
    /\ held.op = "tick" =>
          /\ held.seen = tick[u]
          /\ TickFits(held.new)
          /\ ImagesKept(person[u], held.new)
          /\ held.purge \cap {person[u].passport, held.new.front, held.new.back} = {}
    /\ held.op = "purge" => held.purge \cap {person[u].passport, tick[u].front, tick[u].back} = {}
    /\ held.op = "insert" => \A e \in NameEdits : ~(edit[e].of = u /\ edit[e].status = "pending")

\* As long as the calls about u take turns.
PersonInv(u) ==
    u \notin crossed =>
        /\ \A d, e \in Desks : AtDesk(d, u) /\ AtDesk(e, u) => d = e
        /\ PersonFits(person[u], approvedId[u])
        /\ TickFits(tick[u])
        /\ ImagesKept(person[u], tick[u])
        /\ \A e, f \in NameEdits :
              /\ edit[e].of = u /\ edit[e].status = "pending"
              /\ edit[f].of = u /\ edit[f].status = "pending"
              => e = f
        /\ \A d \in Desks : AtDesk(d, u) => CallFits(desk[d], u)

ReviewInv == ReviewTypeOK /\ ImagesApart /\ PassportKept /\ \A u \in People : PersonInv(u)

\* A document that is saved is one of the documents there may be.
LEMMA SavedRecords ==
  /\ \A now, seen, new \in Persons :
        /\ Saved(now, seen, new) \in Persons
        /\ Saved(now, seen, new).foreign = IF new.foreign = seen.foreign THEN now.foreign ELSE new.foreign
        /\ Saved(now, seen, new).id = IF new.id = seen.id THEN now.id ELSE new.id
        /\ Saved(now, seen, new).approval = IF new.approval = seen.approval THEN now.approval ELSE new.approval
        /\ Saved(now, seen, new).passport = IF new.passport = seen.passport THEN now.passport ELSE new.passport
        /\ now = seen => Saved(now, seen, new) = new
  /\ \A now, seen, new \in Ticks :
        /\ Saved(now, seen, new) \in Ticks
        /\ Saved(now, seen, new).front \in {now.front, new.front}
        /\ Saved(now, seen, new).back \in {now.back, new.back}
        /\ now = seen => Saved(now, seen, new) = new
  <1>1. ASSUME NEW now \in Persons, NEW seen \in Persons, NEW new \in Persons
        PROVE  /\ Saved(now, seen, new) \in Persons
               /\ Saved(now, seen, new).foreign = IF new.foreign = seen.foreign THEN now.foreign ELSE new.foreign
               /\ Saved(now, seen, new).id = IF new.id = seen.id THEN now.id ELSE new.id
               /\ Saved(now, seen, new).approval = IF new.approval = seen.approval THEN now.approval ELSE new.approval
               /\ Saved(now, seen, new).passport = IF new.passport = seen.passport THEN now.passport ELSE new.passport
               /\ now = seen => Saved(now, seen, new) = new
    BY DEF Saved, Persons
  <1>2. ASSUME NEW now \in Ticks, NEW seen \in Ticks, NEW new \in Ticks
        PROVE  /\ Saved(now, seen, new) \in Ticks
               /\ Saved(now, seen, new).front \in {now.front, new.front}
               /\ Saved(now, seen, new).back \in {now.back, new.back}
               /\ now = seen => Saved(now, seen, new) = new
    BY DEF Saved, Ticks
  <1>3. QED
    BY <1>1, <1>2

\* What a call under way holds, by the kind of call.
LEMMA DeskKinds ==
  ASSUME NEW held \in DeskCalls
  PROVE  /\ held.of \in People /\ held # Vacant
         /\ held.op \in {"person", "approve"} => held.seen \in Persons /\ held.new \in Persons /\ held.purge \in SUBSET Images
         /\ held.op = "tick" => held.seen \in Ticks /\ held.new \in Ticks /\ held.purge \in SUBSET Images
         /\ held.op = "purge" => held.purge \in SUBSET Images
         /\ held.op = "insert" => held.name \in Names
         /\ held.op \in {"rename", "accept", "refuse"} =>
               held \in [op : {"rename", "accept", "refuse"}, of : People, doc : NameEdits, name : Names]
         /\ held.op \in {"person", "approve", "tick", "purge", "insert", "rename", "accept", "refuse"}
  BY DEF DeskCalls, Vacant

\* A step that leaves v's documents, calls and images alone.
LEMMA OthersFit ==
  ASSUME ReviewTypeOK, ReviewTypeOK',
         NEW v \in People, PersonInv(v), v \notin crossed' => v \notin crossed,
         person'[v] = person[v], tick'[v] = tick[v], approvedId'[v] = approvedId[v],
         \A e \in Desks : AtDesk(e, v) \/ AtDesk(e, v)' => desk'[e] = desk[e],
         \A image \in stored : Belongs(image, v) => image \in stored',
         \A e \in NameEdits : edit'[e].of = v /\ edit'[e].status = "pending" => edit'[e] = edit[e]
  PROVE  PersonInv(v)'
  <1> SUFFICES ASSUME v \notin crossed'
               PROVE  PersonInv(v)'
    BY DEF PersonInv
  <1>1. \A e \in Desks : AtDesk(e, v)' => AtDesk(e, v) /\ desk'[e] = desk[e]
    BY DEF AtDesk
  <1>2. ImagesKept(person[v], tick[v])'
    BY DEF PersonInv, ImagesKept, Belongs
  <1>3. ASSUME NEW e \in Desks, AtDesk(e, v)'
        PROVE  CallFits(desk[e], v)'
    <2>1. AtDesk(e, v) /\ desk'[e] = desk[e] /\ CallFits(desk[e], v)
      BY <1>1, <1>3 DEF PersonInv
    <2>2. desk[e].op \in {"person", "approve"} => ImagesKept(desk[e].new, tick[v])'
      BY <2>1 DEF CallFits, ImagesKept, Belongs, Mentioned
    <2>3. desk[e].op = "tick" => ImagesKept(person[v], desk[e].new)'
      BY <2>1 DEF CallFits, ImagesKept, Belongs, Mentioned
    <2>4. QED
      BY <2>1, <2>2, <2>3 DEF CallFits
  <1>4. QED
    BY <1>1, <1>2, <1>3 DEF PersonInv

\* What may be on a desk.
LEMMA DeskTypes ==
  ASSUME ReviewTypeOK
  PROVE  /\ \A d \in Desks : desk[d] # Vacant => desk[d] \in DeskCalls /\ desk[d].of \in People
         /\ \A d \in Desks : desk[d].op # "vacant" => desk[d] # Vacant
         /\ \A d \in Desks : \A image \in Mentioned(desk[d]) : desk[d] # Vacant /\ image \in Images \cup {NoImage}
         /\ \A image : \A u \in People : Belongs(image, u) => image \in Images \cup {NoImage}
  <1>1. \A d \in Desks : desk[d] # Vacant => desk[d] \in DeskCalls /\ desk[d].of \in People
    BY DeskKinds DEF ReviewTypeOK
  <1>2. \A d \in Desks : desk[d].op # "vacant" => desk[d] # Vacant
    BY DEF Vacant
  <1>3. \A d \in Desks : \A image \in Mentioned(desk[d]) : desk[d] # Vacant /\ image \in Images \cup {NoImage}
    <2> SUFFICES ASSUME NEW d \in Desks, NEW image \in Mentioned(desk[d])
                 PROVE  desk[d] # Vacant /\ image \in Images \cup {NoImage}
      OBVIOUS
    <2>1. desk[d] # Vacant
      BY DEF Mentioned, Vacant
    <2>2. CASE desk[d].op \in {"person", "approve"}
      BY <2>1, <2>2, <1>1, DeskKinds DEF Mentioned, Persons
    <2>3. CASE desk[d].op = "tick"
      BY <2>1, <2>3, <1>1, DeskKinds DEF Mentioned, Ticks
    <2>4. CASE desk[d].op = "purge"
      BY <2>1, <2>4, <1>1, DeskKinds DEF Mentioned
    <2>5. QED
      BY <2>1, <2>2, <2>3, <2>4 DEF Mentioned
  <1>4. \A image : \A u \in People : Belongs(image, u) => image \in Images \cup {NoImage}
    BY <1>3 DEF Belongs, ReviewTypeOK, Persons, Ticks
  <1>5. QED
    BY <1>1, <1>2, <1>3, <1>4

\* A call that begins: what it will write fits what it read.
LEMMA CallOpens ==
  ASSUME ReviewInv, NEW d \in Desks, NEW u \in People, NEW what \in DeskCalls, what.of = u,
         Open(d, u, what), UNCHANGED <<person, tick, name, approvedId>>,
         stored \subseteq stored', stored' \subseteq Images, edit' \in [NameEdits -> EditDocs],
         \A e \in NameEdits : edit'[e].status = "pending" => edit'[e] = edit[e],
         \A image \in Mentioned(what) \ {NoImage} : Belongs(image, u) \/ \A v \in People : ~Belongs(image, v),
         what.op \in {"person", "approve"} =>
            /\ what.seen.passport # NoImage => person[u].passport # NoImage
            /\ what.new.passport = NoImage => what.seen.passport = NoImage
            /\ what.new.approval = "pending" /\ what.seen.approval # "pending" => what.new.passport # NoImage,
         u \notin crossed => CallFits(what, u)'
  PROVE  ReviewInv'
  <1> USE DEF ReviewInv
  <1>1. ReviewTypeOK'
    BY DEF Open, ReviewTypeOK
  <1>2. /\ desk[d] = Vacant /\ desk'[d] = what /\ what # Vacant
        /\ \A e \in Desks : e # d => desk'[e] = desk[e]
        /\ crossed \subseteq crossed'
    BY DeskKinds DEF Open, ReviewTypeOK
  <1>3. \A e \in Desks, v \in People : AtDesk(e, v)' <=> AtDesk(e, v) \/ (e = d /\ v = u)
    BY <1>2 DEF AtDesk
  <1>4. \A image : \A v \in People : Belongs(image, v)' => Belongs(image, v) \/ (v = u /\ image \in Mentioned(what))
    <2> SUFFICES ASSUME NEW image, NEW v \in People, Belongs(image, v)'
                 PROVE  Belongs(image, v) \/ (v = u /\ image \in Mentioned(what))
      OBVIOUS
    <2>1. CASE image \in {person'[v].passport, tick'[v].front, tick'[v].back}
      BY <2>1 DEF Belongs
    <2>2. ASSUME NEW e \in Desks, AtDesk(e, v)', image \in Mentioned(desk'[e])
          PROVE  Belongs(image, v) \/ (v = u /\ image \in Mentioned(what))
      <3>1. CASE e = d
        BY <3>1, <2>2, <1>2, <1>3 DEF AtDesk
      <3>2. CASE e # d
        BY <3>2, <2>2, <1>2, <1>3 DEF Belongs
      <3>3. QED
        BY <3>1, <3>2
    <2>3. QED
      BY <2>1, <2>2 DEF Belongs
  <1>5. ImagesApart'
    BY <1>4, ReviewAssumption DEF ImagesApart
  <1>6. PassportKept'
    BY <1>2, DeskKinds DEF PassportKept
  <1>7. ASSUME NEW v \in People
        PROVE  PersonInv(v)'
    <2>1. CASE v # u
      <3>1. \A e \in Desks : AtDesk(e, v) \/ AtDesk(e, v)' => desk'[e] = desk[e]
        BY <1>2, <1>3, <2>1 DEF AtDesk
      <3>2. QED
        BY <3>1, <1>1, <1>2, <2>1, OthersFit
    <2>2. CASE v = u
      <3> SUFFICES ASSUME u \notin crossed'
                   PROVE  PersonInv(u)'
        BY <2>2 DEF PersonInv
      <3>1. u \notin crossed /\ \A e \in Desks : ~AtDesk(e, u)
        BY <1>2 DEF Open, AtDesk
      <3>2. \A e \in Desks : AtDesk(e, u)' => e = d
        BY <3>1, <1>3
      <3>3. ImagesKept(person[u], tick[u])'
        BY <3>1 DEF PersonInv, ImagesKept
      <3>4. PersonFits(person[u], approvedId[u])' /\ TickFits(tick[u])'
        BY <3>1 DEF PersonInv, PersonFits, TickFits
      <3>5. CallFits(desk[d], u)'
        BY <3>1, <1>2
      <3>6. QED
        BY <3>1, <3>2, <3>3, <3>4, <3>5 DEF PersonInv
    <2>3. QED
      BY <2>1, <2>2
  <1>8. QED
    BY <1>1, <1>5, <1>6, <1>7

\* An image just uploaded belongs to nobody yet.
LEMMA FreshBelongsToNobody ==
  ASSUME NEW image, Fresh(image)
  PROVE  image \notin stored /\ \A v \in People : ~Belongs(image, v)
  BY DEF Fresh, Belongs

\* Every action keeps the invariant, one lemma per action.
LEMMA UpdatePersonalStep ==
  ASSUME ReviewInv, NEW d \in Desks, NEW u \in People, NEW id \in ForeignIds \cup {NoId}, UpdatePersonal(d, u, id)
  PROVE  ReviewInv'
  <1>1. PICK p, new :
          /\ p = person[u]
          /\ new = IF id = NoId
                   THEN [p EXCEPT !.foreign = FALSE, !.id = NoId, !.approval = "not_required"]
                   ELSE [p EXCEPT !.foreign = TRUE, !.id = id,
                                  !.approval = IF p.approval = "not_required" \/ p.id # id
                                               THEN IF p.passport = NoImage THEN "awaiting_documents" ELSE "pending"
                                               ELSE @]
          /\ Open(d, u, Desk("person", u, p, new, {}))
          /\ UNCHANGED <<person, tick, name, edit, stored, approvedId>>
    BY DEF UpdatePersonal
  <1>2. p \in Persons /\ new \in Persons /\ new.passport = p.passport
    BY <1>1 DEF ReviewInv, ReviewTypeOK, Persons, Approvals
  <1>3. PICK what : what = Desk("person", u, p, new, {})
    OBVIOUS
  <1>4. what \in DeskCalls /\ what.op = "person" /\ what.of = u /\ what.seen = p /\ what.new = new /\ what.purge = {}
    BY <1>2, <1>3 DEF Desk, DeskCalls
  <1>5. \A image \in Mentioned(what) \ {NoImage} : Belongs(image, u)
    BY <1>1, <1>2, <1>4 DEF Mentioned, Belongs
  <1>6. /\ what.seen.passport # NoImage => person[u].passport # NoImage
        /\ what.new.passport = NoImage => what.seen.passport = NoImage
        /\ what.new.approval = "pending" /\ what.seen.approval # "pending" => what.new.passport # NoImage
    BY <1>1, <1>2, <1>4 DEF Persons
  <1>7. ASSUME u \notin crossed
        PROVE  CallFits(what, u)'
    <2>1. PersonFits(p, approvedId[u]) /\ ImagesKept(p, tick[u])
      BY <1>1, <1>7 DEF ReviewInv, PersonInv
    <2>2. PersonFits(new, approvedId[u])
      BY <1>1, <1>2, <2>1 DEF PersonFits, Persons
    <2>3. ImagesKept(new, tick[u])
      BY <1>2, <2>1 DEF ImagesKept
    <2>4. QED
      BY <1>1, <1>4, <2>2, <2>3 DEF CallFits, ImagesKept
  <1>8. QED
    BY <1>1, <1>3, <1>4, <1>5, <1>6, <1>7, CallOpens DEF ReviewInv, ReviewTypeOK

LEMMA UploadStep ==
  ASSUME ReviewInv, NEW d \in Desks, NEW u \in People, NEW image \in Images, UploadPassportImage(d, u, image)
  PROVE  ReviewInv'
  <1>1. PICK p, new :
          /\ p = person[u]
          /\ new = [p EXCEPT !.passport = image, !.approval = IF p.approval = "approved" THEN @ ELSE "pending"]
          /\ p.foreign
          /\ Fresh(image)
          /\ stored' = stored \cup {image}
          /\ Open(d, u, Desk("person", u, p, new, {p.passport} \ {NoImage}))
          /\ UNCHANGED <<person, tick, name, edit, approvedId>>
    BY DEF UploadPassportImage
  <1>2. p \in Persons /\ new \in Persons /\ new.passport = image /\ image # NoImage
    BY <1>1, ReviewAssumption DEF ReviewInv, ReviewTypeOK, Persons, Approvals
  <1>3. PICK what : what = Desk("person", u, p, new, {p.passport} \ {NoImage})
    OBVIOUS
  <1>4. /\ what \in DeskCalls /\ what.op = "person" /\ what.of = u /\ what.seen = p /\ what.new = new
        /\ what.purge = {p.passport} \ {NoImage}
    <2>1. {p.passport} \ {NoImage} \in SUBSET Images
      BY <1>2 DEF Persons
    <2>2. QED
      BY <1>2, <1>3, <2>1 DEF Desk, DeskCalls
  <1>5. \A g \in Mentioned(what) \ {NoImage} : Belongs(g, u) \/ \A v \in People : ~Belongs(g, v)
    <2>1. \A g \in Mentioned(what) \ {NoImage} : g = image \/ g = person[u].passport
      BY <1>1, <1>2, <1>4 DEF Mentioned
    <2>2. QED
      BY <1>1, <2>1, FreshBelongsToNobody DEF Belongs
  <1>6. /\ what.seen.passport # NoImage => person[u].passport # NoImage
        /\ what.new.passport = NoImage => what.seen.passport = NoImage
        /\ what.new.approval = "pending" /\ what.seen.approval # "pending" => what.new.passport # NoImage
    BY <1>1, <1>2, <1>4
  <1>7. ASSUME u \notin crossed
        PROVE  CallFits(what, u)'
    <2>1. PersonFits(p, approvedId[u]) /\ ImagesKept(p, tick[u])
      BY <1>1, <1>7 DEF ReviewInv, PersonInv
    <2>2. PersonFits(new, approvedId[u])
      BY <1>1, <1>2, <2>1 DEF PersonFits, Persons
    <2>3. image \notin {p.passport, tick[u].front, tick[u].back}
      BY <1>1 DEF Fresh
    <2>4. ImagesKept(new, tick[u])'
      BY <1>1, <1>2, <2>1, <2>3 DEF ImagesKept
    <2>5. what.purge \cap {image, tick[u].front, tick[u].back} = {}
      BY <1>4, <2>1, <2>3 DEF ImagesKept
    <2>6. QED
      BY <1>1, <1>2, <1>4, <2>2, <2>4, <2>5 DEF CallFits
  <1>8. stored' \subseteq Images /\ edit' \in [NameEdits -> EditDocs]
    BY <1>1 DEF ReviewInv, ReviewTypeOK
  <1>9. QED
    BY <1>1, <1>3, <1>4, <1>5, <1>6, <1>7, <1>8, CallOpens

LEMMA DecideForeignStep ==
  ASSUME ReviewInv, NEW d \in Desks, NEW u \in People, NEW decision \in {"approved", "rejected"},
         DecideForeign(d, u, decision)
  PROVE  ReviewInv'
  <1>1. PICK p, new :
          /\ p = person[u]
          /\ new = [p EXCEPT !.approval = decision]
          /\ p.foreign
          /\ Open(d, u, Desk("approve", u, p, new, {}))
          /\ UNCHANGED <<person, tick, name, edit, stored, approvedId>>
    BY DEF DecideForeign
  <1>2. p \in Persons /\ new \in Persons /\ new.passport = p.passport /\ new.id = p.id
    BY <1>1 DEF ReviewInv, ReviewTypeOK, Persons, Approvals
  <1>3. PICK what : what = Desk("approve", u, p, new, {})
    OBVIOUS
  <1>4. what \in DeskCalls /\ what.op = "approve" /\ what.of = u /\ what.seen = p /\ what.new = new /\ what.purge = {}
    BY <1>2, <1>3 DEF Desk, DeskCalls
  <1>5. \A image \in Mentioned(what) \ {NoImage} : Belongs(image, u)
    BY <1>1, <1>2, <1>4 DEF Mentioned, Belongs
  <1>6. /\ what.seen.passport # NoImage => person[u].passport # NoImage
        /\ what.new.passport = NoImage => what.seen.passport = NoImage
        /\ what.new.approval = "pending" /\ what.seen.approval # "pending" => what.new.passport # NoImage
    BY <1>1, <1>2, <1>4 DEF Persons
  <1>7. ASSUME u \notin crossed
        PROVE  CallFits(what, u)'
    <2>1. PersonFits(p, approvedId[u]) /\ ImagesKept(p, tick[u])
      BY <1>1, <1>7 DEF ReviewInv, PersonInv
    <2>2. PersonFits(new, IF new.approval = "approved" THEN p.id ELSE approvedId[u])
      BY <1>1, <1>2, <2>1 DEF PersonFits, Persons
    <2>3. ImagesKept(new, tick[u])
      BY <1>2, <2>1 DEF ImagesKept
    <2>4. QED
      BY <1>1, <1>2, <1>4, <2>2, <2>3 DEF CallFits, ImagesKept
  <1>8. QED
    BY <1>1, <1>3, <1>4, <1>5, <1>6, <1>7, CallOpens DEF ReviewInv, ReviewTypeOK

\* A tick that a call means to save.
LEMMA TickCallOpens ==
  ASSUME ReviewInv, NEW d \in Desks, NEW u \in People, NEW new \in Ticks, NEW purge \in SUBSET Images,
         Open(d, u, Desk("tick", u, tick[u], new, purge)),
         UNCHANGED <<person, tick, name, edit, approvedId>>,
         stored \subseteq stored', stored' \subseteq Images,
         \A image \in ({new.front, new.back} \cup purge) \ {NoImage} :
            Belongs(image, u) \/ \A v \in People : ~Belongs(image, v),
         u \notin crossed =>
            /\ TickFits(new)
            /\ ImagesKept(person[u], new)'
            /\ purge \cap {person[u].passport, new.front, new.back} = {}
  PROVE  ReviewInv'
  <1>1. PICK what : what = Desk("tick", u, tick[u], new, purge)
    OBVIOUS
  <1>2. /\ what \in DeskCalls /\ what.op = "tick" /\ what.of = u /\ what.seen = tick[u] /\ what.new = new
        /\ what.purge = purge
    <2>1. tick[u] \in Ticks
      BY DEF ReviewInv, ReviewTypeOK
    <2>2. QED
      BY <1>1, <2>1 DEF Desk, DeskCalls
  <1>3. Mentioned(what) = {new.front, new.back} \cup purge
    BY <1>2 DEF Mentioned
  <1>4. u \notin crossed => CallFits(what, u)'
    BY <1>2 DEF CallFits
  <1>5. QED
    BY <1>1, <1>2, <1>3, <1>4, CallOpens DEF ReviewInv, ReviewTypeOK

LEMMA SubmitStep ==
  ASSUME ReviewInv, NEW d \in Desks, NEW u \in People, SubmitVerification(d, u)
  PROVE  ReviewInv'
  <1>1. PICK new : new = [tick[u] EXCEPT !.status = "pending"]
    OBVIOUS
  <1>2. /\ new \in Ticks /\ new.front = tick[u].front /\ new.back = tick[u].back /\ new.status = "pending"
        /\ new.verified = tick[u].verified
    BY <1>1 DEF ReviewInv, ReviewTypeOK, Ticks
  <1>3. u \notin crossed => TickFits(new) /\ ImagesKept(person[u], new)
    BY <1>2 DEF SubmitVerification, ReviewInv, PersonInv, TickFits, ImagesKept
  <1>4. /\ Open(d, u, Desk("tick", u, tick[u], new, {}))
        /\ UNCHANGED <<person, tick, name, edit, stored, approvedId>>
    BY <1>1 DEF SubmitVerification
  <1>5. \A image \in ({new.front, new.back} \cup {}) \ {NoImage} : Belongs(image, u)
    BY <1>2 DEF Belongs
  <1>6. stored' \subseteq Images /\ stored \subseteq stored'
    BY <1>4 DEF ReviewInv, ReviewTypeOK
  <1>7. u \notin crossed => ImagesKept(person[u], new)'
    BY <1>3, <1>4 DEF ImagesKept
  <1>8. QED
    BY <1>2, <1>3, <1>4, <1>5, <1>6, <1>7, TickCallOpens

LEMMA DecideTickStep ==
  ASSUME ReviewInv, NEW d \in Desks, NEW u \in People, NEW status \in {"verified", "rejected"},
         DecideVerification(d, u, status)
  PROVE  ReviewInv'
  <1>1. PICK new, purge :
          /\ new = [front |-> NoImage, back |-> NoImage, status |-> status, verified |-> status = "verified"]
          /\ purge = {tick[u].front, tick[u].back} \ {NoImage}
    OBVIOUS
  <1>2. /\ new \in Ticks /\ new.front = NoImage /\ new.back = NoImage
        /\ purge \in SUBSET Images
    BY <1>1 DEF ReviewInv, ReviewTypeOK, Ticks
  <1>3. TickFits(new)
    BY <1>1 DEF TickFits
  <1>4. /\ Open(d, u, Desk("tick", u, tick[u], new, purge))
        /\ UNCHANGED <<person, tick, name, edit, stored, approvedId>>
    BY <1>1 DEF DecideVerification
  <1>5. \A image \in ({new.front, new.back} \cup purge) \ {NoImage} : Belongs(image, u)
    BY <1>1, <1>2 DEF Belongs
  <1>6. stored' \subseteq Images /\ stored \subseteq stored'
    BY <1>4 DEF ReviewInv, ReviewTypeOK
  <1>7. u \notin crossed => ImagesKept(person[u], new)' /\ purge \cap {person[u].passport, new.front, new.back} = {}
    BY <1>1, <1>2, <1>4 DEF ReviewInv, PersonInv, ImagesKept
  <1>8. QED
    BY <1>2, <1>3, <1>4, <1>5, <1>6, <1>7, TickCallOpens

LEMMA SaveDocumentsStep ==
  ASSUME ReviewInv, NEW d \in Desks, NEW u \in People,
         NEW front \in Images \cup {NoImage}, NEW back \in Images \cup {NoImage},
         SaveVerificationDocuments(d, u, front, back)
  PROVE  ReviewInv'
  <1>1. PICK new, images :
          /\ new = [tick[u] EXCEPT !.front = IF front = NoImage THEN @ ELSE front, !.back = IF back = NoImage THEN @ ELSE back]
          /\ images = {front, back} \ {NoImage}
          /\ front = back => front = NoImage
          /\ \A image \in images : Fresh(image)
          /\ stored' = stored \cup images
          /\ IF NoImage \in {new.front, new.back}
             THEN desk[d] = Vacant /\ UNCHANGED <<desk, crossed>>
             ELSE Open(d, u, Desk("tick", u, tick[u], new, {}))
          /\ UNCHANGED <<person, tick, name, edit, approvedId>>
    BY DEF SaveVerificationDocuments
  <1>2. /\ tick[u] \in Ticks /\ new \in Ticks
        /\ new.front = IF front = NoImage THEN tick[u].front ELSE front
        /\ new.back = IF back = NoImage THEN tick[u].back ELSE back
        /\ new.status = tick[u].status /\ new.verified = tick[u].verified
    BY <1>1 DEF ReviewInv, ReviewTypeOK, Ticks
  <1>3. images \subseteq Images /\ stored' \subseteq Images /\ stored \subseteq stored'
    BY <1>1 DEF ReviewInv, ReviewTypeOK
  <1>4. CASE NoImage \in {new.front, new.back}
    <2>1. ReviewTypeOK'
      BY <1>1, <1>3, <1>4 DEF ReviewInv, ReviewTypeOK
    <2>2. /\ \A e \in Desks : desk'[e] = desk[e]
          /\ \A e \in Desks : \A v : AtDesk(e, v)' <=> AtDesk(e, v)
          /\ \A image : \A v \in People : Belongs(image, v)' <=> Belongs(image, v)
      BY <1>1, <1>4 DEF AtDesk, Belongs
    <2>3. ImagesApart' /\ PassportKept'
      BY <1>1, <1>4, <2>2 DEF ReviewInv, ImagesApart, PassportKept
    <2>4. \A v \in People : PersonInv(v)'
      BY <1>1, <1>3, <1>4, <2>1, <2>2, OthersFit DEF ReviewInv
    <2>5. QED
      BY <2>1, <2>3, <2>4 DEF ReviewInv
  <1>5. CASE NoImage \notin {new.front, new.back}
    <2>1. \A image \in ({new.front, new.back} \cup {}) \ {NoImage} : Belongs(image, u) \/ \A v \in People : ~Belongs(image, v)
      BY <1>1, <1>2, FreshBelongsToNobody DEF Belongs
    <2>2. ASSUME u \notin crossed
          PROVE  TickFits(new) /\ ImagesKept(person[u], new)'
      <3>1. TickFits(tick[u]) /\ ImagesKept(person[u], tick[u])
        BY <2>2 DEF ReviewInv, PersonInv
      <3>2. /\ front # NoImage => front \in stored' /\ front \notin stored /\ front \notin {person[u].passport, tick[u].front, tick[u].back}
            /\ back # NoImage => back \in stored' /\ back \notin stored /\ back \notin {person[u].passport, tick[u].front, tick[u].back}
        BY <1>1 DEF Fresh
      <3>3. TickFits(new)
        BY <1>2, <1>5, <3>1 DEF TickFits
      <3>4. {person[u].passport, new.front, new.back} \subseteq stored' \cup {NoImage}
        BY <1>2, <1>3, <3>1, <3>2 DEF ImagesKept
      <3>5. person[u].passport \in {new.front, new.back} => person[u].passport = NoImage
        BY <1>2, <3>1, <3>2 DEF ImagesKept
      <3>6. new.front = new.back => new.front = NoImage
        BY <1>1, <1>2, <3>1, <3>2 DEF ImagesKept
      <3>7. QED
        BY <1>1, <3>3, <3>4, <3>5, <3>6 DEF ImagesKept
    <2>3. PICK purge \in SUBSET Images : purge = {}
      OBVIOUS
    <2>4. Open(d, u, Desk("tick", u, tick[u], new, purge))
      BY <1>1, <1>5, <2>3
    <2>5. /\ \A image \in ({new.front, new.back} \cup purge) \ {NoImage} : Belongs(image, u) \/ \A v \in People : ~Belongs(image, v)
          /\ purge \cap {person[u].passport, new.front, new.back} = {}
      BY <2>1, <2>3
    <2>6. QED
      BY <1>1, <1>2, <1>3, <2>2, <2>4, <2>5, TickCallOpens
  <1>6. QED
    BY <1>4, <1>5

\* A call that ends without writing what it read.
LEMMA CallCloses ==
  ASSUME ReviewInv, NEW d \in Desks, Close(d), UNCHANGED <<person, tick, approvedId>>, ReviewTypeOK',
         crossed \subseteq crossed', stored' = stored,
         \A e \in NameEdits : edit'[e].status = "pending" => edit'[e] = edit[e]
  PROVE  ReviewInv'
  <1>1. desk'[d] = Vacant /\ \A e \in Desks : e # d => desk'[e] = desk[e]
    BY DEF Close, ReviewInv, ReviewTypeOK
  <1>2. \A e \in Desks : \A v : AtDesk(e, v)' <=> AtDesk(e, v) /\ e # d
    BY <1>1 DEF AtDesk
  <1>3. \A image : \A v \in People : Belongs(image, v)' => Belongs(image, v)
    BY <1>1, <1>2 DEF Belongs
  <1>4. ImagesApart'
    BY <1>3 DEF ReviewInv, ImagesApart
  <1>5. PassportKept'
    <2>1. \A e \in Desks : desk'[e].op \in {"person", "approve"} => e # d
      BY <1>1 DEF Vacant
    <2>2. QED
      BY <1>1, <2>1 DEF ReviewInv, PassportKept
  <1>6. ASSUME NEW v \in People
        PROVE  PersonInv(v)'
    <2> SUFFICES ASSUME v \notin crossed'
                 PROVE  PersonInv(v)'
      BY DEF PersonInv
    <2>1. v \notin crossed /\ PersonInv(v)
      BY DEF ReviewInv
    <2>2. \A e \in Desks : AtDesk(e, v)' => AtDesk(e, v) /\ desk'[e] = desk[e]
      BY <1>1, <1>2
    <2>3. \A e \in Desks : AtDesk(e, v)' => CallFits(desk[e], v)'
      BY <2>1, <2>2 DEF PersonInv, CallFits, PersonFits, TickFits, ImagesKept
    <2>4. ImagesKept(person[v], tick[v])'
      BY <2>1 DEF PersonInv, ImagesKept
    <2>5. QED
      BY <2>1, <2>2, <2>3, <2>4 DEF PersonInv
  <1>7. QED
    BY <1>4, <1>5, <1>6 DEF ReviewInv

\* What is left to do after a save are the deletions.
LEMMA PurgesNext ==
  ASSUME ReviewInv, NEW d \in Desks, desk[d].op \in {"person", "approve", "tick"}, PurgeNext(d)
  PROVE  /\ desk' \in [Desks -> DeskCalls \cup {Vacant}]
         /\ \A e \in Desks : e # d => desk'[e] = desk[e]
         /\ desk'[d] = Vacant \/ /\ desk'[d].op = "purge" /\ desk'[d].of = desk[d].of
                                 /\ desk'[d].purge = desk[d].purge
         /\ Mentioned(desk'[d]) \subseteq Mentioned(desk[d])
         /\ \A e \in Desks : \A v : AtDesk(e, v)' => AtDesk(e, v)
  <1>1. desk[d] \in DeskCalls /\ desk[d] # Vacant
    BY DEF ReviewInv, ReviewTypeOK, Vacant
  <1>2. /\ desk[d].of \in People /\ desk[d].purge \in SUBSET Images
        /\ desk[d].purge \subseteq Mentioned(desk[d])
    BY <1>1, DeskKinds DEF Mentioned
  <1>3. desk'[d] = IF desk[d].purge = {} THEN Vacant ELSE [op |-> "purge", of |-> desk[d].of, purge |-> desk[d].purge]
    BY DEF PurgeNext, ReviewInv, ReviewTypeOK
  <1>4. \A e \in Desks : e # d => desk'[e] = desk[e]
    BY DEF PurgeNext, ReviewInv, ReviewTypeOK
  <1>5. desk'[d] \in DeskCalls \cup {Vacant}
    BY <1>2, <1>3 DEF DeskCalls
  <1>6. desk' \in [Desks -> DeskCalls \cup {Vacant}]
    BY <1>4, <1>5 DEF PurgeNext, ReviewInv, ReviewTypeOK
  <1>7. Mentioned(desk'[d]) \subseteq Mentioned(desk[d])
    BY <1>2, <1>3 DEF Mentioned, Vacant
  <1>8. \A e \in Desks : \A v : AtDesk(e, v)' => AtDesk(e, v)
    BY <1>1, <1>3, <1>4 DEF AtDesk
  <1>9. QED
    BY <1>3, <1>4, <1>6, <1>7, <1>8

LEMMA SavePersonStep ==
  ASSUME ReviewInv, NEW d \in Desks, SavePerson(d)
  PROVE  ReviewInv'
  <1> USE DEF ReviewInv
  <1>1. PICK held, u, now :
          /\ held = desk[d] /\ u = held.of /\ now = Saved(person[u], held.seen, held.new)
          /\ held.op \in {"person", "approve"}
          /\ IF now.id # NoId /\ Taken(u, now.id)
             THEN Close(d) /\ UNCHANGED <<person, approvedId>>
             ELSE /\ person' = [person EXCEPT ![u] = now]
                  /\ approvedId' = IF held.op = "approve" /\ held.new.approval = "approved"
                                   THEN [approvedId EXCEPT ![u] = held.seen.id] ELSE approvedId
                  /\ PurgeNext(d)
          /\ UNCHANGED <<tick, name, edit, stored, crossed>>
    BY DEF SavePerson
  <1>2. /\ held \in DeskCalls /\ u \in People /\ AtDesk(d, u)
        /\ held.seen \in Persons /\ held.new \in Persons /\ held.purge \in SUBSET Images
    BY <1>1, DeskKinds DEF ReviewTypeOK, Vacant, AtDesk
  <1>3. person[u] \in Persons /\ now \in Persons
    BY <1>1, <1>2, SavedRecords DEF ReviewTypeOK
  <1>4. CASE now.id # NoId /\ Taken(u, now.id)
    <2>1. ReviewTypeOK'
      BY <1>1, <1>4 DEF Close, ReviewTypeOK
    <2>2. QED
      BY <1>1, <1>4, <2>1, CallCloses
  <1>5. CASE ~(now.id # NoId /\ Taken(u, now.id))
    <2>1. /\ person' = [person EXCEPT ![u] = now]
          /\ approvedId' = IF held.op = "approve" /\ held.new.approval = "approved"
                           THEN [approvedId EXCEPT ![u] = held.seen.id] ELSE approvedId
          /\ PurgeNext(d)
      BY <1>1, <1>5
    <2>2. /\ person'[u] = now
          /\ \A v \in People : v # u => person'[v] = person[v] /\ approvedId'[v] = approvedId[v]
          /\ approvedId'[u] = IF held.op = "approve" /\ held.new.approval = "approved" THEN held.seen.id ELSE approvedId[u]
      BY <1>2, <2>1 DEF ReviewTypeOK
    <2>3. ReviewTypeOK'
      <3>1. held.seen.id \in ForeignIds \cup {NoId}
        BY <1>2 DEF Persons
      <3>2. QED
        BY <1>1, <1>2, <1>3, <2>1, <3>1, PurgesNext DEF ReviewTypeOK
    <2>4. /\ \A e \in Desks : e # d => desk'[e] = desk[e]
          /\ desk'[d] = Vacant \/ /\ desk'[d].op = "purge" /\ desk'[d].of = u /\ desk'[d].purge = held.purge
          /\ Mentioned(desk'[d]) \subseteq Mentioned(desk[d])
          /\ \A e \in Desks : \A v : AtDesk(e, v)' => AtDesk(e, v)
      BY <1>1, <2>1, PurgesNext
    <2>5. now.passport \in {person[u].passport, held.new.passport}
      BY <1>1, <1>2, <1>3, SavedRecords
    <2>6. \A image : \A v \in People : Belongs(image, v)' => Belongs(image, v)
      <3>1. held.new.passport \in Mentioned(desk[d])
        BY <1>1 DEF Mentioned
      <3>2. \A v \in People : \A image \in {person'[v].passport, tick'[v].front, tick'[v].back} : Belongs(image, v)
        BY <1>1, <1>2, <2>2, <2>5, <3>1 DEF Belongs
      <3>3. \A e \in Desks : Mentioned(desk'[e]) \subseteq Mentioned(desk[e])
        BY <2>4
      <3>4. QED
        BY <2>4, <3>2, <3>3 DEF Belongs
    <2>7. ImagesApart'
      BY <2>6 DEF ImagesApart
    <2>8. PassportKept'
      <3>1. person[u].passport # NoImage => now.passport # NoImage
        BY <1>1, <1>2, <1>3, SavedRecords DEF PassportKept
      <3>2. now.approval = "pending" => now.passport # NoImage
        BY <1>1, <1>2, <1>3, SavedRecords DEF PassportKept
      <3>3. \A v \in People : person'[v].approval = "pending" => person'[v].passport # NoImage
        BY <2>2, <3>2 DEF PassportKept
      <3>4. \A v \in People : person[v].passport # NoImage => person'[v].passport # NoImage
        BY <2>2, <3>1
      <3>5. \A e \in Desks : desk'[e].op \in {"person", "approve"} => desk'[e] = desk[e] /\ desk[e].of \in People
        BY <2>4, DeskTypes DEF Vacant
      <3>6. QED
        BY <3>3, <3>4, <3>5 DEF PassportKept
    <2>9. ASSUME NEW v \in People
          PROVE  PersonInv(v)'
      <3>1. CASE v # u
        <4>1. \A e \in Desks : AtDesk(e, v) \/ AtDesk(e, v)' => desk'[e] = desk[e]
          BY <1>1, <2>4, <3>1 DEF AtDesk
        <4>2. QED
          BY <1>1, <2>2, <2>3, <3>1, <4>1, OthersFit
      <3>2. CASE v = u
        <4> SUFFICES ASSUME u \notin crossed
                     PROVE  PersonInv(u)'
          BY <1>1, <3>2 DEF PersonInv
        <4>1. CallFits(held, u) /\ PersonInv(u)
          BY <1>1, <1>2 DEF PersonInv
        <4>2. now = held.new
          BY <1>1, <1>2, <1>3, <4>1, SavedRecords DEF CallFits
        <4>3. PersonFits(person[u], approvedId[u])'
          BY <1>1, <2>2, <4>1, <4>2 DEF CallFits
        <4>4. TickFits(tick[u])' /\ ImagesKept(person[u], tick[u])'
          <5>1. TickFits(tick[u]) /\ ImagesKept(now, tick[u])
            BY <1>1, <4>1, <4>2 DEF CallFits, PersonInv
          <5>2. QED
            BY <1>1, <2>2, <5>1 DEF ImagesKept, TickFits
        <4>5. \A e \in Desks : AtDesk(e, u)' => e = d
          BY <1>2, <2>4, <4>1 DEF PersonInv
        <4>6. AtDesk(d, u)' => CallFits(desk[d], u)'
          <5>1. held.purge \cap {now.passport, tick[u].front, tick[u].back} = {}
            BY <1>1, <4>1, <4>2 DEF CallFits
          <5>2. AtDesk(d, u)' => desk'[d].op = "purge" /\ desk'[d].purge = held.purge
            BY <2>4 DEF AtDesk
          <5>3. QED
            BY <1>1, <2>2, <5>1, <5>2 DEF CallFits
        <4>7. QED
          BY <1>1, <4>1, <4>3, <4>4, <4>5, <4>6 DEF PersonInv
      <3>3. QED
        BY <3>1, <3>2
    <2>10. QED
      BY <2>3, <2>7, <2>8, <2>9
  <1>6. QED
    BY <1>4, <1>5

LEMMA SaveTickStep ==
  ASSUME ReviewInv, NEW d \in Desks, SaveTick(d)
  PROVE  ReviewInv'
  <1> USE DEF ReviewInv
  <1>1. PICK held, u, now :
          /\ held = desk[d] /\ u = held.of /\ now = Saved(tick[u], held.seen, held.new)
          /\ held.op = "tick"
          /\ tick' = [tick EXCEPT ![u] = now]
          /\ PurgeNext(d)
          /\ UNCHANGED <<person, name, edit, stored, approvedId, crossed>>
    BY DEF SaveTick
  <1>2. /\ held \in DeskCalls /\ u \in People /\ AtDesk(d, u)
        /\ held.seen \in Ticks /\ held.new \in Ticks /\ held.purge \in SUBSET Images
    BY <1>1, DeskKinds DEF ReviewTypeOK, Vacant, AtDesk
  <1>3. tick[u] \in Ticks /\ now \in Ticks
    BY <1>1, <1>2, SavedRecords DEF ReviewTypeOK
  <1>4. tick'[u] = now /\ \A v \in People : v # u => tick'[v] = tick[v]
    BY <1>1, <1>2 DEF ReviewTypeOK
  <1>5. ReviewTypeOK'
    BY <1>1, <1>2, <1>3, PurgesNext DEF ReviewTypeOK
  <1>6. /\ \A e \in Desks : e # d => desk'[e] = desk[e]
        /\ desk'[d] = Vacant \/ /\ desk'[d].op = "purge" /\ desk'[d].of = u /\ desk'[d].purge = held.purge
        /\ Mentioned(desk'[d]) \subseteq Mentioned(desk[d])
        /\ \A e \in Desks : \A v : AtDesk(e, v)' => AtDesk(e, v)
    BY <1>1, PurgesNext
  <1>7. now.front \in {tick[u].front, held.new.front} /\ now.back \in {tick[u].back, held.new.back}
    BY <1>1, <1>2, <1>3, SavedRecords
  <1>8. \A image : \A v \in People : Belongs(image, v)' => Belongs(image, v)
    <2>1. {held.new.front, held.new.back} \subseteq Mentioned(desk[d])
      BY <1>1 DEF Mentioned
    <2>2. \A v \in People : \A image \in {person'[v].passport, tick'[v].front, tick'[v].back} : Belongs(image, v)
      BY <1>1, <1>2, <1>4, <1>7, <2>1 DEF Belongs
    <2>3. \A e \in Desks : Mentioned(desk'[e]) \subseteq Mentioned(desk[e])
      BY <1>6
    <2>4. QED
      BY <1>6, <2>2, <2>3 DEF Belongs
  <1>9. ImagesApart'
    BY <1>8 DEF ImagesApart
  <1>10. PassportKept'
    <2>1. \A e \in Desks : desk'[e].op \in {"person", "approve"} => desk'[e] = desk[e] /\ desk[e].of \in People
      BY <1>6, DeskTypes DEF Vacant
    <2>2. QED
      BY <1>1, <2>1 DEF PassportKept
  <1>11. ASSUME NEW v \in People
         PROVE  PersonInv(v)'
    <2>1. CASE v # u
      <3>1. \A e \in Desks : AtDesk(e, v) \/ AtDesk(e, v)' => desk'[e] = desk[e]
        BY <1>1, <1>6, <2>1 DEF AtDesk
      <3>2. QED
        BY <1>1, <1>4, <1>5, <2>1, <3>1, OthersFit
    <2>2. CASE v = u
      <3> SUFFICES ASSUME u \notin crossed
                   PROVE  PersonInv(u)'
        BY <1>1, <2>2 DEF PersonInv
      <3>1. CallFits(held, u) /\ PersonInv(u)
        BY <1>1, <1>2 DEF PersonInv
      <3>2. now = held.new
        BY <1>1, <1>2, <1>3, <3>1, SavedRecords DEF CallFits
      <3>3. PersonFits(person[u], approvedId[u])'
        BY <1>1, <3>1 DEF PersonInv
      <3>4. TickFits(tick[u])' /\ ImagesKept(person[u], tick[u])'
        BY <1>1, <1>4, <3>1, <3>2 DEF CallFits, ImagesKept, TickFits
      <3>5. \A e \in Desks : AtDesk(e, u)' => e = d
        BY <1>2, <1>6, <3>1 DEF PersonInv
      <3>6. AtDesk(d, u)' => CallFits(desk[d], u)'
        <4>1. held.purge \cap {person[u].passport, now.front, now.back} = {}
          BY <1>1, <3>1, <3>2 DEF CallFits
        <4>2. AtDesk(d, u)' => desk'[d].op = "purge" /\ desk'[d].purge = held.purge
          BY <1>6 DEF AtDesk
        <4>3. QED
          BY <1>1, <1>4, <4>1, <4>2 DEF CallFits
      <3>7. QED
        BY <1>1, <3>1, <3>3, <3>4, <3>5, <3>6 DEF PersonInv
    <2>3. QED
      BY <2>1, <2>2
  <1>12. QED
    BY <1>5, <1>9, <1>10, <1>11

\* What a call deletes belongs to nobody else, and the person does not use it.
LEMMA PurgeStep ==
  ASSUME ReviewInv, NEW d \in Desks, PurgeImages(d)
  PROVE  ReviewInv'
  <1> USE DEF ReviewInv
  <1>1. PICK u, purge :
          /\ u = desk[d].of /\ purge = desk[d].purge /\ desk[d].op = "purge"
          /\ stored' = stored \ purge
          /\ Close(d)
          /\ UNCHANGED <<person, tick, name, edit, approvedId, crossed>>
    BY DEF PurgeImages
  <1>2. u \in People /\ purge \in SUBSET Images /\ AtDesk(d, u) /\ Mentioned(desk[d]) = purge
    BY <1>1, DeskKinds DEF ReviewTypeOK, Vacant, AtDesk, Mentioned
  <1>3. desk'[d] = Vacant /\ \A e \in Desks : e # d => desk'[e] = desk[e]
    BY <1>1 DEF Close, ReviewTypeOK
  <1>4. \A e \in Desks : \A v : AtDesk(e, v)' <=> AtDesk(e, v) /\ e # d
    BY <1>3 DEF AtDesk
  <1>5. \A image : \A v \in People : Belongs(image, v)' => Belongs(image, v)
    BY <1>1, <1>3, <1>4 DEF Belongs
  <1>6. ReviewTypeOK'
    BY <1>1 DEF Close, ReviewTypeOK
  <1>7. ImagesApart'
    BY <1>5 DEF ImagesApart
  <1>8. PassportKept'
    <2>1. \A e \in Desks : desk'[e].op \in {"person", "approve"} => e # d
      BY <1>3 DEF Vacant
    <2>2. QED
      BY <1>1, <1>3, <2>1 DEF PassportKept
  <1>9. ASSUME NEW v \in People
        PROVE  PersonInv(v)'
    <2>1. CASE v # u
      <3>1. \A image \in stored : Belongs(image, v) => image \in stored'
        <4>1. \A image \in purge : Belongs(image, u)
          BY <1>2 DEF Belongs
        <4>2. QED
          BY <1>1, <1>2, <2>1, <4>1 DEF ImagesApart
      <3>2. \A e \in Desks : AtDesk(e, v) \/ AtDesk(e, v)' => desk'[e] = desk[e]
        BY <1>1, <1>3, <1>4, <2>1 DEF AtDesk
      <3>3. QED
        BY <1>1, <1>6, <3>1, <3>2, OthersFit
    <2>2. CASE v = u
      <3> SUFFICES ASSUME u \notin crossed
                   PROVE  PersonInv(u)'
        BY <1>1, <2>2 DEF PersonInv
      <3>1. CallFits(desk[d], u) /\ PersonInv(u)
        BY <1>1, <1>2 DEF PersonInv
      <3>2. purge \cap {person[u].passport, tick[u].front, tick[u].back} = {}
        BY <1>1, <3>1 DEF CallFits
      <3>3. ImagesKept(person[u], tick[u])'
        BY <1>1, <3>1, <3>2 DEF PersonInv, ImagesKept
      <3>4. \A e \in Desks : ~AtDesk(e, u)'
        BY <1>2, <1>4, <3>1 DEF PersonInv
      <3>5. QED
        BY <1>1, <3>1, <3>3, <3>4 DEF PersonInv
    <2>3. QED
      BY <2>1, <2>2
  <1>10. QED
    BY <1>6, <1>7, <1>8, <1>9

LEMMA EditTypes ==
  /\ \A doc \in EditDocs : doc.of \in People \/ doc.of = NoPerson
  /\ \A doc \in EditDocs : doc.status \in {"pending", "approved", "rejected"} => doc \in [of : People, name : Names, status : {"pending", "approved", "rejected"}]
  /\ NoEdit.status # "pending" /\ NoEdit \in EditDocs
  BY DEF EditDocs, NoEdit

LEMMA RequestEditStep ==
  ASSUME ReviewInv, NEW d \in Desks, NEW u \in People, NEW n \in Names, RequestNameEdit(d, u, n)
  PROVE  ReviewInv'
  <1>1. PICK what : what = [op |-> "insert", of |-> u, name |-> n]
    OBVIOUS
  <1>2. what \in DeskCalls /\ what.of = u /\ what.op = "insert" /\ Mentioned(what) = {}
    BY <1>1 DEF DeskCalls, Mentioned
  <1>3. /\ Open(d, u, what) /\ UNCHANGED <<person, tick, name, stored, approvedId>>
        /\ edit' = [e \in NameEdits |-> IF edit[e].of = u /\ edit[e].status = "pending" THEN NoEdit ELSE edit[e]]
    BY <1>1 DEF RequestNameEdit
  <1>4. /\ edit' \in [NameEdits -> EditDocs]
        /\ \A e \in NameEdits : edit'[e].status = "pending" => edit'[e] = edit[e] /\ edit[e].of # u
    BY <1>3, EditTypes DEF ReviewInv, ReviewTypeOK
  <1>5. CallFits(what, u)'
    BY <1>2, <1>4 DEF CallFits
  <1>6. stored' \subseteq Images /\ stored \subseteq stored'
    BY <1>3 DEF ReviewInv, ReviewTypeOK
  <1>7. QED
    BY <1>2, <1>3, <1>4, <1>5, <1>6, CallOpens

LEMMA ReviewEditStep ==
  ASSUME ReviewInv, NEW d \in Desks, NEW e \in NameEdits, NEW op \in {"rename", "refuse"}, ReviewEdit(d, e, op)
  PROVE  ReviewInv'
  <1>1. PICK u, what : u = edit[e].of /\ what = [op |-> op, of |-> u, doc |-> e, name |-> edit[e].name]
    OBVIOUS
  <1>2. u \in People /\ edit[e].name \in Names
    BY <1>1, EditTypes DEF ReviewEdit, ReviewInv, ReviewTypeOK
  <1>3. what \in DeskCalls /\ what.of = u /\ what.op = op /\ Mentioned(what) = {}
    BY <1>1, <1>2 DEF DeskCalls, Mentioned
  <1>4. Open(d, u, what) /\ UNCHANGED <<person, tick, name, edit, stored, approvedId>>
    BY <1>1 DEF ReviewEdit
  <1>5. CallFits(what, u)'
    BY <1>3 DEF CallFits
  <1>6. /\ stored' \subseteq Images /\ stored \subseteq stored' /\ edit' \in [NameEdits -> EditDocs]
        /\ \A f \in NameEdits : edit'[f].status = "pending" => edit'[f] = edit[f]
    BY <1>4 DEF ReviewInv, ReviewTypeOK
  <1>7. QED
    BY <1>2, <1>3, <1>4, <1>5, <1>6, CallOpens

LEMMA InsertStep ==
  ASSUME ReviewInv, NEW d \in Desks, InsertEdit(d)
  PROVE  ReviewInv'
  <1> USE DEF ReviewInv
  <1>0. PICK u : u = desk[d].of
    OBVIOUS
  <1>1. PICK k \in NameEdits :
          /\ desk[d].op = "insert" /\ edit[k] = NoEdit
          /\ edit' = [edit EXCEPT ![k] = [of |-> u, name |-> desk[d].name, status |-> "pending"]]
          /\ Close(d)
          /\ UNCHANGED <<person, tick, name, stored, approvedId, crossed>>
    BY <1>0 DEF InsertEdit
  <1>2. u \in People /\ desk[d].name \in Names /\ AtDesk(d, u)
    BY <1>0, <1>1, DeskKinds DEF ReviewTypeOK, Vacant, AtDesk
  <1>3. desk'[d] = Vacant /\ \A e \in Desks : e # d => desk'[e] = desk[e]
    BY <1>1 DEF Close, ReviewTypeOK
  <1>4. \A e \in Desks : \A v : AtDesk(e, v)' <=> AtDesk(e, v) /\ e # d
    BY <1>3 DEF AtDesk
  <1>5. \A image : \A v \in People : Belongs(image, v)' => Belongs(image, v)
    BY <1>1, <1>3, <1>4 DEF Belongs
  <1>6. /\ edit' \in [NameEdits -> EditDocs] /\ edit'[k].of = u
        /\ \A e \in NameEdits : e # k => edit'[e] = edit[e]
    BY <1>1, <1>2 DEF ReviewTypeOK, EditDocs
  <1>7. ReviewTypeOK'
    BY <1>1, <1>6 DEF Close, ReviewTypeOK
  <1>8. ImagesApart'
    BY <1>5 DEF ImagesApart
  <1>9. PassportKept'
    <2>1. \A e \in Desks : desk'[e].op \in {"person", "approve"} => e # d
      BY <1>3 DEF Vacant
    <2>2. QED
      BY <1>1, <1>3, <2>1 DEF PassportKept
  <1>10. ASSUME NEW v \in People
         PROVE  PersonInv(v)'
    <2>1. CASE v # u
      <3>1. \A e \in Desks : AtDesk(e, v) \/ AtDesk(e, v)' => desk'[e] = desk[e]
        BY <1>0, <1>1, <1>2, <1>3, <1>4, <2>1 DEF AtDesk
      <3>2. \A e \in NameEdits : edit'[e].of = v /\ edit'[e].status = "pending" => edit'[e] = edit[e]
        BY <1>6, <2>1
      <3>3. QED
        BY <1>1, <1>7, <3>1, <3>2, OthersFit
    <2>2. CASE v = u
      <3> SUFFICES ASSUME u \notin crossed
                   PROVE  PersonInv(u)'
        BY <1>1, <2>2 DEF PersonInv
      <3>1. CallFits(desk[d], u) /\ PersonInv(u)
        BY <1>0, <1>1, <1>2 DEF PersonInv
      <3>2. \A e \in NameEdits : edit'[e].of = u /\ edit'[e].status = "pending" => e = k
        BY <1>1, <1>6, <3>1 DEF CallFits
      <3>3. \A e \in Desks : ~AtDesk(e, u)'
        BY <1>2, <1>4, <3>1 DEF PersonInv
      <3>4. ImagesKept(person[u], tick[u])'
        BY <1>1, <3>1 DEF PersonInv, ImagesKept
      <3>5. QED
        BY <1>1, <3>1, <3>2, <3>3, <3>4 DEF PersonInv
    <2>3. QED
      BY <2>1, <2>2
  <1>11. QED
    BY <1>7, <1>8, <1>9, <1>10

LEMMA ApplyNameStep ==
  ASSUME ReviewInv, NEW d \in Desks, ApplyName(d)
  PROVE  ReviewInv'
  <1> USE DEF ReviewInv
  <1>1. PICK u :
          /\ u = desk[d].of /\ desk[d].op = "rename"
          /\ name' = [name EXCEPT ![u] = desk[d].name]
          /\ desk' = [desk EXCEPT ![d].op = "accept"]
          /\ UNCHANGED <<person, tick, edit, stored, approvedId, crossed>>
    BY DEF ApplyName
  <1>2. /\ u \in People /\ AtDesk(d, u) /\ desk[d].name \in Names
        /\ desk[d] \in [op : {"rename", "accept", "refuse"}, of : People, doc : NameEdits, name : Names]
    BY <1>1, DeskKinds DEF ReviewTypeOK, Vacant, AtDesk
  <1>3. /\ desk'[d] \in [op : {"rename", "accept", "refuse"}, of : People, doc : NameEdits, name : Names]
        /\ desk'[d].op = "accept" /\ desk'[d].of = u /\ \A e \in Desks : e # d => desk'[e] = desk[e]
    BY <1>1, <1>2 DEF ReviewTypeOK
  <1>4. desk'[d] \in DeskCalls
    BY <1>3 DEF DeskCalls
  <1>5. ReviewTypeOK'
    BY <1>1, <1>2, <1>4 DEF ReviewTypeOK
  <1>6. \A e \in Desks : \A v : AtDesk(e, v)' <=> AtDesk(e, v)
    BY <1>2, <1>3, <1>4, DeskKinds DEF AtDesk
  <1>7. \A e \in Desks : Mentioned(desk'[e]) = Mentioned(desk[e])
    BY <1>1, <1>3 DEF Mentioned
  <1>8. ImagesApart'
    BY <1>1, <1>6, <1>7 DEF ImagesApart, Belongs
  <1>9. PassportKept'
    <2>1. \A e \in Desks : desk'[e].op \in {"person", "approve"} => e # d
      BY <1>3
    <2>2. QED
      BY <1>1, <1>3, <2>1 DEF PassportKept
  <1>10. ASSUME NEW v \in People
         PROVE  PersonInv(v)'
    <2>1. CASE v # u
      <3>1. \A e \in Desks : AtDesk(e, v) \/ AtDesk(e, v)' => desk'[e] = desk[e]
        BY <1>1, <1>3, <1>6, <2>1 DEF AtDesk
      <3>2. QED
        BY <1>1, <1>5, <3>1, OthersFit
    <2>2. CASE v = u
      <3> SUFFICES ASSUME u \notin crossed
                   PROVE  PersonInv(u)'
        BY <1>1, <2>2 DEF PersonInv
      <3>1. PersonInv(u) /\ \A e \in Desks : AtDesk(e, u) => e = d
        BY <1>1, <1>2 DEF PersonInv
      <3>2. ImagesKept(person[u], tick[u])'
        BY <1>1, <3>1 DEF PersonInv, ImagesKept
      <3>3. CallFits(desk[d], u)'
        BY <1>3 DEF CallFits
      <3>4. QED
        BY <1>1, <1>6, <3>1, <3>2, <3>3 DEF PersonInv
    <2>3. QED
      BY <2>1, <2>2
  <1>11. QED
    BY <1>5, <1>8, <1>9, <1>10

LEMMA SaveEditStep ==
  ASSUME ReviewInv, NEW d \in Desks, SaveEdit(d)
  PROVE  ReviewInv'
  <1>0. PICK k : k = desk[d].doc
    OBVIOUS
  <1>1. PICK verdict \in {"approved", "rejected"} :
          /\ desk[d].op \in {"accept", "refuse"}
          /\ edit' = [edit EXCEPT ![k] = IF @ = NoEdit THEN @ ELSE [@ EXCEPT !.status = verdict]]
          /\ Close(d)
          /\ UNCHANGED <<person, tick, name, stored, approvedId, crossed>>
    BY <1>0 DEF SaveEdit
  <1>2. k \in NameEdits
    BY <1>0, <1>1, DeskKinds DEF ReviewInv, ReviewTypeOK, Vacant
  <1>3. edit'[k] \in EditDocs /\ edit'[k].status # "pending"
    <2>1. CASE edit[k] = NoEdit
      BY <1>1, <1>2, <2>1, EditTypes DEF ReviewInv, ReviewTypeOK
    <2>2. CASE edit[k] # NoEdit
      <3>1. edit[k] \in [of : People, name : Names, status : {"pending", "approved", "rejected"}]
        BY <1>2, <2>2 DEF ReviewInv, ReviewTypeOK, EditDocs
      <3>2. edit'[k] = [edit[k] EXCEPT !.status = verdict]
        BY <1>1, <1>2, <2>2 DEF ReviewInv, ReviewTypeOK
      <3>3. QED
        BY <3>1, <3>2 DEF EditDocs
    <2>3. QED
      BY <2>1, <2>2
  <1>4. \A e \in NameEdits : e # k => edit'[e] = edit[e]
    BY <1>1 DEF ReviewInv, ReviewTypeOK
  <1>5. ReviewTypeOK'
    BY <1>1, <1>2, <1>3, <1>4 DEF ReviewInv, ReviewTypeOK, Close
  <1>6. QED
    BY <1>1, <1>3, <1>4, <1>5, CallCloses

LEMMA CutOffStep ==
  ASSUME ReviewInv, NEW d \in Desks, CutOff(d)
  PROVE  ReviewInv'
  <1>1. desk[d].of \in People
    BY DeskTypes DEF CutOff, ReviewInv
  <1>2. ReviewTypeOK'
    BY <1>1 DEF CutOff, Close, ReviewInv, ReviewTypeOK
  <1>3. QED
    BY <1>2, CallCloses DEF CutOff

LEMMA RenameStep ==
  ASSUME ReviewInv, NEW u \in People, NEW n \in Names, RenameInPersonal(u, n)
  PROVE  ReviewInv'
  <1>1. ReviewTypeOK'
    BY DEF RenameInPersonal, ReviewInv, ReviewTypeOK
  <1>2. ImagesApart' /\ PassportKept' /\ \A v \in People : PersonInv(v)'
    BY DEF RenameInPersonal, ReviewInv, ImagesApart, Belongs, AtDesk, PassportKept, PersonInv,
           PersonFits, TickFits, ImagesKept, CallFits
  <1>3. QED
    BY <1>1, <1>2 DEF ReviewInv

\* The invariant begins to hold.
LEMMA ReviewBegins ==
  ASSUME ReviewInit
  PROVE  ReviewInv
  <1> USE DEF ReviewInit
  <1>1. ReviewTypeOK
    BY EditTypes DEF ReviewTypeOK, Persons, Approvals, Ticks
  <1>2. \A d \in Desks : desk[d] = Vacant /\ desk[d].op = "vacant"
    BY DEF Vacant
  <1>3. \A u \in People : /\ person[u].passport = NoImage /\ tick[u].front = NoImage /\ tick[u].back = NoImage
                          /\ person[u].approval = "not_required" /\ ~person[u].foreign
                          /\ tick[u].status = "incomplete" /\ ~tick[u].verified
    OBVIOUS
  <1>4. ImagesApart
    BY <1>2, <1>3, ReviewAssumption DEF ImagesApart, Belongs, AtDesk
  <1>5. PassportKept
    BY <1>2, <1>3 DEF PassportKept
  <1>6. \A u \in People : PersonInv(u)
    BY <1>2, <1>3 DEF PersonInv, AtDesk, PersonFits, TickFits, ImagesKept, NoEdit
  <1>7. QED
    BY <1>1, <1>4, <1>5, <1>6 DEF ReviewInv

\* Every step of the reviews of identity keeps the invariant.
LEMMA ReviewGoesOn ==
  ASSUME ReviewInv, [ReviewNext]_reviewVars
  PROVE  ReviewInv'
  <1>1. ASSUME ForeignNext PROVE ReviewInv'
    BY <1>1, UpdatePersonalStep, UploadStep, DecideForeignStep, SavePersonStep, PurgeStep, CutOffStep DEF ForeignNext
  <1>2. ASSUME TickNext PROVE ReviewInv'
    BY <1>2, SaveDocumentsStep, SubmitStep, DecideTickStep, SaveTickStep, PurgeStep, CutOffStep DEF TickNext
  <1>3. ASSUME NameNext PROVE ReviewInv'
    BY <1>3, RenameStep, RequestEditStep, ReviewEditStep, InsertStep, ApplyNameStep, SaveEditStep, CutOffStep
       DEF NameNext, ApproveProfileEdit, RejectProfileEdit
  <1>4. CASE UNCHANGED reviewVars
    BY <1>4 DEF reviewVars, ReviewInv, ReviewTypeOK, ImagesApart, Belongs, AtDesk, PassportKept, PersonInv,
           PersonFits, TickFits, ImagesKept, CallFits
  <1>5. QED
    BY <1>1, <1>2, <1>3, <1>4 DEF ReviewNext

\* The invariant of identity reviews holds in every state: types, the owner of every
\* image, and what a call that is alone for its person knows (admin.service.ts,
\* stylist.service.ts).
THEOREM ReviewInvariantHolds == ReviewSpec => []ReviewInv
  BY ReviewBegins, ReviewGoesOn, PTL DEF ReviewSpec

\* "Re-enter the gate when newly foreign or the id changed": an approved id is the
\* one an admin approved, and whoever waits has an image, unless calls for the
\* person overlapped (reviewForeign of admin.service.ts, updatePersonalInfo).
THEOREM ApprovedIdsWereReviewed == ReviewSpec => []ApprovedIdWasReviewed
  <1>1. ASSUME ReviewInv
        PROVE  ApprovedIdWasReviewed
    <2> SUFFICES ASSUME NEW u \in People
                 PROVE  /\ person[u].approval = "pending" => person[u].passport # NoImage
                        /\ u \notin crossed =>
                              /\ u \in ListForeignApprovals("approved") => person[u].id = approvedId[u]
                              /\ person[u].approval = "awaiting_documents" => person[u].passport = NoImage
                              /\ person[u].approval = "pending" =>
                                    u \in ListForeignApprovals("pending") /\ ResolveUserPassport(u) # {}
      BY DEF ApprovedIdWasReviewed
    <2>1. person[u].approval = "pending" => person[u].passport # NoImage
      BY <1>1 DEF ReviewInv, PassportKept
    <2>2. u \notin crossed => PersonFits(person[u], approvedId[u]) /\ ImagesKept(person[u], tick[u])
      BY <1>1 DEF ReviewInv, PersonInv
    <2>3. u \notin crossed /\ person[u].approval = "pending" => person[u].passport \in ResolveUserPassport(u)
      BY <2>1, <2>2 DEF ImagesKept, ResolveUserPassport
    <2>4. QED
      BY <2>1, <2>2, <2>3 DEF PersonFits, ListForeignApprovals
  <1>2. QED
    BY <1>1, ReviewInvariantHolds, PTL

\* The blue tick is shown exactly while the last decision stands, and a listed
\* request can be looked at (decideVerification, submitVerification).
THEOREM TicksMatchDecisions == ReviewSpec => []TickMatchesDecision
  <1>1. ASSUME ReviewInv
        PROVE  TickMatchesDecision
    <2>1. ASSUME NEW u \in People \ crossed
          PROVE  /\ tick[u].verified <=> u \in ListVerifications("verified")
                 /\ u \in ListVerifications("pending") => Cardinality(ResolveVerificationDocuments(u)) = 2
      <3>1. TickFits(tick[u]) /\ ImagesKept(person[u], tick[u])
        BY <1>1 DEF ReviewInv, PersonInv
      <3>2. ASSUME tick[u].status = "pending"
            PROVE  Cardinality(ResolveVerificationDocuments(u)) = 2
        <4>1. /\ ResolveVerificationDocuments(u) = {tick[u].front} \cup {tick[u].back}
              /\ tick[u].back \notin {tick[u].front}
          BY <3>1, <3>2 DEF TickFits, ImagesKept, ResolveVerificationDocuments
        <4>2. IsFiniteSet({tick[u].front}) /\ Cardinality({tick[u].front}) = 1
          BY FS_Singleton
        <4>3. Cardinality({tick[u].front} \cup {tick[u].back}) = Cardinality({tick[u].front}) + 1
          BY <4>1, <4>2, FS_AddElement
        <4>4. QED
          BY <4>1, <4>2, <4>3
      <3>3. QED
        BY <3>1, <3>2 DEF TickFits, ListVerifications
    <2>2. ASSUME crossed = {}
          PROVE  PendingCounts.profileEdits = Cardinality({edit[e].of : e \in ListProfileEdits("pending")})
      <3> DEFINE S == ListProfileEdits("pending")
                 T == {edit[e].of : e \in S}
                 f == [e \in S |-> edit[e].of]
      <3>1. \A e \in S : edit[e].of \in People
        BY <1>1, EditTypes DEF ReviewInv, ReviewTypeOK, ListProfileEdits
      <3>2. \A d, e \in S : edit[d].of = edit[e].of => d = e
        BY <1>1, <2>2, <3>1 DEF ReviewInv, PersonInv, ListProfileEdits
      <3>3. f \in Bijection(S, T)
        BY <3>2 DEF Bijection, Injection, Surjection, IsInjective
      <3>4. IsFiniteSet(S)
        BY FS_Subset, ReviewAssumption DEF ListProfileEdits
      <3>5. Cardinality(T) = Cardinality(S)
        BY <3>3, <3>4, FS_Bijection DEF ExistsBijection
      <3>6. QED
        BY <3>5 DEF PendingCounts, ListProfileEdits
    <2>3. QED
      BY <2>1, <2>2 DEF TickMatchesDecision
  <1>2. QED
    BY <1>1, ReviewInvariantHolds, PTL

-----------------------------------------------------------------------------
(* Sessions                                                                *)

USE DEF sessionVars, Issue, Done

\* What an exchange of a token goes through.
ExchangeOps == {"rotate", "issue"}

\* A call exchanges a token of session s.
Exchanges(c, s) == call[c].op \in ExchangeOps /\ call[c].from \in Of(s)

\* Token t is what session s can go on with: it is live, or a call holds it.
Usable(t, s) == t \in Of(s) /\ (Live(t) \/ \E c \in Clients : Exchanges(c, s) /\ call[c].from = t)

\* Sessions are named by the token they began with, and nothing refers to a
\* token that was not issued.
Named ==
    /\ \A s \in closed : login[s] = s
    /\ \A t \in Tokens : login[t] # NoToken => login[login[t]] = login[t]
    /\ \A t \in Tokens : Live(t) => login[t] # NoToken
    /\ \A c \in Clients : call[c].op \in ExchangeOps /\ call[c].from # NoToken => login[call[c].from] # NoToken

\* The row of a token is revoked before the next one is issued.
RevokedFirst == \A c \in Clients : call[c].op = "issue" /\ call[c].from # NoToken => ~Live(call[c].from)

\* Of a session that is not doubled one token is usable, and one call
\* exchanges it; of a closed one, none.
OneWay ==
    \A s \in Tokens \ doubled :
        /\ \A t1, t2 \in Tokens : Usable(t1, s) /\ Usable(t2, s) => t1 = t2
        /\ \A c1, c2 \in Clients : Exchanges(c1, s) /\ Exchanges(c2, s) => c1 = c2
        /\ s \in closed => \A t \in Tokens : ~Usable(t, s)

SessionInv == SessionTypeOK /\ Named /\ RevokedFirst /\ OneWay

-----------------------------------------------------------------------------
(* Types *)

\* A revoked row is a row, and it is not live.
LEMMA RevokedRow ==
  ASSUME SessionTypeOK, NEW t \in Tokens
  PROVE  /\ [token[t] EXCEPT !.live = FALSE] \in Rows
         /\ [token[t] EXCEPT !.live = FALSE].live = FALSE
  <1>1. CASE token[t] = NoRow
    <2>1. [NoRow EXCEPT !.live = FALSE] \in [phone : {"none"}, live : {FALSE}]
      BY DEF NoRow
    <2>2. ASSUME NEW row \in [phone : {"none"}, live : {FALSE}]
          PROVE  row = NoRow
      BY DEF NoRow
    <2>3. QED
      BY <1>1, <2>1, <2>2 DEF Rows, NoRow
  <1>2. CASE token[t] \in [phone : Phones, live : BOOLEAN]
    BY <1>2 DEF Rows
  <1>3. QED
    BY <1>1, <1>2 DEF SessionTypeOK, Rows

\* Every action keeps the variables in their types.
LEMMA SessionTypeStep ==
  ASSUME SessionTypeOK, Named, [SessionNext]_sessionVars
  PROVE  SessionTypeOK'
  <1> USE SessionAssumption DEF SessionTypeOK, SessionCalls, NoCall, Rows, NoRow, Free
  <1>1. ASSUME NEW t \in Tokens, Logout(t)
        PROVE  SessionTypeOK'
    <2>1. [token[t] EXCEPT !.live = FALSE] \in Rows
      BY RevokedRow
    <2>2. token' = [token EXCEPT ![t] = [token[t] EXCEPT !.live = FALSE]]
      BY <1>1 DEF Logout
    <2>3. login[t] \in Tokens
      BY <1>1 DEF Logout
    <2>4. QED
      BY <1>1, <2>1, <2>2, <2>3 DEF Logout
  <1>2. ASSUME NEW t \in Tokens, ExpireToken(t)
        PROVE  SessionTypeOK'
    BY <1>2 DEF ExpireToken
  <1>3. ASSUME NEW u \in Phones, NEW status \in {"active", "disabled"}, SetUserStatus(u, status)
        PROVE  SessionTypeOK'
    BY <1>3 DEF SetUserStatus
  <1>4. ASSUME NEW c \in Clients, NEW u \in Phones,
               \/ VerifyOtp(c, u) \/ LoginWithPassword(c, u) \/ ImpersonateUser(c, u)
               \/ SetPassword(c, u) \/ ResetPassword(c, u) \/ DeleteUser(c, u)
        PROVE  SessionTypeOK'
    BY <1>4 DEF VerifyOtp, LoginWithPassword, ImpersonateUser, SetPassword, ResetPassword, DeleteUser
  <1>5. ASSUME NEW c \in Clients, NEW t \in Tokens, Refresh(c, t)
        PROVE  SessionTypeOK'
    <2>1. token[t].phone \in Phones
      BY <1>5 DEF Refresh, Live
    <2>2. login[t] \in Tokens
      BY <1>5 DEF Refresh, Named
    <2>3. QED
      BY <1>5, <2>1, <2>2 DEF Refresh
  <1>6. ASSUME NEW c \in Clients, IssueTokens(c)
        PROVE  SessionTypeOK'
    <2>1. PICK t \in Tokens :
              /\ token' = [token EXCEPT ![t] = [phone |-> call[c].phone, live |-> TRUE]]
              /\ login' = [login EXCEPT ![t] = IF call[c].from = NoToken THEN t ELSE login[call[c].from]]
      BY <1>6 DEF IssueTokens
    <2>2. call[c].phone \in Phones /\ call[c].from \in Tokens \cup {NoToken}
      BY <1>6 DEF IssueTokens
    <2>3. QED
      BY <1>6, <2>1, <2>2 DEF IssueTokens
  <1>7. ASSUME NEW c \in Clients, RevokeRotated(c)
        PROVE  SessionTypeOK'
    <2>1. call[c].from \in Tokens /\ call[c].phone \in Phones
      BY <1>7 DEF RevokeRotated
    <2>2. [token[call[c].from] EXCEPT !.live = FALSE] \in Rows
      BY <2>1, RevokedRow
    <2>3. token' = [token EXCEPT ![call[c].from] = [token[call[c].from] EXCEPT !.live = FALSE]] \/ token' = token
      BY <1>7 DEF RevokeRotated
    <2>4. QED
      BY <1>7, <2>1, <2>2, <2>3 DEF RevokeRotated
  <1>8. ASSUME NEW c \in Clients, SavePassword(c) \/ DeleteAccount(c) \/ CrashCall(c)
        PROVE  SessionTypeOK'
    BY <1>8 DEF SavePassword, DeleteAccount, CrashCall
  <1>9. CASE UNCHANGED sessionVars
    BY <1>9
  <1>10. QED
    BY <1>1, <1>2, <1>3, <1>4, <1>5, <1>6, <1>7, <1>8, <1>9 DEF SessionNext

-----------------------------------------------------------------------------
(* The invariant *)

\* A step that issues no token and starts no exchange leaves at most what a
\* session had before it.
LEMMA FewerStayOneWay ==
  ASSUME SessionTypeOK, SessionInv, login' = login, doubled' = doubled, closed' = closed,
         \A t \in Tokens : Live(t)' => Live(t),
         \A c \in Clients : call'[c].op \in ExchangeOps /\ call'[c].from # NoToken =>
             /\ call[c].op \in ExchangeOps /\ call'[c].from = call[c].from
             /\ call'[c].op = "issue" => call[c].op = "issue" \/ ~token'[call[c].from].live
  PROVE  Named' /\ RevokedFirst' /\ OneWay'
  <1> USE SessionAssumption
  <1>1. \A s \in Tokens, c \in Clients : Exchanges(c, s)' => Exchanges(c, s) /\ call'[c].from = call[c].from
    BY DEF Exchanges, Of
  <1>2. \A s, t \in Tokens : Usable(t, s)' => Usable(t, s)
    BY <1>1 DEF Usable, Of
  <1>3. OneWay'
    <2> SUFFICES ASSUME NEW s \in Tokens \ doubled
                 PROVE  /\ \A t1, t2 \in Tokens : Usable(t1, s)' /\ Usable(t2, s)' => t1 = t2
                        /\ \A c1, c2 \in Clients : Exchanges(c1, s)' /\ Exchanges(c2, s)' => c1 = c2
                        /\ s \in closed => \A t \in Tokens : ~Usable(t, s)'
      BY DEF OneWay
    <2> QED
      BY <1>1, <1>2 DEF OneWay, SessionInv
  <1>4. Named'
    BY DEF Named, SessionInv
  <1>5. RevokedFirst'
    <2>1. ASSUME NEW c \in Clients, call'[c].op = "issue", call'[c].from # NoToken
          PROVE  ~token'[call'[c].from].live
      <3>1. call[c].op \in ExchangeOps /\ call'[c].from = call[c].from
        BY <2>1 DEF ExchangeOps
      <3>2. call[c].from \in Tokens
        BY <2>1, <3>1 DEF SessionTypeOK, SessionCalls, NoCall, ExchangeOps
      <3>3. QED
        BY <2>1, <3>1, <3>2 DEF RevokedFirst, SessionInv, ExchangeOps, Live
    <2>2. QED
      BY <2>1 DEF RevokedFirst, Live
  <1>6. QED
    BY <1>3, <1>4, <1>5

\* The calls that issue nothing and begin no exchange: those of a login, of a
\* password, of an admin, and whatever makes tokens unusable.
LEMMA OtherSteps ==
  ASSUME SessionInv,
         \/ \E t \in Tokens : ExpireToken(t)
         \/ \E u \in Phones, status \in {"active", "disabled"} : SetUserStatus(u, status)
         \/ \E c \in Clients, u \in Phones :
               \/ VerifyOtp(c, u) \/ LoginWithPassword(c, u) \/ ImpersonateUser(c, u)
               \/ SetPassword(c, u) \/ ResetPassword(c, u) \/ DeleteUser(c, u)
         \/ \E c \in Clients : RevokeRotated(c) \/ SavePassword(c) \/ DeleteAccount(c) \/ CrashCall(c)
         \/ UNCHANGED sessionVars
  PROVE  Named' /\ RevokedFirst' /\ OneWay'
  <1> USE SessionAssumption DEF SessionInv, SessionTypeOK, ExchangeOps, Live, NoCall
  <1>1. ASSUME NEW t \in Tokens, ExpireToken(t)
        PROVE  Named' /\ RevokedFirst' /\ OneWay'
    BY <1>1, FewerStayOneWay DEF ExpireToken, NoRow, RevokedFirst
  <1>2. ASSUME NEW u \in Phones, NEW status \in {"active", "disabled"}, SetUserStatus(u, status)
        PROVE  Named' /\ RevokedFirst' /\ OneWay'
    BY <1>2, FewerStayOneWay DEF SetUserStatus
  <1>3. ASSUME NEW c \in Clients, NEW u \in Phones,
               \/ VerifyOtp(c, u) \/ LoginWithPassword(c, u) \/ ImpersonateUser(c, u)
               \/ SetPassword(c, u) \/ ResetPassword(c, u)
        PROVE  Named' /\ RevokedFirst' /\ OneWay'
    BY <1>3, FewerStayOneWay DEF VerifyOtp, LoginWithPassword, ImpersonateUser, SetPassword, ResetPassword
  <1>4. ASSUME NEW c \in Clients, NEW u \in Phones, DeleteUser(c, u)
        PROVE  Named' /\ RevokedFirst' /\ OneWay'
    BY <1>4, FewerStayOneWay DEF DeleteUser, NoRow
  <1>5. ASSUME NEW c \in Clients, RevokeRotated(c)
        PROVE  Named' /\ RevokedFirst' /\ OneWay'
    <2>1. call[c].from \in Tokens
      BY <1>5 DEF RevokeRotated, SessionCalls
    <2>2. \/ token' = [token EXCEPT ![call[c].from] = [token[call[c].from] EXCEPT !.live = FALSE]]
          \/ token' = token /\ call'[c] = NoCall
      BY <1>5 DEF RevokeRotated
    <2>3. [token[call[c].from] EXCEPT !.live = FALSE].live = FALSE
      BY <2>1, RevokedRow
    <2>4. \A t \in Tokens : Live(t)' => Live(t)
      BY <2>1, <2>2, <2>3
    <2>5. ~token'[call[c].from].live \/ call'[c] = NoCall
      BY <2>1, <2>2, <2>3
    <2>6. QED
      BY <1>5, <2>1, <2>4, <2>5, FewerStayOneWay DEF RevokeRotated
  <1>6. ASSUME NEW c \in Clients, SavePassword(c) \/ DeleteAccount(c) \/ CrashCall(c)
        PROVE  Named' /\ RevokedFirst' /\ OneWay'
    BY <1>6, FewerStayOneWay DEF SavePassword, DeleteAccount, CrashCall
  <1>7. CASE UNCHANGED sessionVars
    BY <1>7, FewerStayOneWay
  <1>8. QED
    BY <1>1, <1>2, <1>3, <1>4, <1>5, <1>6, <1>7

\* A logout: whatever session it is of, what is left is what others hold; and a
\* session without them has nothing more.
LEMMA LogoutStep ==
  ASSUME SessionInv, NEW t \in Tokens, Logout(t)
  PROVE  Named' /\ RevokedFirst' /\ OneWay'
  <1> USE SessionAssumption DEF SessionInv, SessionTypeOK
  <1>1. [token[t] EXCEPT !.live = FALSE].live = FALSE
    BY RevokedRow
  <1>2. token' = [token EXCEPT ![t] = [token[t] EXCEPT !.live = FALSE]]
    BY DEF Logout
  <1>3. \A x \in Tokens : Live(x)' <=> Live(x) /\ x # t
    BY <1>1, <1>2 DEF Live
  <1>4. login' = login /\ call' = call /\ doubled' = doubled
    BY DEF Logout
  <1>5. Named' /\ RevokedFirst'
    <2>1. \A s \in closed' : login[s] = s
      BY DEF Logout, Named
    <2>2. QED
      BY <1>3, <1>4, <2>1 DEF Named, RevokedFirst, Live, ExchangeOps, SessionCalls, NoCall
  <1>6. \A s \in Tokens, c \in Clients : Exchanges(c, s)' = Exchanges(c, s)
    BY <1>4 DEF Exchanges, Of
  <1>7. \A s, x \in Tokens : Usable(x, s)' => Usable(x, s)
    BY <1>3, <1>4, <1>6 DEF Usable, Of
  <1>8. ASSUME NEW s \in Tokens \ doubled
        PROVE  /\ \A t1, t2 \in Tokens : Usable(t1, s)' /\ Usable(t2, s)' => t1 = t2
               /\ \A c1, c2 \in Clients : Exchanges(c1, s)' /\ Exchanges(c2, s)' => c1 = c2
    BY <1>6, <1>7 DEF OneWay
  <1>9. ASSUME NEW s \in Tokens \ doubled, s \in closed', NEW x \in Tokens
        PROVE  ~Usable(x, s)'
    <2>1. CASE s \in closed
      BY <2>1, <1>7 DEF OneWay
    <2>2. CASE s \notin closed
      <3>1. s = login[t] /\ Live(t) /\ Exchanging(s) = {}
        BY <1>9, <2>2 DEF Logout
      <3>2. \A c \in Clients : ~Exchanges(c, s)
        BY <3>1 DEF Exchanging, Exchanges, ExchangeOps
      <3>3. Usable(t, s)
        BY <3>1 DEF Usable, Of
      <3>4. SUFFICES ASSUME Usable(x, s)'
                     PROVE  FALSE
        OBVIOUS
      <3>5. x = t
        BY <1>7, <3>3, <3>4 DEF OneWay
      <3>6. QED
        BY <1>3, <1>6, <3>2, <3>4, <3>5 DEF Usable
    <2>3. QED
      BY <2>1, <2>2
  <1>10. QED
    BY <1>4, <1>5, <1>8, <1>9 DEF OneWay

\* Beginning an exchange: of a session that is not doubled no other is under way.
LEMMA RefreshStep ==
  ASSUME SessionInv, NEW c \in Clients, NEW t \in Tokens, Refresh(c, t)
  PROVE  Named' /\ RevokedFirst' /\ OneWay'
  <1> USE SessionAssumption DEF SessionInv, SessionTypeOK
  <1>1. call' = [call EXCEPT ![c] = [op |-> "rotate", phone |-> token[t].phone, from |-> t]]
    BY DEF Refresh
  <1>2. Live(t) /\ login[t] # NoToken /\ call[c] = NoCall
    BY DEF Refresh, Named, Free
  <1>3. login' = login /\ token' = token /\ closed' = closed
    BY DEF Refresh
  <1>4. Named' /\ RevokedFirst'
    BY <1>1, <1>2, <1>3 DEF Named, RevokedFirst, Live, ExchangeOps
  <1>5. ~(call[c].op \in ExchangeOps) /\ call'[c].op = "rotate" /\ call'[c].from = t
    BY <1>1, <1>2 DEF NoCall, ExchangeOps
  <1>6. \A s \in Tokens, d \in Clients \ {c} : Exchanges(d, s)' = Exchanges(d, s) /\ call'[d] = call[d]
    BY <1>1, <1>3 DEF Exchanges, Of
  <1>7. \A s \in Tokens : Exchanges(c, s)' <=> t \in Of(s)
    BY <1>3, <1>5 DEF Exchanges, Of, ExchangeOps
  <1>8. \A s, x \in Tokens : Usable(x, s)' => Usable(x, s)
    BY <1>2, <1>3, <1>5, <1>6, <1>7 DEF Usable, Of, Live
  <1>9. doubled \subseteq doubled'
    BY DEF Refresh
  <1>10. ASSUME NEW s \in Tokens \ doubled', NEW d \in Clients \ {c}, Exchanges(d, s), t \in Of(s)
         PROVE  FALSE
    <2>1. s \notin doubled /\ login[t] = s
      BY <1>9, <1>10 DEF Of
    <2>2. call[d].from \in Tokens
      BY <1>10 DEF Exchanges, Of
    <2>3. Usable(t, s) /\ Usable(call[d].from, s)
      BY <1>2, <1>10, <2>2 DEF Usable, Exchanges
    <2>4. call[d].from = t
      BY <2>1, <2>2, <2>3 DEF OneWay
    <2>5. call[d].op # "issue"
      BY <1>2, <2>4 DEF RevokedFirst
    <2>6. call[d].op # "rotate"
      BY <1>10, <2>1, <2>4 DEF Refresh
    <2>7. QED
      BY <1>10, <2>5, <2>6 DEF Exchanges, ExchangeOps
  <1>11. ASSUME NEW s \in Tokens \ doubled'
         PROVE  /\ \A t1, t2 \in Tokens : Usable(t1, s)' /\ Usable(t2, s)' => t1 = t2
                /\ s \in closed => \A x \in Tokens : ~Usable(x, s)'
    BY <1>8, <1>9 DEF OneWay
  <1>12. ASSUME NEW s \in Tokens \ doubled', NEW c1 \in Clients, NEW c2 \in Clients,
                Exchanges(c1, s)', Exchanges(c2, s)'
         PROVE  c1 = c2
    <2>1. CASE c1 # c /\ c2 # c
      BY <1>6, <1>9, <1>12, <2>1 DEF OneWay
    <2>2. CASE c1 = c \/ c2 = c
      BY <1>6, <1>7, <1>10, <1>12, <2>2
    <2>3. QED
      BY <2>1, <2>2
  <1>13. QED
    BY <1>3, <1>4, <1>11, <1>12 DEF OneWay

\* Issuing the new token: it is all that its session has.
LEMMA IssueStep ==
  ASSUME SessionInv, NEW c \in Clients, IssueTokens(c)
  PROVE  Named' /\ RevokedFirst' /\ OneWay'
  <1> USE SessionAssumption DEF SessionInv, SessionTypeOK
  <1> DEFINE f == call[c].from
  <1>1. PICK t \in Tokens :
           /\ login[t] = NoToken
           /\ token' = [token EXCEPT ![t] = [phone |-> call[c].phone, live |-> TRUE]]
           /\ login' = [login EXCEPT ![t] = IF f = NoToken THEN t ELSE login[f]]
    BY DEF IssueTokens
  <1>2. /\ call[c].op = "issue" /\ call' = [call EXCEPT ![c] = NoCall]
        /\ doubled' = doubled /\ closed' = closed
        /\ f \in Tokens \cup {NoToken}
    BY DEF IssueTokens, SessionCalls, NoCall
  <1>3. f \in Tokens => login[f] \in Tokens /\ login[login[f]] = login[f] /\ ~Live(f) /\ f # t
    BY <1>1, <1>2 DEF Named, RevokedFirst, ExchangeOps
  <1>4. PICK n \in Tokens :
           /\ login'[t] = n /\ login'[n] = n
           /\ f = NoToken => n = t
           /\ f \in Tokens => n = login[f] /\ n # t
    BY <1>1, <1>2, <1>3
  <1>5. \A x \in Tokens \ {t} : login'[x] = login[x] /\ token'[x] = token[x]
    BY <1>1
  <1>6. \A d \in Clients \ {c} : call'[d] = call[d]
    BY <1>2
  <1>7. call'[c].op \notin ExchangeOps
    BY <1>2 DEF NoCall, ExchangeOps
  <1>8. \A d \in Clients : call[d].op \in ExchangeOps => call[d].from \in Tokens \cup {NoToken} /\ call[d].from # t
    BY <1>1 DEF Named, ExchangeOps, SessionCalls, NoCall
  <1>9. Named'
    <2>1. \A x \in closed : login'[x] = x
      BY <1>1, <1>5 DEF Named
    <2>2. ASSUME NEW x \in Tokens, login'[x] # NoToken
          PROVE  login'[login'[x]] = login'[x]
      BY <1>1, <1>4, <1>5, <2>2 DEF Named
    <2>3. \A x \in Tokens : token'[x].live => login'[x] # NoToken
      BY <1>4, <1>5 DEF Named, Live
    <2>4. \A d \in Clients : call'[d].op \in ExchangeOps /\ call'[d].from # NoToken => login'[call'[d].from] # NoToken
      BY <1>5, <1>6, <1>7, <1>8 DEF Named
    <2>5. QED
      BY <1>2, <2>1, <2>2, <2>3, <2>4 DEF Named, Live
  <1>10. RevokedFirst'
    BY <1>5, <1>6, <1>7, <1>8 DEF RevokedFirst, Live, ExchangeOps
  <1>11. \A s \in Tokens, d \in Clients : Exchanges(d, s)' => d # c /\ Exchanges(d, s)
    BY <1>5, <1>6, <1>7, <1>8 DEF Exchanges, Of
  <1>12. ASSUME NEW s \in Tokens \ {n}, NEW x \in Tokens, Usable(x, s)'
         PROVE  Usable(x, s)
    <2>1. x # t
      BY <1>4, <1>12 DEF Usable, Of
    <2>2. QED
      BY <1>5, <1>6, <1>11, <1>12, <2>1 DEF Usable, Of, Live
  <1>13. ASSUME n \notin doubled
         PROVE  /\ n \notin closed
                /\ \A d \in Clients : ~Exchanges(d, n)'
                /\ \A x \in Tokens : Usable(x, n)' => x = t
    <2>1. CASE f = NoToken
      <3>1. \A x \in Tokens : login[x] # t
        BY <1>1 DEF Named
      <3>2. QED
        BY <1>1, <1>4, <1>5, <1>11, <2>1, <3>1 DEF Usable, Exchanges, Of, Named
    <2>2. CASE f \in Tokens
      <3>1. Exchanges(c, n) /\ Usable(f, n)
        BY <1>2, <1>4, <2>2 DEF Exchanges, Usable, Of, ExchangeOps
      <3>2. n \notin closed /\ \A d \in Clients : ~Exchanges(d, n)'
        BY <1>4, <1>11, <1>13, <2>2, <3>1 DEF OneWay
      <3>3. ASSUME NEW x \in Tokens \ {t}, Usable(x, n)'
            PROVE  FALSE
        <4>1. x \in Of(n) /\ Live(x)
          BY <1>5, <3>2, <3>3 DEF Usable, Of, Live
        <4>2. Usable(x, n)
          BY <4>1 DEF Usable
        <4>3. x = f
          BY <1>13, <2>2, <3>1, <4>2 DEF OneWay
        <4>4. QED
          BY <1>3, <2>2, <4>1, <4>3
      <3>4. QED
        BY <3>2, <3>3
    <2>3. QED
      BY <1>2, <2>1, <2>2
  <1>14. ASSUME NEW s \in Tokens \ doubled
         PROVE  /\ \A t1, t2 \in Tokens : Usable(t1, s)' /\ Usable(t2, s)' => t1 = t2
                /\ \A c1, c2 \in Clients : Exchanges(c1, s)' /\ Exchanges(c2, s)' => c1 = c2
                /\ s \in closed => \A x \in Tokens : ~Usable(x, s)'
    <2>1. CASE s = n
      BY <1>13, <2>1
    <2>2. CASE s # n
      BY <1>11, <1>12, <2>2 DEF OneWay
    <2>3. QED
      BY <2>1, <2>2
  <1>15. QED
    BY <1>2, <1>9, <1>10, <1>14 DEF OneWay

-----------------------------------------------------------------------------
(* Theorems *)

\* The invariant holds in every state, for any number of phones, tokens and
\* calls: types, the names of sessions, revoking before issuing, and one way to
\* go on per session (auth.service.ts).
THEOREM SessionInvariantHolds == SessionSpec => []SessionInv
  <1>1. SessionInit => SessionInv
    BY SessionAssumption DEF SessionInit, SessionInv, SessionTypeOK, Named, RevokedFirst, OneWay, Usable, Exchanges,
       Of, Live, ExchangeOps, NoCall, NoRow, Rows
  <1>2. SessionInv /\ [SessionNext]_sessionVars => SessionInv'
    <2>1. SUFFICES ASSUME SessionInv, [SessionNext]_sessionVars
                   PROVE  Named' /\ RevokedFirst' /\ OneWay'
      BY SessionTypeStep DEF SessionInv
    <2>2. QED
      BY <2>1, OtherSteps, LogoutStep, RefreshStep, IssueStep DEF SessionNext
  <1>3. QED
    BY <1>1, <1>2, PTL DEF SessionSpec

\* "Rotating the refresh token for safety" (auth.service.ts:134-160): a session
\* has one token that can be used or is about to be issued, and none after a
\* logout that no exchange raced.
THEOREM OneTokenHolds == SessionSpec => []OneTokenPerSession
  <1>1. SessionInv => OneTokenPerSession
    <2> SUFFICES ASSUME SessionInv, NEW s \in Tokens \ doubled
                 PROVE  /\ Cardinality({t \in Of(s) : Live(t)}
                              \cup {call[c].from : c \in {d \in Clients : call[d].op = "issue" /\ call[d].from \in Of(s)}}) <= 1
                        /\ s \in closed => \A t \in Of(s) : ~Live(t)
      BY DEF OneTokenPerSession
    <2> DEFINE A == {t \in Of(s) : Live(t)}
                       \cup {call[c].from : c \in {d \in Clients : call[d].op = "issue" /\ call[d].from \in Of(s)}}
    <2>1. \A t \in A : t \in Tokens /\ Usable(t, s)
      BY DEF Usable, Exchanges, Of, ExchangeOps
    <2>2. \A t1, t2 \in A : t1 = t2
      BY <2>1 DEF SessionInv, OneWay
    <2>3. A = {} \/ \E t \in A : A = {t}
      BY <2>2
    <2>4. Cardinality(A) <= 1
      BY <2>3, FS_EmptySet, FS_Singleton
    <2>5. s \in closed => \A t \in Of(s) : ~Live(t)
      BY DEF SessionInv, OneWay, Usable, Of
    <2>6. QED
      BY <2>4, <2>5
  <1>2. QED
    BY <1>1, SessionInvariantHolds, PTL
=============================================================================
