--------------------------- MODULE BuildLoopProofs ---------------------------
(***************************************************************************)
(* Proofs about BuildLoop, for any configurations, any number of requests  *)
(* and any size of the replay cache.  Two of the invariants carry them:    *)
(*                                                                         *)
(*   CountInv  what a push has started for an application, and the         *)
(*             requests that may still start it, are paid for by the id in *)
(*             the cache and by the times the cache has lost it            *)
(*   DepInv    the update of a build to "succeeded" has one winner: a      *)
(*             build has at most one request that deploys it, and that one *)
(*             has the applications it has not deployed yet before it      *)
(***************************************************************************)
EXTENDS BuildLoop, FiniteSetTheorems, SequenceTheorems, WellFoundedInduction, TLAPS

\* What the rows, the requests and the deployments are made of.
Request == [pc: {"idle", "push", "dispatch", "deploy"}, push: Pushes \cup {NoPush},
            build: Nat, todo: Seq(Apps)]
\* See Request.
BuildRun == [app: Apps \cup {NoApp}, push: Pushes, status: BuildStatuses,
             manual: BOOLEAN, runs: Nat, running: BOOLEAN]
\* See Request.
Deployment == [app: Apps, push: Pushes, build: Nat]

\* No application comes twice in what a request has to do.
NoRepeat(s) == \A i, j \in DOMAIN s : s[i] = s[j] => i = j

\* The types of what requests share.
TypeInv ==
  /\ config \in Configurations
  /\ seen \in Seq(Pushes) /\ Len(seen) <= CacheLimit
  /\ handler \in [Handlers -> Request]
  /\ builds \in Seq(BuildRun)
  /\ IsABag(deployments) /\ DOMAIN deployments \subseteq Deployment
  /\ forgotten \in [Pushes -> Nat]
  /\ accepted \subseteq Pushes

\* The types of the rest.
OuterInv ==
  /\ sent \in [Pushes -> 0 .. config.maxDeliveries]
  /\ DOMAIN calls \subseteq [build: 1 .. Len(builds), status: BuildStatuses \ {"dispatched"}]
  /\ open \subseteq Apps

\* A request knows its push or its build, and serves a success alone.
RequestOK(h) ==
  LET r == handler[h]
  IN  /\ NoRepeat(r.todo)
      /\ r.pc = "push" => r.push \in Pushes
      /\ r.pc = "dispatch" => r.build \in 1 .. Len(builds)
      /\ r.pc = "deploy" =>
           /\ r.build \in 1 .. Len(builds)
           /\ builds[r.build].status = "succeeded"
           /\ \A a \in Range(r.todo) : builds[r.build].app \in {NoApp, a}
      /\ r.build \in 0 .. Len(builds)
\* See RequestOK.
HandlerInv ==
  /\ \A h \in Handlers : RequestOK(h)
  /\ \A g, h \in Handlers :
       handler[g].pc = "deploy" /\ handler[h].pc = "deploy" /\ handler[g].build = handler[h].build
         => g = h

\* A deployment of a build comes from its success, once, and the request that
\* serves the success does not have its application before it any more.
DeploymentOK(d) ==
  /\ d.build \in 1 .. Len(builds)
  /\ builds[d.build].status = "succeeded"
  /\ builds[d.build].app \in {NoApp, d.app}
  /\ d.push = builds[d.build].push
  /\ deployments[d] = 1
  /\ \A h \in Handlers :
       handler[h].pc = "deploy" /\ handler[h].build = d.build => d.app \notin Range(handler[h].todo)
\* See DeploymentOK.
DepInv == \A d \in DOMAIN deployments : d.build # 0 => DeploymentOK(d)

\* What is due to an application has been started for it, or is not due.
Handled(a, p) ==
  \/ a \notin HealthChecked
  \/ PushTarget(a, p) = "skip"
  \/ PushTarget(a, p) = "source" /\ a \notin WithCompose
  \/ <<a, p>> \in upset
  \/ PushBuilds(a, p) # {}
  \/ SourceDeployment(a, p) \in DOMAIN deployments

\* A request that serves a push has the rest of the applications before it.
Serving == {"push", "dispatch"}
\* See Serving.
DoneInv ==
  /\ \A h \in Handlers, p \in Pushes : handler[h].pc \in Serving /\ handler[h].push = p =>
       \A a \in Apps : a \in Range(handler[h].todo) \/ Handled(a, p)
  /\ \A p \in accepted, a \in Apps : Handled(a, p)

\* The requests that have an application before them on behalf of a push.
Waiting(a, p) ==
  {h \in Handlers : /\ handler[h].pc \in Serving
                    /\ handler[h].push = p
                    /\ a \in Range(handler[h].todo)}
\* The id in the cache, and the times it was lost, pay for a start each.
Allowed(p) == forgotten[p] + (IF p \in Range(seen) THEN 1 ELSE 0)
\* See Allowed.
CountInv ==
  \A p \in Pushes, a \in Apps :
    /\ IsFiniteSet(Waiting(a, p)) /\ IsFiniteSet(PushBuilds(a, p))
    /\ Cardinality(PushBuilds(a, p)) + Copies(SourceDeployment(a, p)) + Cardinality(Waiting(a, p))
         <= Allowed(p)

-----------------------------------------------------------------------------
\* The assumption, for the configuration at hand.
LEMMA ConfigFacts ==
  ASSUME config \in Configurations
  PROVE  /\ AppOrder \in Seq(Apps) /\ NoRepeat(AppOrder)
         /\ NoApp \notin Apps /\ NoPush \notin Pushes
         /\ HealthChecked \subseteq Apps
         /\ CacheLimit \in Nat \ {0}
         /\ \A i \in DOMAIN Accounts : \A j \in DOMAIN Accounts[i] :
              Accounts[i][j].app \in Apps \cup {NoApp}
         /\ \A i \in DOMAIN Accounts : DOMAIN Accounts[i] \subseteq Nat
         /\ \A i \in DOMAIN Accounts : \A j \in DOMAIN Accounts[i] :
              Accounts[i][j].filters \subseteq Seq(STRING)
         /\ \A p \in Pushes : Changed[p] \subseteq Seq(STRING)
         /\ \A a \in Apps : config.dir[a] \in Seq(STRING)
<1>1. IsRowSequence(config.apps) /\ NoRepeat(AppOrder)
  BY ConfigAssumption DEF NoRepeat, AppOrder
<1>2. AppOrder \in Seq(Apps)
  BY <1>1 DEF IsRowSequence, AppOrder, Apps
<1>3. NoApp \notin Apps /\ NoPush \notin Pushes
  BY ConfigAssumption DEF AppOrder, Apps, Pushes, Changed
<1>4. HealthChecked \subseteq Apps
  BY ConfigAssumption DEF AppOrder, Apps, HealthChecked
<1>5. \A i \in DOMAIN Accounts : \A j \in DOMAIN Accounts[i] :
        Accounts[i][j].app \in Apps \cup {NoApp}
  BY ConfigAssumption DEF AppOrder, Apps, Accounts
<1>6. ASSUME NEW i \in DOMAIN Accounts PROVE DOMAIN Accounts[i] \subseteq Nat
  <2>1. IsRowSequence(Accounts[i])
    BY ConfigAssumption DEF Accounts
  <2> QED
    BY <2>1 DEF IsRowSequence
<1>7. \A i \in DOMAIN Accounts : \A j \in DOMAIN Accounts[i] :
        Accounts[i][j].filters \subseteq Seq(STRING)
  BY ConfigAssumption DEF Accounts
<1>8. \A p \in Pushes : Changed[p] \subseteq Seq(STRING)
  BY ConfigAssumption DEF Pushes, Changed
<1>9. \A a \in Apps : config.dir[a] \in Seq(STRING)
  BY ConfigAssumption DEF Apps, AppOrder
<1> QED
  BY <1>1, <1>2, <1>3, <1>4, <1>5, <1>6, <1>7, <1>8, <1>9, ConfigAssumption

\* The least of a set of naturals is one of them.
LEMMA MinIsElement ==
  ASSUME NEW S, S \subseteq Nat, S # {}
  PROVE  Min(S) \in S /\ \A y \in S : Min(S) <= y
<1>1. IsWellFoundedOn(OpToRel(<, Nat), Nat)
  BY NatLessThanWellFounded
<1>2. PICK x \in S : \A y \in S : ~ (<<y, x>> \in OpToRel(<, Nat))
  BY <1>1, WFMin
<1>3. \A y \in S : x <= y
  <2> SUFFICES ASSUME NEW y \in S PROVE x <= y
    OBVIOUS
  <2>1. ~ (y < x)
    BY <1>2 DEF OpToRel
  <2> QED
    BY <2>1
<1> QED
  BY <1>3 DEF Min

\* So is the greatest of a set of naturals that has a bound.
LEMMA MaxIsElement ==
  ASSUME NEW n \in Nat, NEW S, S \subseteq 1 .. n, S # {}
  PROVE  Max(S) \in S /\ \A y \in S : y <= Max(S)
<1> DEFINE D == {n - y : y \in S}
<1>1. D \subseteq Nat /\ D # {}
  OBVIOUS
<1>2. Min(D) \in D /\ \A e \in D : Min(D) <= e
  <2> HIDE DEF D
  <2> QED
    BY <1>1, MinIsElement
<1>3. PICK x \in S : Min(D) = n - x
  BY <1>2
<1>4. ASSUME NEW y \in S PROVE y <= x
  <2>1. n - x <= n - y
    BY <1>2, <1>3
  <2> QED
    BY <2>1
<1> QED
  BY <1>4 DEF Max

\* Sequence t is s from i to j, and there are slashes only around it.
Inside(t, s, i, j) ==
  /\ i <= j /\ s[i] # ""
  /\ \A n \in DOMAIN s : n < i \/ n > j => s[n] = ""
  /\ Len(t) = j - i + 1
  /\ \A n \in 1 .. j - i + 1 : t[n] = s[i + n - 1]
\* Sequence t is s without its last elements, which are all w.
Shortened(t, s, w) ==
  /\ Len(t) \in 1 .. Len(s)
  /\ \A n \in 1 .. Len(t) : t[n] = s[n]
  /\ \A n \in 1 .. Len(s) : n > Len(t) => s[n] = w

\* What strings.Trim leaves of a path: all but the slashes at its ends.
LEMMA TrimSlashesFacts ==
  ASSUME NEW T, NEW s \in Seq(T), TrimSlashes(s) # <<>>
  PROVE  /\ TrimSlashes(s) \in Seq(T)
         /\ \E i, j \in DOMAIN s : Inside(TrimSlashes(s), s, i, j)
<1> DEFINE named == {n \in DOMAIN s : s[n] # ""}
           i == Min(named)
           j == Max(named)
<1>1. named # {} /\ TrimSlashes(s) = SubSeq(s, i, j)
  BY DEF TrimSlashes
<1>l. DOMAIN s = 1 .. Len(s) /\ Len(s) \in Nat
  OBVIOUS
<1>2. named \subseteq DOMAIN s /\ \A n \in DOMAIN s : n \notin named => s[n] = ""
  OBVIOUS
<1>n. \A n \in named : s[n] # ""
  OBVIOUS
<1> HIDE DEF named
<1>3. /\ i \in named /\ \A n \in named : i <= n
      /\ j \in named /\ \A n \in named : n <= j
  <2>0. named \subseteq 1 .. Len(s)
    BY <1>l, <1>2, Zenon
  <2>1. named \subseteq Nat /\ named \subseteq 1 .. Len(s)
    BY <2>0
  <2>2. i \in named /\ \A n \in named : i <= n
    BY <1>1, <2>1, MinIsElement
  <2>3. Len(s) \in Nat /\ named \subseteq 1 .. Len(s) /\ named # {}
    BY <1>1, <1>l, <2>1
  <2>4. j \in named /\ \A n \in named : n <= j
    <3> HIDE DEF j
    <3>1. Max(named) \in named /\ \A n \in named : n <= Max(named)
      BY <2>3, MaxIsElement
    <3> QED
      BY <3>1 DEF j
  <2> QED
    BY <2>2, <2>4
<1> HIDE DEF i, j
<1>4. i \in 1 .. Len(s) /\ j \in 1 .. Len(s) /\ i <= j
  BY <1>l, <1>2, <1>3
<1>5. ASSUME NEW n \in DOMAIN s, n < i \/ n > j PROVE s[n] = ""
  <2>1. n \notin named
    BY <1>3, <1>4, <1>5, <1>l
  <2> QED
    BY <1>2, <2>1
<1>6. /\ SubSeq(s, i, j) \in Seq(T) /\ Len(SubSeq(s, i, j)) = j - i + 1
      /\ \A n \in 1 .. j - i + 1 : SubSeq(s, i, j)[n] = s[i + n - 1]
  <2>1. i \in Int /\ j \in Int /\ i <= j
    BY <1>l, <1>4
  <2>2. \A n \in i .. j : s[n] \in T
    <3>1. i .. j \subseteq 1 .. Len(s)
      BY <1>l, <1>4
    <3> QED
      BY <1>l, <3>1
  <2> QED
    BY <2>1, <2>2, SubSeqProperties
<1>7. s[i] # ""
  BY <1>n, <1>3
<1>8. Inside(TrimSlashes(s), s, i, j)
  BY <1>1, <1>4, <1>5, <1>6, <1>7 DEF Inside
<1> QED
  BY <1>1, <1>l, <1>4, <1>6, <1>8

\* What strings.TrimSuffix leaves: all, or all but a wildcard at the end.
LEMMA TrimSuffixFacts ==
  ASSUME NEW T, NEW s \in Seq(T), s # <<>>, NEW w
  PROVE  /\ TrimSuffix(s, w) \in Seq(T) /\ TrimSuffix(s, w) # <<>>
         /\ Shortened(TrimSuffix(s, w), s, w)
<1>1. Len(s) \in Nat \ {0} /\ DOMAIN s = 1 .. Len(s)
  OBVIOUS
<1>2. CASE Len(s) > 1 /\ s[Len(s)] = w
  <2> DEFINE u == SubSeq(s, 1, Len(s) - 1)
  <2>1. TrimSuffix(s, w) = u
    BY <1>2 DEF TrimSuffix, Front, Last
  <2>2. u \in Seq(T) /\ Len(u) = Len(s) - 1 /\ \A n \in 1 .. Len(s) - 1 : u[n] = s[n]
    <3>1. 1 \in Int /\ Len(s) - 1 \in Int /\ \A n \in 1 .. Len(s) - 1 : s[n] \in T
      BY <1>1, <1>2
    <3>2. /\ SubSeq(s, 1, Len(s) - 1) \in Seq(T)
          /\ Len(SubSeq(s, 1, Len(s) - 1)) = IF 1 <= Len(s) - 1 THEN (Len(s) - 1) - 1 + 1 ELSE 0
          /\ \A n \in 1 .. (Len(s) - 1) - 1 + 1 : SubSeq(s, 1, Len(s) - 1)[n] = s[1 + n - 1]
      BY <3>1, SubSeqProperties
    <3> QED
      BY <1>1, <1>2, <3>2
  <2>3. ASSUME NEW n \in 1 .. Len(s), n > Len(s) - 1 PROVE s[n] = w
    BY <1>1, <1>2, <2>3
  <2> HIDE DEF u
  <2>4. u # <<>>
    BY <1>1, <1>2, <2>2
  <2> QED
    BY <1>1, <1>2, <2>1, <2>2, <2>3, <2>4 DEF Shortened
<1>3. CASE ~(Len(s) > 1 /\ s[Len(s)] = w)
  BY <1>1, <1>3 DEF TrimSuffix, Last, Shortened
<1> QED
  BY <1>2, <1>3

\* A filter matches nothing but what it stands for, however it was trimmed.
LEMMA MatchIsCovered ==
  ASSUME NEW T, NEW filter \in Seq(T), NEW U, NEW path \in Seq(U),
         pathFilterMatches(filter, TrimSlashes(path))
  PROVE  Covers(filter, path)
<1> DEFINE f == TrimSlashes(filter)
           p == TrimSlashes(path)
           g == TrimSuffix(f, "**")
           d == TrimSuffix(g, "*")
<1>1. f # <<>> /\ p # <<>> /\ IsPrefix(d, p)
  BY DEF pathFilterMatches
<1>a. f \in Seq(T) /\ \E i, m \in DOMAIN filter : Inside(f, filter, i, m)
  BY <1>1, TrimSlashesFacts
<1>b. p \in Seq(U) /\ \E k, l \in DOMAIN path : Inside(p, path, k, l)
  BY <1>1, TrimSlashesFacts
<1>4. g \in Seq(T) /\ g # <<>> /\ Shortened(g, f, "**")
  <2> HIDE DEF f
  <2> QED
    BY <1>1, <1>a, TrimSuffixFacts
<1>5. d \in Seq(T) /\ Shortened(d, g, "*")
  <2> HIDE DEF g
  <2> QED
    BY <1>4, TrimSuffixFacts
<1> HIDE DEF f, p, g, d
<1>u. DOMAIN filter \subseteq Nat /\ DOMAIN path \subseteq Nat
  OBVIOUS
<1>p. PICK i \in Nat, m \in Nat : i \in DOMAIN filter /\ m \in DOMAIN filter /\ Inside(f, filter, i, m)
  BY <1>a, <1>u
<1>q. PICK k \in Nat, l \in Nat : k \in DOMAIN path /\ l \in DOMAIN path /\ Inside(p, path, k, l)
  BY <1>b, <1>u
<1>2. /\ i <= m /\ filter[i] # ""
      /\ \A n \in DOMAIN filter : n < i \/ n > m => filter[n] = ""
      /\ Len(f) = m - i + 1
      /\ \A n \in 1 .. m - i + 1 : f[n] = filter[i + n - 1]
  BY <1>p DEF Inside
<1>3. /\ k <= l
      /\ \A n \in DOMAIN path : n < k \/ n > l => path[n] = ""
      /\ Len(p) = l - k + 1
      /\ \A n \in 1 .. l - k + 1 : p[n] = path[k + n - 1]
  BY <1>q DEF Inside
<1>t. i \in Nat /\ m \in Nat /\ k \in Nat /\ l \in Nat /\ 1 <= i /\ 1 <= k
      /\ m <= Len(filter) /\ l <= Len(path)
      /\ DOMAIN filter = 1 .. Len(filter) /\ Len(filter) \in Nat
      /\ DOMAIN path = 1 .. Len(path) /\ Len(path) \in Nat
  BY <1>p, <1>q
<1>6. Len(d) <= Len(p) /\ \A n \in 1 .. Len(d) : d[n] = p[n]
  <2>1. Len(d) <= Len(p) /\ SubSeq(d, 1, Len(d)) = SubSeq(p, 1, Len(d))
    BY <1>1 DEF IsPrefix
  <2>2. ASSUME NEW n \in 1 .. Len(d) PROVE SubSeq(d, 1, Len(d))[n] = d[n]
    BY <1>5 DEF Shortened
  <2>3. ASSUME NEW n \in 1 .. Len(d) PROVE SubSeq(p, 1, Len(d))[n] = p[n]
    <3>1. p \in Seq(U) /\ d \in Seq(T) /\ Len(d) <= Len(p)
      BY <1>b, <1>5, <2>1
    <3> QED
      BY <3>1
  <2> QED
    BY <2>1, <2>2, <2>3
<1> DEFINE D == Len(d)
           F == Len(f)
           P == Len(p)
           G == Len(g)
<1>y. F = m - i + 1 /\ P = l - k + 1 /\ G \in 1 .. F /\ D \in 1 .. G /\ D <= P
  BY <1>2, <1>3, <1>4, <1>5, <1>6 DEF Shortened
<1>s. /\ \A n \in 1 .. D : d[n] = g[n] /\ d[n] = p[n]
      /\ \A n \in 1 .. G : n > D => g[n] = "*"
      /\ \A n \in 1 .. G : g[n] = f[n]
      /\ \A n \in 1 .. F : n > G => f[n] = "**"
  BY <1>4, <1>5, <1>6 DEF Shortened
<1> HIDE DEF D, F, P, G
<1>z. /\ D \in Nat /\ F \in Nat /\ P \in Nat /\ G \in Nat /\ D >= 1 /\ D <= G /\ G <= F /\ D <= P
      /\ F = m - i + 1 /\ P = l - k + 1
  <2>1. i <= m /\ k <= l
    BY <1>2, <1>3
  <2>2. F \in Nat /\ P \in Nat
    BY <1>y, <1>t, <2>1
  <2>3. G \in Nat /\ G <= F
    BY <1>y, <2>2
  <2> QED
    BY <1>y, <2>2, <2>3
<1> DEFINE j == i + D - 1
<1>7. j \in DOMAIN filter /\ i <= j /\ j - i = D - 1 /\ j <= m
  BY <1>t, <1>z
<1>8. ASSUME NEW n \in Nat, n \in DOMAIN filter, n > j PROVE filter[n] \in {"", "*", "**"}
  <2>1. CASE n > m
    BY <1>2, <1>8, <2>1
  <2>2. CASE n <= m
    <3>1. PICK q : q = n - i + 1
      OBVIOUS
    <3>2. q \in 1 .. m - i + 1 /\ i + q - 1 = n /\ q \in 1 .. F /\ q > D /\ q \in Nat
      <4>1. n \in Nat /\ n > i + D - 1 /\ n <= m
        BY <1>t, <1>8, <2>2
      <4>2. i \in Nat /\ m \in Nat /\ D \in Nat /\ D >= 1 /\ F = m - i + 1
        BY <1>t, <1>z
      <4> QED
        BY <3>1, <4>1, <4>2
    <3>3. f[q] = filter[n]
      BY <1>2, <3>2
    <3>4. f[q] \in {"*", "**"}
      <4>1. CASE q > G
        BY <1>s, <3>2, <4>1
      <4>2. CASE q <= G
        <5>1. q \in 1 .. G
          BY <1>z, <3>2, <4>2
        <5> QED
          BY <1>s, <3>2, <5>1
      <4> QED
        BY <1>z, <3>2, <4>1, <4>2
    <3> QED
      BY <3>3, <3>4
  <2>3. n \in Nat /\ m \in Nat
    BY <1>t
  <2>4. n > m \/ n <= m
    BY <2>3
  <2> QED
    BY <2>1, <2>2, <2>4
<1>9. k + j - i \in DOMAIN path
  BY <1>t, <1>z
<1>10. ASSUME NEW n \in 0 .. j - i PROVE path[k + n] = filter[i + n]
  <2>1. n + 1 \in 1 .. D /\ n \in Nat
    BY <1>7, <1>z, <1>t
  <2>2. n + 1 \in 1 .. G /\ n + 1 \in 1 .. l - k + 1 /\ n + 1 \in 1 .. m - i + 1
        /\ k + (n + 1) - 1 = k + n /\ i + (n + 1) - 1 = i + n
    BY <2>1, <1>z, <1>t
  <2>3. d[n + 1] = p[n + 1] /\ d[n + 1] = g[n + 1] /\ g[n + 1] = f[n + 1]
    BY <2>1, <2>2, <1>s
  <2>4. p[n + 1] = path[k + n]
    BY <1>3, <2>2
  <2>5. f[n + 1] = filter[i + n]
    BY <1>2, <2>2
  <2> QED
    BY <2>3, <2>4, <2>5
<1>11. \A n \in DOMAIN filter : n < i => filter[n] = ""
  BY <1>2
<1>12. \A n \in DOMAIN path : n < k => path[n] = ""
  BY <1>3
<1>13. \A n \in DOMAIN filter : n > j => filter[n] \in {"", "*", "**"}
  <2>1. DOMAIN filter \subseteq Nat
    BY <1>t
  <2> HIDE DEF j
  <2> QED
    BY <1>8, <2>1
<1> HIDE DEF j
<1> QED
  BY <1>p, <1>q, <1>2, <1>7, <1>9, <1>10, <1>11, <1>12, <1>13 DEF Covers

\* The entry that is used is one of those that target the application.
LEMMA TargetEntryTargets ==
  ASSUME config \in Configurations, NEW a, NEW i \in Owners(a)
  PROVE  \E j \in Targets(Accounts[i], a) : TargetEntry(Accounts[i], a) = Accounts[i][j]
<1> DEFINE account == Accounts[i]
           own == {j \in Targets(account, a) : account[j].app # NoApp}
           from == IF own # {} THEN own ELSE Targets(account, a)
<1>1. i \in DOMAIN Accounts /\ Targets(account, a) # {}
  BY DEF Owners
<1>2. Targets(account, a) \subseteq Nat
  BY <1>1, ConfigFacts DEF Targets
<1>3. from \subseteq Nat /\ from # {} /\ from \subseteq Targets(account, a)
  BY <1>1, <1>2
<1>4. Min(from) \in from
  <2> HIDE DEF from
  <2> QED
    BY <1>3, MinIsElement
<1>5. TargetEntry(account, a) = account[Min(from)]
  BY DEF TargetEntry
<1> QED
  BY <1>3, <1>4, <1>5

\* A push that is built or deployed from source is one the application's
\* filters ask for.
LEMMA TargetAffects ==
  ASSUME config \in Configurations, NEW a \in Apps, NEW p \in Pushes,
         PushTarget(a, p) \in {"build", "source"},
         PushTarget(a, p) = "source" => config.githubApp /\ config.repoNamed
  PROVE  Affects(p, a)
<1>a. applicationPathFilters(a) \subseteq Seq(STRING \cup {"**"})
  <2>1. config.dir[a] \in Seq(STRING)
    BY ConfigFacts
  <2>2. config.dir[a] \in Seq(STRING \cup {"**"}) /\ "**" \in STRING \cup {"**"}
    BY <2>1
  <2>3. Append(config.dir[a], "**") \in Seq(STRING \cup {"**"})
    BY <2>2
  <2> QED
    BY <2>3 DEF applicationPathFilters
<1>f. ASSUME NEW i \in DOMAIN Accounts, NEW j \in DOMAIN Accounts[i]
      PROVE  EntryFilters(Accounts[i][j], a) \subseteq Seq(STRING \cup {"**"})
  <2>1. applicationPathFilters(a) \subseteq Seq(STRING \cup {"**"})
    BY <1>a
  <2>2. Accounts[i][j].filters \subseteq Seq(STRING)
    BY ConfigFacts
  <2> QED
    BY <2>1, <2>2 DEF EntryFilters
<1> DEFINE entries == UNION {{Accounts[i][j] : j \in Targets(Accounts[i], a)} : i \in DOMAIN Accounts}
<1>1. FilterSets(a) = IF entries = {} THEN {applicationPathFilters(a)}
                                     ELSE {EntryFilters(e, a) : e \in entries}
  BY DEF FilterSets
<1>2. ASSUME NEW filters \in FilterSets(a), filters \subseteq Seq(STRING \cup {"**"}),
             repositoryMatchesChangedPaths(filters, Changed[p])
      PROVE  Affects(p, a)
  <2>1. CASE filters = {}
    BY <2>1 DEF Affects
  <2>2. CASE filters # {}
    <3>1. PICK f \in filters, path \in Changed[p] : pathFilterMatches(f, TrimSlashes(path))
      BY <1>2, <2>2 DEF repositoryMatchesChangedPaths
    <3>2. f \in Seq(STRING \cup {"**"}) /\ path \in Seq(STRING)
      BY <1>2, ConfigFacts
    <3>3. Covers(f, path)
      BY <3>1, <3>2, MatchIsCovered
    <3> QED
      BY <3>3 DEF Affects
  <2> QED
    BY <2>1, <2>2
<1>3. CASE githubConnectorBuildTarget(a, p) # {}
  <2>1. PICK i \in githubConnectorBuildTarget(a, p) : TRUE
    BY <1>3
  <2>2. i \in Owners(a) /\ repositoryMatchesChangedPaths(
                              EntryFilters(TargetEntry(Accounts[i], a), a), Changed[p])
    BY <2>1 DEF githubConnectorBuildTarget
  <2>3. PICK j \in Targets(Accounts[i], a) : TargetEntry(Accounts[i], a) = Accounts[i][j]
    BY <2>2, TargetEntryTargets
  <2>4. Accounts[i][j] \in entries
    BY <2>2, <2>3 DEF Owners
  <2>5. EntryFilters(TargetEntry(Accounts[i], a), a) \in FilterSets(a)
    <3> HIDE DEF entries
    <3> QED
      BY <2>3, <2>4, <1>1
  <2>6. EntryFilters(TargetEntry(Accounts[i], a), a) \subseteq Seq(STRING \cup {"**"})
    BY <1>f, <2>2, <2>3 DEF Owners, Targets
  <2> QED
    BY <2>2, <2>5, <2>6, <1>2
<1>4. CASE githubConnectorBuildTarget(a, p) = {}
  <2>1. Owners(a) = {} /\ repositoryMatchesChangedPaths(applicationPathFilters(a), Changed[p])
    BY <1>4 DEF PushTarget
  <2>2. entries = {}
    BY <2>1 DEF Owners
  <2>3. applicationPathFilters(a) \in FilterSets(a)
    BY <1>1, <2>2
  <2> QED
    BY <2>1, <2>3, <1>a, <1>2
<1> QED
  BY <1>3, <1>4

\* Nothing that follows from the configuration changes.
LEMMA ConfigFixed ==
  ASSUME config' = config
  PROVE  /\ Apps' = Apps /\ Pushes' = Pushes /\ AppOrder' = AppOrder
         /\ HealthChecked' = HealthChecked /\ WithCompose' = WithCompose
         /\ Request' = Request /\ BuildRun' = BuildRun /\ Deployment' = Deployment
         /\ \A a, p : PushTarget(a, p)' = PushTarget(a, p)
         /\ \A a, p : Affects(p, a)' = Affects(p, a)
<1>1. /\ Apps' = Apps /\ Pushes' = Pushes /\ AppOrder' = AppOrder
      /\ HealthChecked' = HealthChecked /\ WithCompose' = WithCompose
  BY DEF Apps, Pushes, Changed, AppOrder, HealthChecked, WithCompose
<1>2. Request' = Request /\ BuildRun' = BuildRun /\ Deployment' = Deployment
  BY <1>1 DEF Request, BuildRun, Deployment
<1>3. ASSUME NEW a, NEW p PROVE PushTarget(a, p)' = PushTarget(a, p)
  BY DEF PushTarget, githubConnectorBuildTarget, Owners, Accounts, Changed, EntryFilters,
         applicationPathFilters
<1>4. ASSUME NEW a, NEW p PROVE Affects(p, a)' = Affects(p, a)
  BY DEF Affects, FilterSets, Accounts, Changed, EntryFilters, applicationPathFilters
<1> QED
  BY <1>1, <1>2, <1>3, <1>4

\* What is left of a list once its first element is taken.
LEMMA TailFacts ==
  ASSUME NEW T, NEW s \in Seq(T), s # <<>>, NoRepeat(s)
  PROVE  /\ Tail(s) \in Seq(T) /\ NoRepeat(Tail(s))
         /\ Head(s) \in Range(s) /\ Head(s) \notin Range(Tail(s))
         /\ \A x : x \in Range(s) <=> x = Head(s) \/ x \in Range(Tail(s))
         /\ Range(Tail(s)) \subseteq Range(s)
<1>1. /\ Len(s) \in Nat \ {0} /\ DOMAIN s = 1 .. Len(s)
      /\ Tail(s) \in Seq(T) /\ DOMAIN Tail(s) = 1 .. Len(s) - 1
      /\ \A i \in 1 .. Len(s) - 1 : Tail(s)[i] = s[i + 1]
      /\ Head(s) = s[1]
  OBVIOUS
<1>2. NoRepeat(Tail(s))
  <2> SUFFICES ASSUME NEW i \in 1 .. Len(s) - 1, NEW j \in 1 .. Len(s) - 1, s[i + 1] = s[j + 1]
               PROVE  i = j
    BY <1>1 DEF NoRepeat
  <2>1. i + 1 \in DOMAIN s /\ j + 1 \in DOMAIN s
    BY <1>1
  <2>2. i + 1 = j + 1
    BY <2>1 DEF NoRepeat
  <2> QED
    BY <2>2, <1>1
<1>3. Head(s) \in Range(s)
  BY <1>1 DEF Range
<1>4. Head(s) \notin Range(Tail(s))
  <2> SUFFICES ASSUME NEW i \in 1 .. Len(s) - 1, s[i + 1] = s[1] PROVE FALSE
    BY <1>1 DEF Range
  <2>1. i + 1 \in DOMAIN s /\ 1 \in DOMAIN s
    BY <1>1
  <2>2. i + 1 = 1
    BY <2>1 DEF NoRepeat
  <2> QED
    BY <2>2, <1>1
<1>5. ASSUME NEW x \in Range(Tail(s)) PROVE x \in Range(s)
  <2>1. PICK i \in 1 .. Len(s) - 1 : x = s[i + 1]
    BY <1>1, <1>5 DEF Range
  <2>2. i + 1 \in DOMAIN s
    BY <1>1
  <2> QED
    BY <2>1, <2>2 DEF Range
<1>6. ASSUME NEW x \in Range(s), x # Head(s) PROVE x \in Range(Tail(s))
  <2>1. PICK i \in 1 .. Len(s) : x = s[i]
    BY <1>1, <1>6 DEF Range
  <2>2. i # 1
    BY <2>1, <1>1, <1>6
  <2>3. i - 1 \in 1 .. Len(s) - 1 /\ (i - 1) + 1 = i
    BY <2>2, <1>1
  <2>4. x = Tail(s)[i - 1] /\ i - 1 \in DOMAIN Tail(s)
    BY <2>1, <2>3, <1>1
  <2> QED
    BY <2>4 DEF Range
<1> QED
  BY <1>1, <1>2, <1>3, <1>4, <1>5, <1>6

\* The cache after an id it did not hold: it holds that one, and all it held but
\* perhaps the oldest, which is counted as lost.
LEMMA RememberFacts ==
  ASSUME TypeInv, NEW p \in Pushes, Remember(p)
  PROVE  /\ seen' \in Seq(Pushes) /\ Len(seen') <= CacheLimit
         /\ forgotten' \in [Pushes -> Nat]
         /\ p \in Range(seen')
         /\ \A q \in Pushes : forgotten'[q] >= forgotten[q]
         /\ \A q \in Range(seen) : q \in Range(seen') \/ forgotten'[q] = forgotten[q] + 1
<1> DEFINE order == Append(seen, p)
<1>t. /\ seen \in Seq(Pushes) /\ Len(seen) <= CacheLimit /\ Len(seen) \in Nat
      /\ forgotten \in [Pushes -> Nat] /\ CacheLimit \in Nat \ {0}
  BY ConfigFacts DEF TypeInv
<1>o. /\ order \in Seq(Pushes) /\ Len(order) = Len(seen) + 1 /\ order[Len(seen) + 1] = p
      /\ DOMAIN order = 1 .. Len(seen) + 1 /\ DOMAIN seen = 1 .. Len(seen)
      /\ \A i \in DOMAIN seen : order[i] = seen[i]
  BY <1>t
<1>1. CASE Len(order) > CacheLimit
  <2>1. /\ seen' = Tail(order) /\ forgotten' = [forgotten EXCEPT ![Head(order)] = @ + 1]
    BY <1>1 DEF Remember
  <2>2. Len(seen) = CacheLimit
    <3>1. Len(seen) + 1 > CacheLimit
      BY <1>1, <1>o
    <3> HIDE DEF order
    <3> QED
      BY <3>1, <1>t
  <2>3. Head(order) = seen[1] /\ seen[1] \in Pushes
    BY <1>o, <2>2, <1>t
  <2>4. /\ seen' \in Seq(Pushes) /\ Len(seen') = Len(seen) /\ DOMAIN seen' = 1 .. Len(seen)
        /\ \A i \in 1 .. Len(seen) : seen'[i] = order[i + 1]
    <3> HIDE DEF order
    <3> QED
      BY <2>1, <1>o, <1>t
  <2>5. p \in Range(seen')
    <3>1. Len(seen) \in DOMAIN seen' /\ seen'[Len(seen)] = p
      BY <2>4, <2>2, <1>t, <1>o
    <3> QED
      BY <3>1 DEF Range
  <2>6. forgotten' \in [Pushes -> Nat] /\ \A q \in Pushes : forgotten'[q] >= forgotten[q]
    <3> HIDE DEF order
    <3> QED
      BY <2>1, <2>3, <1>t
  <2>7. ASSUME NEW q \in Range(seen), q # seen[1] PROVE q \in Range(seen')
    <3>1. PICK i \in 1 .. Len(seen) : q = seen[i]
      BY <1>o, <2>7 DEF Range
    <3>2. i - 1 \in 1 .. Len(seen) /\ (i - 1) + 1 = i
      BY <3>1, <2>7, <1>t
    <3>3. seen'[i - 1] = order[i]
      BY <2>4, <3>2
    <3>4. seen'[i - 1] = q /\ i - 1 \in DOMAIN seen'
      BY <2>4, <3>1, <3>2, <3>3, <1>o
    <3> QED
      BY <3>4 DEF Range
  <2>8. forgotten'[seen[1]] = forgotten[seen[1]] + 1
    <3> HIDE DEF order
    <3> QED
      BY <2>1, <2>3, <1>t
  <2>9. Len(seen') <= CacheLimit
    BY <2>4, <2>2, <1>t
  <2> QED
    BY <2>4, <2>5, <2>6, <2>7, <2>8, <2>9
<1>2. CASE ~ (Len(order) > CacheLimit)
  <2>1. seen' = order /\ forgotten' = forgotten
    BY <1>2 DEF Remember
  <2>2. Len(seen') <= CacheLimit
    BY <1>2, <1>o, <1>t, <2>1
  <2>3. p \in Range(seen')
    BY <1>o, <1>t, <2>1 DEF Range
  <2>4. ASSUME NEW q \in Range(seen) PROVE q \in Range(seen')
    <3>1. PICK i \in 1 .. Len(seen) : q = seen[i]
      BY <1>o, <2>4 DEF Range
    <3>2. i \in DOMAIN order /\ order[i] = q
      BY <1>o, <1>t, <3>1
    <3> QED
      BY <3>2, <2>1 DEF Range
  <2>5. \A q \in Pushes : forgotten'[q] >= forgotten[q]
    BY <2>1, <1>t
  <2> QED
    BY <2>1, <2>2, <2>3, <2>4, <2>5, <1>o, <1>t
<1> QED
  BY <1>1, <1>2

\* One more deployment.
LEMMA AddedFacts ==
  ASSUME IsABag(deployments), NEW x, deployments' = deployments (+) SetToBag({x})
  PROVE  /\ IsABag(deployments') /\ DOMAIN deployments' = DOMAIN deployments \cup {x}
         /\ \A d \in DOMAIN deployments : d # x => deployments'[d] = deployments[d]
         /\ x \notin DOMAIN deployments => deployments'[x] = 1
         /\ Copies(x)' = Copies(x) + 1
         /\ \A d : d # x => Copies(d)' = Copies(d)
<1>1. /\ deployments' = [e \in DOMAIN deployments \cup {x} |->
            (IF e \in DOMAIN deployments THEN deployments[e] ELSE 0) + (IF e = x THEN 1 ELSE 0)]
  BY DEF SetToBag, (+)
<1>2. \A e \in DOMAIN deployments : deployments[e] \in Nat /\ deployments[e] > 0
  BY DEF IsABag
<1>3. DOMAIN deployments' = DOMAIN deployments \cup {x}
  BY <1>1
<1>4. ASSUME NEW d \in DOMAIN deployments, d # x PROVE deployments'[d] = deployments[d]
  <2>1. deployments'[d] = deployments[d] + 0
    BY <1>1, <1>4
  <2> QED
    BY <2>1, <1>2
<1>5. x \notin DOMAIN deployments => deployments'[x] = 1
  BY <1>1, <1>2
<1>6. x \in DOMAIN deployments => deployments'[x] = deployments[x] + 1
  BY <1>1, <1>2
<1>7. IsABag(deployments')
  <2>1. ASSUME NEW e \in DOMAIN deployments' PROVE deployments'[e] \in {n \in Nat : n > 0}
    BY <1>2, <1>3, <1>4, <1>5, <1>6
  <2>2. deployments' = [e \in DOMAIN deployments' |-> deployments'[e]]
    BY <1>1
  <2> QED
    BY <2>1, <2>2 DEF IsABag
<1>8. \A d : /\ Copies(d) = IF d \in DOMAIN deployments THEN deployments[d] ELSE 0
            /\ Copies(d)' = IF d \in DOMAIN deployments' THEN deployments'[d] ELSE 0
  BY DEF Copies, BagIn, BagToSet
<1>9. Copies(x)' = Copies(x) + 1
  BY <1>3, <1>5, <1>6, <1>8
<1>10. \A d : d # x => Copies(d)' = Copies(d)
  BY <1>3, <1>4, <1>8
<1> QED
  BY <1>3, <1>4, <1>5, <1>7, <1>9, <1>10

-----------------------------------------------------------------------------
(* What each kind of step does to the state the invariants speak of.       *)

\* Request h goes on as the given one.
Moves(h, pc, p, b, todo) ==
  /\ handler' \in [Handlers -> Request]
  /\ handler'[h].pc = pc /\ handler'[h].push = p
  /\ handler'[h].build = b /\ handler'[h].todo = todo
  /\ \A g \in Handlers : g # h => handler'[g] = handler[g]
\* Request h is over.
Ends(h) == Moves(h, "idle", NoPush, 0, <<>>)

\* No build is made, and none succeeds or stops being what it was made for.
SameBuilds ==
  /\ builds' \in Seq(BuildRun) /\ Len(builds') = Len(builds)
  /\ \A b \in 1 .. Len(builds) :
       /\ builds'[b].app = builds[b].app /\ builds'[b].push = builds[b].push
       /\ builds'[b].manual = builds[b].manual
       /\ builds'[b].status = "succeeded" <=> builds[b].status = "succeeded"

\* A deployment is added.
Added(x) == deployments' = deployments (+) SetToBag({x})

\* The workflow, GitHub and the worker, and requests that find nothing to do.
QuietStep == SameBuilds /\ UNCHANGED <<seen, handler, deployments, forgotten, accepted, upset>>

\* The process dies.
RestartStep ==
  /\ seen' = <<>> /\ handler' = [h \in Handlers |-> Idle]
  /\ forgotten' = [p \in Pushes |-> IF p \in Range(seen) THEN forgotten[p] + 1 ELSE forgotten[p]]
  /\ UNCHANGED <<builds, deployments, accepted, upset>>

\* A push arrives that the cache does not hold.
DeliverStep(h, p) ==
  /\ handler[h].pc = "idle" /\ p \notin Range(seen) /\ Remember(p)
  /\ Moves(h, "push", p, 0, AppOrder)
  /\ UNCHANGED <<builds, deployments, accepted, upset>>

\* The next application of the push needs nothing, or its build cannot be made.
SkipStep(h, a) ==
  /\ PushApp(h, a)
  /\ \/ a \notin HealthChecked
     \/ PushTarget(a, handler[h].push) = "skip"
     \/ PushTarget(a, handler[h].push) = "source" /\ a \notin WithCompose
     \/ <<a, handler[h].push>> \in upset'
  /\ upset \subseteq upset'
  /\ Moves(h, "push", handler[h].push, handler[h].build, Tail(handler[h].todo))
  /\ UNCHANGED <<seen, builds, deployments, forgotten, accepted>>

\* The next application of the push is built.
BuildStep(h, a) ==
  /\ PushApp(h, a) /\ PushTarget(a, handler[h].push) = "build"
  /\ CreateBuildRun(a, handler[h].push, FALSE)
  /\ Moves(h, "dispatch", handler[h].push, Len(builds) + 1, Tail(handler[h].todo))
  /\ UNCHANGED <<seen, deployments, forgotten, accepted, upset>>

\* The next application of the push is deployed from source.
SourceStep(h, a) ==
  /\ PushApp(h, a)
  /\ PushTarget(a, handler[h].push) = "source" \/ <<a, handler[h].push>> \in upset'
  /\ upset \subseteq upset'
  /\ Added(SourceDeployment(a, handler[h].push))
  /\ Moves(h, "push", handler[h].push, handler[h].build, Tail(handler[h].todo))
  /\ UNCHANGED <<seen, builds, forgotten, accepted>>

\* Its deployment is refused, or made and not queued: the request ends.
AbortStep(h, a) ==
  /\ PushApp(h, a)
  /\ \/ UNCHANGED deployments
     \/ Added(SourceDeployment(a, handler[h].push)) /\ PushTarget(a, handler[h].push) = "source"
  /\ Ends(h)
  /\ UNCHANGED <<seen, builds, forgotten, accepted, upset>>

\* The batch is answered.
ReplyStep(h) ==
  /\ handler[h].pc = "push" /\ handler[h].todo = <<>>
  /\ accepted' = accepted \cup {handler[h].push}
  /\ Ends(h)
  /\ UNCHANGED <<seen, builds, deployments, forgotten, upset>>

\* An operator starts a build.
ManualStep(h, a, p) ==
  /\ handler[h].pc = "idle"
  /\ CreateBuildRun(a, p, TRUE)
  /\ Moves(h, "dispatch", NoPush, Len(builds) + 1, <<>>)
  /\ UNCHANGED <<seen, deployments, forgotten, accepted, upset>>

\* A build is handed to GitHub, or is not.
DispatchedStep(h) ==
  /\ handler[h].pc = "dispatch"
  /\ SameBuilds
  /\ IF handler[h].push = NoPush THEN Ends(h)
     ELSE Moves(h, "push", handler[h].push, 0, handler[h].todo)
  /\ UNCHANGED <<seen, deployments, forgotten, accepted, upset>>

\* A build succeeds, for the first time.
StartStep(h, b) ==
  /\ handler[h].pc = "idle" /\ builds[b].status # "succeeded"
  /\ builds' = [builds EXCEPT ![b].status = "succeeded"]
  /\ Moves(h, "deploy", NoPush, b, ListApplicationsForBuildComplete(b))
  /\ UNCHANGED <<seen, deployments, forgotten, accepted, upset>>

\* The next application of a build that succeeded is deployed, or is not.
DeployStep(h, a) ==
  /\ DeployApp(h, a)
  /\ \/ Added([app |-> a, push |-> builds[handler[h].build].push, build |-> handler[h].build])
     \/ UNCHANGED deployments
  /\ \/ Ends(h)
     \/ Moves(h, "deploy", handler[h].push, handler[h].build, Tail(handler[h].todo))
  /\ UNCHANGED <<seen, builds, forgotten, accepted, upset>>

\* These are all there are, see StepKinds.
AnyStep ==
  \/ QuietStep \/ RestartStep
  \/ \E h \in Handlers, p \in Pushes : DeliverStep(h, p)
  \/ \E h \in Handlers, a \in Apps : SkipStep(h, a) \/ BuildStep(h, a) \/ SourceStep(h, a)
                                     \/ AbortStep(h, a) \/ DeployStep(h, a)
  \/ \E h \in Handlers : ReplyStep(h) \/ DispatchedStep(h)
  \/ \E h \in Handlers, a \in Apps \cup {NoApp}, p \in Pushes : ManualStep(h, a, p)
  \/ \E h \in Handlers, b \in 1 .. Len(builds) : StartStep(h, b)

\* A change of one build that leaves what it was made for.
LEMMA BuildUpdated ==
  ASSUME TypeInv, NEW b \in 1 .. Len(builds), NEW x \in BuildRun,
         builds' = [builds EXCEPT ![b] = x],
         x.app = builds[b].app, x.push = builds[b].push, x.manual = builds[b].manual,
         x.status = "succeeded" <=> builds[b].status = "succeeded"
  PROVE  SameBuilds
<1>t. builds \in Seq(BuildRun) /\ Len(builds) \in Nat /\ DOMAIN builds = 1 .. Len(builds)
  BY DEF TypeInv
<1>1. builds' \in Seq(BuildRun) /\ Len(builds') = Len(builds)
  BY <1>t
<1>2. builds'[b] = x /\ \A c \in 1 .. Len(builds) : c # b => builds'[c] = builds[c]
  BY <1>t
<1> QED
  BY <1>1, <1>2 DEF SameBuilds

\* Nothing happens to the builds.
LEMMA BuildsUnchanged ==
  ASSUME TypeInv, UNCHANGED builds
  PROVE  SameBuilds
BY DEF TypeInv, SameBuilds

\* What is known of a build that is updated.
LEMMA BuildFields ==
  ASSUME TypeInv, NEW b \in 1 .. Len(builds)
  PROVE  /\ builds[b] \in BuildRun
         /\ builds[b].app \in Apps \cup {NoApp} /\ builds[b].push \in Pushes
         /\ builds[b].runs \in Nat /\ builds[b].status \in BuildStatuses
         /\ b \in DOMAIN builds
<1>1. builds[b] \in BuildRun /\ b \in DOMAIN builds
  BY DEF TypeInv
<1> QED
  BY <1>1 DEF BuildRun

\* The parts of a request.
LEMMA RequestFields ==
  ASSUME TypeInv, NEW h \in Handlers
  PROVE  /\ handler[h] \in Request
         /\ handler[h].pc \in {"idle", "push", "dispatch", "deploy"}
         /\ handler[h].push \in Pushes \cup {NoPush}
         /\ handler[h].build \in Nat /\ handler[h].todo \in Seq(Apps)
<1>1. handler[h] \in Request
  BY DEF TypeInv
<1> QED
  BY <1>1 DEF Request

\* A new record for a request.
LEMMA Moved ==
  ASSUME TypeInv, NEW h \in Handlers, NEW x \in Request, handler' = [handler EXCEPT ![h] = x]
  PROVE  Moves(h, x.pc, x.push, x.build, x.todo)
<1>1. handler \in [Handlers -> Request]
  BY DEF TypeInv
<1> QED
  BY <1>1 DEF Moves

\* The handling of a request, written as the request it becomes.
LEMMA NextRequest ==
  ASSUME TypeInv, NEW h \in Handlers
  PROVE  /\ handler[h].todo # <<>> /\ NextApp(h) =>
              Moves(h, handler[h].pc, handler[h].push, handler[h].build, Tail(handler[h].todo))
         /\ handler' = [handler EXCEPT ![h] = Idle] => Ends(h)
         /\ AfterDispatch(h) => IF handler[h].push = NoPush THEN Ends(h)
              ELSE Moves(h, "push", handler[h].push, 0, handler[h].todo)
         /\ handler[h].todo # <<>> /\ DeployNext(h) => IF Tail(handler[h].todo) = <<>> THEN Ends(h)
              ELSE Moves(h, handler[h].pc, handler[h].push, handler[h].build, Tail(handler[h].todo))
<1> DEFINE r == handler[h]
           taken == [r EXCEPT !.todo = Tail(r.todo)]
           back == [r EXCEPT !.pc = "push", !.build = 0]
<1>r. r \in Request
  BY RequestFields
<1>1. ASSUME r.todo # <<>>
      PROVE  taken \in Request /\ taken.pc = r.pc /\ taken.push = r.push
             /\ taken.build = r.build /\ taken.todo = Tail(r.todo)
  <2>1. Tail(r.todo) \in Seq(Apps)
    BY <1>1, RequestFields
  <2> QED
    BY <1>r, <2>1 DEF Request
<1>2. back \in Request /\ back.pc = "push" /\ back.push = r.push
      /\ back.build = 0 /\ back.todo = r.todo
  BY <1>r DEF Request
<1>3. Idle \in Request /\ Idle.pc = "idle" /\ Idle.push = NoPush /\ Idle.build = 0 /\ Idle.todo = <<>>
  BY DEF Idle, Request
<1>4. NextApp(h) => handler' = [handler EXCEPT ![h] = taken]
  BY DEF NextApp
<1>5. AfterDispatch(h) => handler' = [handler EXCEPT ![h] = IF r.push = NoPush THEN Idle ELSE back]
  BY DEF AfterDispatch
<1>6. DeployNext(h) =>
        handler' = [handler EXCEPT ![h] = IF Tail(r.todo) = <<>> THEN Idle ELSE taken]
  BY DEF DeployNext
<1>7. handler' = [handler EXCEPT ![h] = Idle] => Ends(h)
  BY <1>3, Moved DEF Ends
<1> HIDE DEF taken, back
<1>8. r.todo # <<>> /\ handler' = [handler EXCEPT ![h] = taken] =>
        Moves(h, handler[h].pc, handler[h].push, handler[h].build, Tail(handler[h].todo))
  BY <1>1, Moved
<1>9. handler' = [handler EXCEPT ![h] = back] =>
        Moves(h, "push", handler[h].push, 0, handler[h].todo)
  BY <1>2, Moved
<1> QED
  BY <1>4, <1>5, <1>6, <1>7, <1>8, <1>9

\* The push requests take such steps.
LEMMA PushKinds ==
  ASSUME TypeInv, NEW h \in Handlers, NEW a \in Apps
  PROVE  /\ PushSkip(h, a) => SkipStep(h, a)
         /\ PushBuild(h, a) => BuildStep(h, a)
         /\ PushBuildFails(h, a) => SkipStep(h, a)
         /\ PushSource(h, a) => SourceStep(h, a)
         /\ PushSourceFails(h, a) => AbortStep(h, a)
         /\ PushReply(h) => ReplyStep(h)
<1>1. PushSkip(h, a) => SkipStep(h, a)
  BY NextRequest DEF PushSkip, SkipStep, PushApp, history
<1>2. PushBuild(h, a) => BuildStep(h, a)
  <2> SUFFICES ASSUME PushBuild(h, a) PROVE BuildStep(h, a)
    OBVIOUS
  <2> DEFINE r == handler[h]
             made == [r EXCEPT !.pc = "dispatch", !.build = Len(builds) + 1, !.todo = Tail(r.todo)]
  <2>1. r \in Request /\ Len(builds) + 1 \in Nat /\ Tail(r.todo) \in Seq(Apps)
    BY RequestFields DEF PushBuild, PushApp, TypeInv
  <2>2. made \in Request /\ made.pc = "dispatch" /\ made.push = r.push
        /\ made.build = Len(builds) + 1 /\ made.todo = Tail(r.todo)
    BY <2>1 DEF Request
  <2>3. handler' = [handler EXCEPT ![h] = made]
    BY DEF PushBuild
  <2>4. Moves(h, "dispatch", r.push, Len(builds) + 1, Tail(r.todo))
    <3> HIDE DEF made
    <3> QED
      BY <2>2, <2>3, Moved
  <2> QED
    BY <2>4 DEF PushBuild, BuildStep, history
<1>3. PushBuildFails(h, a) => SkipStep(h, a)
  BY NextRequest DEF PushBuildFails, SkipStep, PushApp
<1>4. PushSource(h, a) => SourceStep(h, a)
  <2> SUFFICES ASSUME PushSource(h, a) PROVE SourceStep(h, a)
    OBVIOUS
  <2>1. /\ PushApp(h, a) /\ NextApp(h) /\ CreateDeployment(a, handler[h].push, 0)
        /\ UNCHANGED <<seen, builds, forgotten, accepted>>
        /\ \/ PushTarget(a, handler[h].push) = "source" /\ upset' = upset
           \/ upset' = upset \cup {<<a, handler[h].push>>}
    BY DEF PushSource
  <2>2. Added(SourceDeployment(a, handler[h].push))
    BY <2>1 DEF CreateDeployment, Added, SourceDeployment
  <2> QED
    BY <2>1, <2>2, NextRequest DEF SourceStep, PushApp
<1>5. PushSourceFails(h, a) => AbortStep(h, a)
  <2> SUFFICES ASSUME PushSourceFails(h, a) PROVE AbortStep(h, a)
    OBVIOUS
  <2>1. /\ PushApp(h, a) /\ handler' = [handler EXCEPT ![h] = Idle]
        /\ UNCHANGED <<seen, builds, forgotten, accepted, upset>>
        /\ \/ UNCHANGED deployments
           \/ PushTarget(a, handler[h].push) = "source" /\ CreateFails(a, handler[h].push, 0)
    BY DEF PushSourceFails, history
  <2>2. \/ UNCHANGED deployments
        \/ PushTarget(a, handler[h].push) = "source" /\ Added(SourceDeployment(a, handler[h].push))
    BY <2>1 DEF CreateFails, Added, SourceDeployment
  <2> QED
    BY <2>1, <2>2, NextRequest DEF AbortStep
<1>6. PushReply(h) => ReplyStep(h)
  BY NextRequest DEF PushReply, ReplyStep
<1> QED
  BY <1>1, <1>2, <1>3, <1>4, <1>5, <1>6

\* So do the requests that deploy a build.
LEMMA DeployKinds ==
  ASSUME TypeInv, NEW h \in Handlers, NEW a \in Apps
  PROVE  /\ autoDeploy(h, a) => DeployStep(h, a)
         /\ autoDeploySkip(h, a) => DeployStep(h, a)
         /\ autoDeployFails(h, a) => DeployStep(h, a)
<1>1. autoDeploy(h, a) => DeployStep(h, a)
  <2> SUFFICES ASSUME autoDeploy(h, a) PROVE DeployStep(h, a)
    OBVIOUS
  <2>1. /\ DeployApp(h, a) /\ DeployNext(h)
        /\ UNCHANGED <<seen, builds, forgotten, accepted, upset>>
        /\ \/ CreateDeployment(a, builds[handler[h].build].push, handler[h].build)
           \/ CreateFails(a, builds[handler[h].build].push, handler[h].build)
    BY DEF autoDeploy, history
  <2>2. \/ Added([app |-> a, push |-> builds[handler[h].build].push, build |-> handler[h].build])
        \/ UNCHANGED deployments
    BY <2>1 DEF CreateDeployment, CreateFails, Added
  <2> QED
    BY <2>1, <2>2, NextRequest DEF DeployStep, DeployApp
<1>2. autoDeploySkip(h, a) => DeployStep(h, a)
  BY NextRequest DEF autoDeploySkip, DeployStep, DeployApp, history
<1>3. autoDeployFails(h, a) => DeployStep(h, a)
  BY NextRequest DEF autoDeployFails, DeployStep, history
<1> QED
  BY <1>1, <1>2, <1>3

\* The dispatch of a build.
LEMMA DispatchKinds ==
  ASSUME TypeInv, HandlerInv, NEW h \in Handlers, DispatchWorkflow(h) \/ DispatchFails(h)
  PROVE  DispatchedStep(h)
<1> DEFINE b == handler[h].build
<1>1. handler[h].pc = "dispatch" /\ AfterDispatch(h)
      /\ UNCHANGED <<seen, deployments, forgotten, accepted, upset>>
  BY DEF DispatchWorkflow, DispatchFails, history
<1>2. b \in 1 .. Len(builds)
  BY <1>1 DEF HandlerInv, RequestOK
<1>3. SameBuilds
  <2> HIDE DEF b
  <2>d. b \in DOMAIN builds
    BY <1>2, BuildFields
  <2>t. builds[b] \in BuildRun /\ builds[b].runs + 1 \in Nat /\ builds[b].runs \in Nat
    BY <1>2, BuildFields
  <2>1. CASE DispatchWorkflow(h)
    <3> DEFINE x == [builds[b] EXCEPT !.running = TRUE, !.runs = builds[b].runs + 1]
    <3>1. builds' = [builds EXCEPT ![b] = x]
      BY <2>1, <2>d DEF DispatchWorkflow, WorkflowStarts, b
    <3>2. /\ x \in BuildRun /\ x.app = builds[b].app /\ x.push = builds[b].push
          /\ x.manual = builds[b].manual /\ x.status = builds[b].status
      BY <2>t DEF BuildRun
    <3> HIDE DEF x
    <3> QED
      BY <1>2, <3>1, <3>2, BuildUpdated
  <2>2. CASE DispatchFails(h)
    <3>1. PICK started, marked \in BOOLEAN :
            builds' = [builds EXCEPT ![b].status = IF marked /\ CompleteBuildRun(b) THEN "failed" ELSE @,
                                     ![b].running = started,
                                     ![b].runs = IF started THEN @ + 1 ELSE @]
      BY <2>2 DEF DispatchFails, b
    <3> DEFINE status == IF marked /\ builds[b].status # "succeeded" THEN "failed" ELSE builds[b].status
               runs == IF started THEN builds[b].runs + 1 ELSE builds[b].runs
               x == [builds[b] EXCEPT !.status = status, !.running = started, !.runs = runs]
    <3>2. builds' = [builds EXCEPT ![b] = x]
      BY <3>1, <2>d DEF CompleteBuildRun
    <3>3. status \in BuildStatuses /\ (status = "succeeded" <=> builds[b].status = "succeeded")
      BY <2>t DEF BuildStatuses, BuildRun
    <3>4. runs \in Nat
      BY <2>t
    <3>5. /\ x \in BuildRun /\ x.app = builds[b].app /\ x.push = builds[b].push
          /\ x.manual = builds[b].manual /\ x.status = status
      <4> HIDE DEF status, runs
      <4> QED
        BY <2>t, <3>3, <3>4 DEF BuildRun
    <3> HIDE DEF x, status
    <3> QED
      BY <1>2, <3>2, <3>3, <3>5, BuildUpdated
  <2> QED
    BY <2>1, <2>2 DEF DispatchWorkflow, DispatchFails
<1> QED
  BY <1>1, <1>3, NextRequest DEF DispatchedStep

\* A delivery, new or repeated.
LEMMA DeliverKinds ==
  ASSUME TypeInv, NEW h \in Handlers, NEW p \in Pushes, githubWebhook(h, p)
  PROVE  QuietStep \/ DeliverStep(h, p)
<1>1. CASE p \in Range(seen)
  BY <1>1, BuildsUnchanged DEF githubWebhook, QuietStep
<1>2. CASE p \notin Range(seen)
  <2> DEFINE x == [pc |-> "push", push |-> p, build |-> 0, todo |-> AppOrder]
  <2>1. AppOrder \in Seq(Apps)
    BY ConfigFacts DEF TypeInv
  <2>2. x \in Request /\ x.pc = "push" /\ x.push = p /\ x.build = 0 /\ x.todo = AppOrder
    BY <2>1 DEF Request
  <2>3. handler' = [handler EXCEPT ![h] = x]
    BY <1>2 DEF githubWebhook
  <2>4. Moves(h, "push", p, 0, AppOrder)
    <3> HIDE DEF x
    <3> QED
      BY <2>2, <2>3, Moved
  <2> QED
    BY <1>2, <2>4 DEF githubWebhook, DeliverStep
<1> QED
  BY <1>1, <1>2

\* A build an operator asks for.
LEMMA ManualKinds ==
  ASSUME TypeInv, NEW h \in Handlers, NEW p \in Pushes, dispatchGitHubBuild(h, p)
  PROVE  \E a \in Apps \cup {NoApp} : ManualStep(h, a, p)
<1>0. PICK i \in DOMAIN Accounts : \E j \in DOMAIN Accounts[i] :
        CreateBuildRun(IF Accounts[i][j].byName THEN NoApp ELSE Accounts[i][j].app, p, TRUE)
  BY DEF dispatchGitHubBuild
<1>1. PICK j \in DOMAIN Accounts[i] :
        CreateBuildRun(IF Accounts[i][j].byName THEN NoApp ELSE Accounts[i][j].app, p, TRUE)
  BY <1>0
<1>2. (IF Accounts[i][j].byName THEN NoApp ELSE Accounts[i][j].app) \in Apps \cup {NoApp}
  BY ConfigFacts DEF TypeInv
<1> DEFINE x == [pc |-> "dispatch", push |-> NoPush, build |-> Len(builds) + 1, todo |-> <<>>]
<1>3. Len(builds) + 1 \in Nat
  BY DEF TypeInv
<1>4. x \in Request /\ x.pc = "dispatch" /\ x.push = NoPush /\ x.build = Len(builds) + 1
      /\ x.todo = <<>>
  BY <1>3 DEF Request
<1>5. handler' = [handler EXCEPT ![h] = x]
  BY DEF dispatchGitHubBuild
<1>6. Moves(h, "dispatch", NoPush, Len(builds) + 1, <<>>)
  <2> HIDE DEF x
  <2> QED
    BY <1>4, <1>5, Moved
<1>7. handler[h].pc = "idle" /\ UNCHANGED <<seen, deployments, forgotten, accepted, upset>>
  BY DEF dispatchGitHubBuild, history
<1> QED
  BY <1>1, <1>2, <1>6, <1>7 DEF ManualStep

\* The report of a workflow.
LEMMA CompleteKinds ==
  ASSUME TypeInv, OuterInv, NEW h \in Handlers, NEW call \in DOMAIN calls,
         completeBuildRun(h, call)
  PROVE  QuietStep \/ StartStep(h, call.build)
<1> DEFINE b == call.build
<1>1. b \in 1 .. Len(builds) /\ call.status \in BuildStatuses \ {"dispatched"}
  BY DEF OuterInv
<1>2. builds[b] \in BuildRun /\ b \in DOMAIN builds /\ builds[b].app \in Apps \cup {NoApp}
  BY <1>1, BuildFields
<1>3. CASE builds[b].status = "succeeded"
  BY <1>3, BuildsUnchanged DEF completeBuildRun, CompleteBuildRun, QuietStep, history
<1>4. CASE builds[b].status # "succeeded" /\ call.status # "succeeded"
  <2> DEFINE x == [builds[b] EXCEPT !.status = call.status]
  <2>1. builds' = [builds EXCEPT ![b] = x]
    BY <1>4, <1>2 DEF completeBuildRun, CompleteBuildRun
  <2>2. /\ x \in BuildRun /\ x.app = builds[b].app /\ x.push = builds[b].push
        /\ x.manual = builds[b].manual /\ x.status = call.status
    BY <1>1, <1>2 DEF BuildRun
  <2>3. SameBuilds
    <3> HIDE DEF x
    <3> QED
      BY <1>1, <1>4, <2>1, <2>2, BuildUpdated
  <2> QED
    BY <1>4, <2>3 DEF completeBuildRun, CompleteBuildRun, QuietStep, history
<1>5. CASE builds[b].status # "succeeded" /\ call.status = "succeeded"
  <2> DEFINE todo == ListApplicationsForBuildComplete(b)
             x == [pc |-> "deploy", push |-> NoPush, build |-> b, todo |-> todo]
  <2>1. /\ handler[h].pc = "idle" /\ builds' = [builds EXCEPT ![b].status = "succeeded"]
        /\ handler' = [handler EXCEPT ![h] = x]
        /\ UNCHANGED <<seen, deployments, forgotten, accepted, upset>>
    BY <1>5 DEF completeBuildRun, CompleteBuildRun, history
  <2>2. todo \in Seq(Apps)
    <3>1. AppOrder \in Seq(Apps)
      BY ConfigFacts DEF TypeInv
    <3> QED
      BY <3>1, <1>2 DEF ListApplicationsForBuildComplete
  <2>3. x \in Request /\ x.pc = "deploy" /\ x.push = NoPush /\ x.build = b /\ x.todo = todo
    <3> HIDE DEF todo
    <3> QED
      BY <1>1, <2>2 DEF Request
  <2>4. Moves(h, "deploy", NoPush, b, todo)
    <3> HIDE DEF x, todo
    <3> QED
      BY <2>1, <2>3, Moved
  <2> QED
    BY <1>5, <2>1, <2>4 DEF StartStep
<1> QED
  BY <1>3, <1>4, <1>5

\* What GitHub does with a build.
LEMMA WorkflowKinds ==
  ASSUME TypeInv, NEW b \in DOMAIN builds, NEW s, WorkflowRerun(b) \/ WorkflowEnds(b, s)
  PROVE  QuietStep
<1>1. b \in 1 .. Len(builds)
  BY DEF TypeInv
<1>2. builds[b] \in BuildRun /\ builds[b].runs + 1 \in Nat
  BY <1>1, BuildFields
<1>3. SameBuilds
  <2>1. CASE WorkflowRerun(b)
    <3> DEFINE x == [builds[b] EXCEPT !.running = TRUE, !.runs = builds[b].runs + 1]
    <3>1. builds' = [builds EXCEPT ![b] = x]
      BY <2>1 DEF WorkflowRerun, WorkflowStarts
    <3>2. /\ x \in BuildRun /\ x.app = builds[b].app /\ x.push = builds[b].push
          /\ x.manual = builds[b].manual /\ x.status = builds[b].status
      BY <1>2 DEF BuildRun
    <3> HIDE DEF x
    <3> QED
      BY <1>1, <3>1, <3>2, BuildUpdated
  <2>2. CASE WorkflowEnds(b, s)
    <3> DEFINE x == [builds[b] EXCEPT !.running = FALSE]
    <3>1. builds' = [builds EXCEPT ![b] = x]
      BY <2>2 DEF WorkflowEnds
    <3>2. /\ x \in BuildRun /\ x.app = builds[b].app /\ x.push = builds[b].push
          /\ x.manual = builds[b].manual /\ x.status = builds[b].status
      BY <1>2 DEF BuildRun
    <3> HIDE DEF x
    <3> QED
      BY <1>1, <3>1, <3>2, BuildUpdated
  <2> QED
    BY <2>1, <2>2
<1> QED
  BY <1>3 DEF WorkflowRerun, WorkflowEnds, QuietStep, history

\* Every step of the specification is of one of the kinds.
LEMMA StepKinds ==
  ASSUME TypeInv, OuterInv, HandlerInv, [Next]_vars
  PROVE  config' = config /\ AnyStep
<1>c. config' = config
  BY DEF Next, vars
<1>1. CASE Restart
  <2>1. RestartStep
    BY <1>1 DEF Restart, RestartStep
  <2> QED
    BY <1>c, <2>1 DEF AnyStep
<1>2. ASSUME NEW h \in Handlers, NEW p \in Pushes, githubWebhook(h, p) \/ dispatchGitHubBuild(h, p)
      PROVE  AnyStep
  BY <1>2, DeliverKinds, ManualKinds DEF AnyStep
<1>3. ASSUME NEW h \in Handlers, NEW a \in Apps,
             \/ PushSkip(h, a) \/ PushBuild(h, a) \/ PushBuildFails(h, a)
             \/ PushSource(h, a) \/ PushSourceFails(h, a)
             \/ autoDeploy(h, a) \/ autoDeployFails(h, a) \/ autoDeploySkip(h, a)
      PROVE  AnyStep
  BY <1>3, PushKinds, DeployKinds DEF AnyStep
<1>4. ASSUME NEW h \in Handlers, PushReply(h) PROVE AnyStep
  BY <1>4, NextRequest DEF AnyStep, PushReply, ReplyStep
<1>5. ASSUME NEW h \in Handlers, DispatchWorkflow(h) \/ DispatchFails(h) PROVE AnyStep
  BY <1>5, DispatchKinds DEF AnyStep
<1>6. ASSUME NEW b \in DOMAIN builds,
             WorkflowRerun(b) \/ \E s \in BuildStatuses \ {"dispatched"} : WorkflowEnds(b, s)
      PROVE  AnyStep
  BY <1>6, WorkflowKinds DEF AnyStep
<1>7. ASSUME NEW call \in BagToSet(calls),
             CallbackLost(call) \/ \E h \in Handlers : completeBuildRun(h, call)
      PROVE  AnyStep
  <2>1. call \in DOMAIN calls /\ call.build \in 1 .. Len(builds)
    BY DEF BagToSet, OuterInv
  <2>2. CallbackLost(call) => QuietStep
    BY BuildsUnchanged DEF CallbackLost, QuietStep, history
  <2> QED
    BY <1>7, <2>1, <2>2, CompleteKinds DEF AnyStep
<1>8. ASSUME NEW a \in Apps, DeploymentEnds(a) PROVE AnyStep
  BY <1>8, BuildsUnchanged DEF DeploymentEnds, QuietStep, AnyStep, history
<1>9. CASE UNCHANGED vars
  BY <1>9, BuildsUnchanged DEF vars, QuietStep, AnyStep
<1> QED
  BY <1>c, <1>1, <1>2, <1>3, <1>4, <1>5, <1>6, <1>7, <1>8, <1>9 DEF Next

-----------------------------------------------------------------------------
(* What every step keeps of the rows and of the requests it does not serve. *)

\* A new build.
LEMMA CreateFacts ==
  ASSUME TypeInv, NEW a \in Apps \cup {NoApp}, NEW p \in Pushes, NEW m \in BOOLEAN,
         CreateBuildRun(a, p, m)
  PROVE  /\ builds' \in Seq(BuildRun) /\ Len(builds') = Len(builds) + 1
         /\ \A b \in 1 .. Len(builds) : builds'[b] = builds[b]
         /\ builds'[Len(builds) + 1].app = a /\ builds'[Len(builds) + 1].push = p
         /\ builds'[Len(builds) + 1].manual = m /\ builds'[Len(builds) + 1].status = "dispatched"
<1> DEFINE x == [app |-> a, push |-> p, status |-> "dispatched", manual |-> m,
                 runs |-> 0, running |-> FALSE]
<1>1. /\ x \in BuildRun /\ x.app = a /\ x.push = p /\ x.manual = m /\ x.status = "dispatched"
  BY DEF BuildRun, BuildStatuses
<1>2. builds' = Append(builds, x) /\ builds \in Seq(BuildRun)
  BY DEF CreateBuildRun, TypeInv
<1> HIDE DEF x
<1> QED
  BY <1>1, <1>2

\* The first success of a build.
LEMMA StartFacts ==
  ASSUME TypeInv, NEW b \in 1 .. Len(builds), builds' = [builds EXCEPT ![b].status = "succeeded"]
  PROVE  /\ builds' \in Seq(BuildRun) /\ Len(builds') = Len(builds)
         /\ \A c \in 1 .. Len(builds) : c # b => builds'[c] = builds[c]
         /\ builds'[b].app = builds[b].app /\ builds'[b].push = builds[b].push
         /\ builds'[b].manual = builds[b].manual /\ builds'[b].status = "succeeded"
<1> DEFINE x == [builds[b] EXCEPT !.status = "succeeded"]
<1>1. builds[b] \in BuildRun /\ b \in DOMAIN builds
  BY BuildFields
<1>2. builds' = [builds EXCEPT ![b] = x]
  BY <1>1
<1>3. /\ x \in BuildRun /\ x.app = builds[b].app /\ x.push = builds[b].push
      /\ x.manual = builds[b].manual /\ x.status = "succeeded"
  BY <1>1 DEF BuildRun, BuildStatuses
<1>4. builds \in Seq(BuildRun)
  BY DEF TypeInv
<1> HIDE DEF x
<1> QED
  BY <1>2, <1>3, <1>4

\* Builds stay what they were made for, and successes stay successes.
Kept ==
  /\ builds' \in Seq(BuildRun) /\ Len(builds') \in Nat /\ Len(builds) \in Nat
  /\ Len(builds) <= Len(builds')
  /\ \A b \in 1 .. Len(builds) :
       /\ b \in 1 .. Len(builds')
       /\ builds'[b].app = builds[b].app /\ builds'[b].push = builds[b].push
       /\ builds'[b].manual = builds[b].manual
       /\ builds[b].status = "succeeded" => builds'[b].status = "succeeded"

\* See Kept.
LEMMA BuildsKept ==
  ASSUME TypeInv, HandlerInv, AnyStep
  PROVE  Kept
<1>t. builds \in Seq(BuildRun) /\ Len(builds) \in Nat
  BY DEF TypeInv
<1>1. SameBuilds => Kept
  BY <1>t DEF SameBuilds, Kept
<1>2. UNCHANGED builds => Kept
  BY <1>t DEF Kept
<1>3. ASSUME NEW a \in Apps \cup {NoApp}, NEW p \in Pushes, NEW m \in BOOLEAN, CreateBuildRun(a, p, m)
      PROVE  Kept
  <2>1. /\ builds' \in Seq(BuildRun) /\ Len(builds') = Len(builds) + 1
        /\ \A b \in 1 .. Len(builds) : builds'[b] = builds[b]
    BY <1>3, CreateFacts
  <2>2. \A b \in 1 .. Len(builds) : b \in 1 .. Len(builds) + 1
    BY <1>t
  <2> QED
    BY <1>t, <2>1, <2>2 DEF Kept
<1>4. ASSUME NEW h \in Handlers, NEW a \in Apps, BuildStep(h, a) PROVE Kept
  <2>1. handler[h].push \in Pushes
    BY <1>4 DEF BuildStep, PushApp, HandlerInv, RequestOK
  <2> QED
    BY <1>4, <2>1, <1>3 DEF BuildStep
<1>5. ASSUME NEW h \in Handlers, NEW b \in 1 .. Len(builds), StartStep(h, b) PROVE Kept
  <2>1. /\ builds' \in Seq(BuildRun) /\ Len(builds') = Len(builds)
        /\ \A c \in 1 .. Len(builds) : c # b => builds'[c] = builds[c]
        /\ builds'[b].app = builds[b].app /\ builds'[b].push = builds[b].push
        /\ builds'[b].manual = builds[b].manual /\ builds'[b].status = "succeeded"
    BY <1>5, StartFacts DEF StartStep
  <2> QED
    BY <1>t, <2>1 DEF Kept
<1>6. ASSUME NEW h \in Handlers, NEW a \in Apps \cup {NoApp}, NEW p \in Pushes, ManualStep(h, a, p)
      PROVE  Kept
  BY <1>6, <1>3 DEF ManualStep
<1> QED
  BY <1>1, <1>2, <1>4, <1>5, <1>6 DEF AnyStep, QuietStep, RestartStep, DeliverStep, SkipStep,
     SourceStep, AbortStep, DeployStep, ReplyStep, DispatchedStep

\* The request that is served and its push.
LEMMA PushRequest ==
  ASSUME TypeInv, HandlerInv, NEW h \in Handlers, NEW a, PushApp(h, a)
  PROVE  /\ handler[h].pc = "push" /\ handler[h].push \in Pushes
         /\ a \in Range(handler[h].todo) /\ a \notin Range(Tail(handler[h].todo))
         /\ \A x : x \in Range(handler[h].todo) <=> x = a \/ x \in Range(Tail(handler[h].todo))
         /\ NoRepeat(Tail(handler[h].todo)) /\ Tail(handler[h].todo) \in Seq(Apps)
<1>1. handler[h].pc = "push" /\ handler[h].todo # <<>> /\ a = Head(handler[h].todo)
  BY DEF PushApp
<1>2. NoRepeat(handler[h].todo) /\ handler[h].todo \in Seq(Apps)
  BY RequestFields DEF HandlerInv, RequestOK
<1>3. handler[h].push \in Pushes
  BY <1>1 DEF HandlerInv, RequestOK
<1> QED
  BY <1>1, <1>2, <1>3, TailFacts

\* The request that deploys a build.
LEMMA DeployRequest ==
  ASSUME TypeInv, HandlerInv, NEW h \in Handlers, NEW a, DeployApp(h, a)
  PROVE  /\ handler[h].pc = "deploy" /\ handler[h].build \in 1 .. Len(builds)
         /\ builds[handler[h].build].status = "succeeded"
         /\ builds[handler[h].build].app \in {NoApp, a}
         /\ builds[handler[h].build].push \in Pushes
         /\ a \in Range(handler[h].todo) /\ a \notin Range(Tail(handler[h].todo))
         /\ Range(Tail(handler[h].todo)) \subseteq Range(handler[h].todo)
         /\ NoRepeat(Tail(handler[h].todo)) /\ Tail(handler[h].todo) \in Seq(Apps)
<1>1. handler[h].pc = "deploy" /\ handler[h].todo # <<>> /\ a = Head(handler[h].todo)
  BY DEF DeployApp
<1>2. NoRepeat(handler[h].todo) /\ handler[h].todo \in Seq(Apps)
  BY RequestFields DEF HandlerInv, RequestOK
<1>3. /\ handler[h].build \in 1 .. Len(builds)
      /\ builds[handler[h].build].status = "succeeded"
      /\ \A x \in Range(handler[h].todo) : builds[handler[h].build].app \in {NoApp, x}
  BY <1>1 DEF HandlerInv, RequestOK
<1>4. a \in Range(handler[h].todo) /\ a \notin Range(Tail(handler[h].todo))
      /\ Range(Tail(handler[h].todo)) \subseteq Range(handler[h].todo)
      /\ NoRepeat(Tail(handler[h].todo)) /\ Tail(handler[h].todo) \in Seq(Apps)
  BY <1>1, <1>2, TailFacts
<1>5. builds[handler[h].build].push \in Pushes
  BY <1>3, BuildFields
<1> QED
  BY <1>1, <1>3, <1>4, <1>5

-----------------------------------------------------------------------------
(* The invariants, step by step.                                           *)

\* Types are kept.
LEMMA TypeStep ==
  ASSUME TypeInv, HandlerInv, AnyStep, config' = config
  PROVE  TypeInv'
<1>c. Apps' = Apps /\ Pushes' = Pushes /\ Request' = Request /\ BuildRun' = BuildRun
      /\ Deployment' = Deployment
  BY ConfigFixed
<1>t. /\ seen \in Seq(Pushes) /\ Len(seen) <= CacheLimit /\ handler \in [Handlers -> Request]
      /\ IsABag(deployments) /\ DOMAIN deployments \subseteq Deployment
      /\ forgotten \in [Pushes -> Nat] /\ accepted \subseteq Pushes
      /\ config' \in Configurations /\ CacheLimit \in Nat
  BY ConfigFacts DEF TypeInv
<1>1. builds' \in Seq(BuildRun)
  BY BuildsKept DEF Kept
<1>2. handler' \in [Handlers -> Request]
  <2>1. Idle \in Request
    BY DEF Idle, Request
  <2>2. RestartStep => handler' \in [Handlers -> Request]
    BY <2>1 DEF RestartStep
  <2>3. UNCHANGED handler => handler' \in [Handlers -> Request]
    BY <1>t
  <2>4. \A h, pc, p, b, todo : Moves(h, pc, p, b, todo) => handler' \in [Handlers -> Request]
    BY DEF Moves
  <2>5. \A h : Ends(h) => handler' \in [Handlers -> Request]
    BY <2>4 DEF Ends
  <2> QED
    BY <2>2, <2>3, <2>4, <2>5 DEF AnyStep, QuietStep, DeliverStep, SkipStep, BuildStep, SourceStep,
       AbortStep, DeployStep, ReplyStep, DispatchedStep, ManualStep, StartStep
<1>3. seen' \in Seq(Pushes) /\ Len(seen') <= CacheLimit /\ forgotten' \in [Pushes -> Nat]
  <2>1. UNCHANGED <<seen, forgotten>> =>
          seen' \in Seq(Pushes) /\ Len(seen') <= CacheLimit /\ forgotten' \in [Pushes -> Nat]
    BY <1>t
  <2>2. RestartStep =>
          seen' \in Seq(Pushes) /\ Len(seen') <= CacheLimit /\ forgotten' \in [Pushes -> Nat]
    BY <1>t DEF RestartStep
  <2>3. ASSUME NEW h \in Handlers, NEW p \in Pushes, DeliverStep(h, p)
        PROVE  seen' \in Seq(Pushes) /\ Len(seen') <= CacheLimit /\ forgotten' \in [Pushes -> Nat]
    BY <2>3, RememberFacts DEF DeliverStep
  <2> QED
    BY <2>1, <2>2, <2>3 DEF AnyStep, QuietStep, SkipStep, BuildStep, SourceStep,
       AbortStep, DeployStep, ReplyStep, DispatchedStep, ManualStep, StartStep
<1>4. IsABag(deployments') /\ DOMAIN deployments' \subseteq Deployment
  <2>1. UNCHANGED deployments => IsABag(deployments') /\ DOMAIN deployments' \subseteq Deployment
    BY <1>t
  <2>2. ASSUME NEW x \in Deployment, Added(x)
        PROVE  IsABag(deployments') /\ DOMAIN deployments' \subseteq Deployment
    <3>1. deployments' = deployments (+) SetToBag({x})
      BY <2>2 DEF Added
    <3>2. IsABag(deployments') /\ DOMAIN deployments' = DOMAIN deployments \cup {x}
      BY <1>t, <3>1, AddedFacts
    <3> QED
      BY <1>t, <3>2
  <2>3. ASSUME NEW h \in Handlers, NEW a \in Apps, SourceStep(h, a) \/ AbortStep(h, a)
        PROVE  IsABag(deployments') /\ DOMAIN deployments' \subseteq Deployment
    <3>1. handler[h].push \in Pushes
      BY <2>3, PushRequest DEF SourceStep, AbortStep
    <3>2. SourceDeployment(a, handler[h].push) \in Deployment
      BY <3>1 DEF SourceDeployment, Deployment
    <3> QED
      BY <2>1, <2>2, <2>3, <3>2 DEF SourceStep, AbortStep
  <2>4. ASSUME NEW h \in Handlers, NEW a \in Apps, DeployStep(h, a)
        PROVE  IsABag(deployments') /\ DOMAIN deployments' \subseteq Deployment
    <3>1. builds[handler[h].build].push \in Pushes /\ handler[h].build \in Nat
      BY <2>4, DeployRequest, RequestFields DEF DeployStep
    <3>2. [app |-> a, push |-> builds[handler[h].build].push, build |-> handler[h].build] \in Deployment
      BY <3>1 DEF Deployment
    <3> QED
      BY <2>1, <2>2, <2>4, <3>2 DEF DeployStep
  <2> QED
    BY <2>1, <2>3, <2>4 DEF AnyStep, QuietStep, RestartStep, DeliverStep, SkipStep, BuildStep,
       ReplyStep, DispatchedStep, ManualStep, StartStep
<1>5. accepted' \subseteq Pushes
  <2>1. UNCHANGED accepted => accepted' \subseteq Pushes
    BY <1>t
  <2>2. ASSUME NEW h \in Handlers, ReplyStep(h) PROVE accepted' \subseteq Pushes
    <3>1. handler[h].push \in Pushes
      BY <2>2 DEF ReplyStep, HandlerInv, RequestOK
    <3> QED
      BY <1>t, <2>2, <3>1 DEF ReplyStep
  <2> QED
    BY <2>1, <2>2 DEF AnyStep, QuietStep, RestartStep, DeliverStep, SkipStep, BuildStep, SourceStep,
       AbortStep, DeployStep, DispatchedStep, ManualStep, StartStep
<1> QED
  BY <1>c, <1>t, <1>1, <1>2, <1>3, <1>4, <1>5 DEF TypeInv

\* So are the types of the rest.
LEMMA OuterStep ==
  ASSUME TypeInv, OuterInv, HandlerInv, [Next]_vars
  PROVE  OuterInv'
<1> DEFINE Calls(n) == [build: 1 .. n, status: BuildStatuses \ {"dispatched"}]
<1>c. config' = config /\ Apps' = Apps /\ Pushes' = Pushes
  BY StepKinds, ConfigFixed
<1>k. Kept
  BY StepKinds, BuildsKept
<1>t. /\ sent \in [Pushes -> 0 .. config.maxDeliveries] /\ DOMAIN calls \subseteq Calls(Len(builds))
      /\ open \subseteq Apps /\ config.maxDeliveries \in Nat
  BY ConfigAssumption DEF OuterInv, TypeInv
<1>1. DOMAIN calls \subseteq Calls(Len(builds'))
  <2>1. 1 .. Len(builds) \subseteq 1 .. Len(builds')
    BY <1>k DEF Kept
  <2> QED
    BY <1>t, <2>1
<1>2. sent' \in [Pushes -> 0 .. config.maxDeliveries]
  <2>1. ASSUME NEW h \in Handlers, NEW p \in Pushes, githubWebhook(h, p)
        PROVE  sent' \in [Pushes -> 0 .. config.maxDeliveries]
    <3>1. sent[p] + 1 \in 0 .. config.maxDeliveries /\ sent' = [sent EXCEPT ![p] = sent[p] + 1]
      BY <1>t, <2>1 DEF githubWebhook
    <3> QED
      BY <1>t, <3>1
  <2>2. UNCHANGED sent => sent' \in [Pushes -> 0 .. config.maxDeliveries]
    BY <1>t
  <2>3. ASSUME NEW h \in Handlers, NEW a \in Apps,
               \/ PushSkip(h, a) \/ PushBuild(h, a) \/ PushBuildFails(h, a)
               \/ PushSource(h, a) \/ PushSourceFails(h, a)
               \/ autoDeploy(h, a) \/ autoDeployFails(h, a) \/ autoDeploySkip(h, a)
        PROVE  UNCHANGED sent
    BY <2>3 DEF PushSkip, PushBuild, PushBuildFails, PushSource, PushSourceFails, autoDeploy,
       autoDeployFails, autoDeploySkip
  <2> QED
    BY <2>1, <2>2, <2>3 DEF Next, vars, Restart, dispatchGitHubBuild, PushReply, DispatchWorkflow,
       DispatchFails, WorkflowRerun, WorkflowEnds, CallbackLost, completeBuildRun, DeploymentEnds
<1>3. DOMAIN calls' \subseteq Calls(Len(builds'))
  <2>1. UNCHANGED calls => DOMAIN calls' \subseteq Calls(Len(builds'))
    BY <1>1
  <2>2. ASSUME NEW b \in DOMAIN builds, NEW s \in BuildStatuses \ {"dispatched"}, WorkflowEnds(b, s)
        PROVE  DOMAIN calls' \subseteq Calls(Len(builds'))
    <3>1. b \in 1 .. Len(builds')
      BY <1>k DEF Kept, TypeInv
    <3>2. [build |-> b, status |-> s] \in Calls(Len(builds'))
      BY <3>1
    <3>3. DOMAIN calls' = DOMAIN calls \cup {[build |-> b, status |-> s]}
      BY <2>2 DEF WorkflowEnds, SetToBag, (+)
    <3> QED
      BY <1>1, <3>2, <3>3
  <2>3. ASSUME NEW call, calls' = calls (-) SetToBag({call})
        PROVE  DOMAIN calls' \subseteq Calls(Len(builds'))
    <3>1. DOMAIN calls' \subseteq DOMAIN calls
      BY <2>3 DEF SetToBag, (-)
    <3> QED
      BY <1>1, <3>1
  <2>4. ASSUME NEW h \in Handlers, NEW a \in Apps,
               \/ PushSkip(h, a) \/ PushBuild(h, a) \/ PushBuildFails(h, a)
               \/ PushSource(h, a) \/ PushSourceFails(h, a)
               \/ autoDeploy(h, a) \/ autoDeployFails(h, a) \/ autoDeploySkip(h, a)
        PROVE  UNCHANGED calls
    BY <2>4 DEF PushSkip, PushBuild, PushBuildFails, PushSource, PushSourceFails, autoDeploy,
       autoDeployFails, autoDeploySkip
  <2> QED
    BY <2>1, <2>2, <2>3, <2>4 DEF Next, vars, Restart, githubWebhook, dispatchGitHubBuild, PushReply,
       DispatchWorkflow, DispatchFails, WorkflowRerun, CallbackLost, completeBuildRun, DeploymentEnds
<1>4. open' \subseteq Apps
  <2>1. UNCHANGED open => open' \subseteq Apps
    BY <1>t
  <2>2. \A a \in Apps : open' = open \cup {a} => open' \subseteq Apps
    BY <1>t
  <2>3. \A a \in Apps : open' = open \ {a} => open' \subseteq Apps
    BY <1>t
  <2>4. ASSUME NEW a \in Apps, NEW p, NEW b, CreateDeployment(a, p, b) \/ CreateFails(a, p, b)
        PROVE  open' \subseteq Apps
    BY <2>4, <2>1, <2>2 DEF CreateDeployment, CreateFails
  <2>5. ASSUME NEW h \in Handlers, NEW a \in Apps,
               PushSource(h, a) \/ PushSourceFails(h, a) \/ autoDeploy(h, a)
        PROVE  open' \subseteq Apps
    BY <2>1, <2>4, <2>5 DEF PushSource, PushSourceFails, autoDeploy
  <2> QED
    BY <2>1, <2>3, <2>5 DEF Next, vars, Restart, githubWebhook, dispatchGitHubBuild, PushSkip,
       PushBuild, PushBuildFails, autoDeployFails, autoDeploySkip, PushReply, DispatchWorkflow,
       DispatchFails, WorkflowRerun, WorkflowEnds, CallbackLost, completeBuildRun, DeploymentEnds
<1> QED
  BY <1>c, <1>2, <1>3, <1>4 DEF OuterInv

\* Requests that deploy go on with the build they had.
Follows ==
  \A g \in Handlers : handler'[g].pc = "deploy" =>
    /\ handler[g].pc = "deploy" /\ handler'[g].build = handler[g].build
    /\ Range(handler'[g].todo) \subseteq Range(handler[g].todo)

\* Only the first success of a build makes a new one.
LEMMA DeploysFollow ==
  ASSUME TypeInv, HandlerInv, AnyStep
  PROVE  Follows \/ \E h \in Handlers, b \in 1 .. Len(builds) : StartStep(h, b)
<1>1. UNCHANGED handler => Follows
  BY DEF Follows
<1>2. ASSUME NEW h \in Handlers, NEW pc, NEW p, NEW b, NEW todo, Moves(h, pc, p, b, todo), pc # "deploy"
      PROVE  Follows
  BY <1>2 DEF Moves, Follows
<1>3. \A h \in Handlers : Ends(h) => Follows
  BY <1>2 DEF Ends
<1>4. ASSUME NEW h \in Handlers, NEW a, DeployStep(h, a) PROVE Follows
  <2>1. handler[h].pc = "deploy" /\ Range(Tail(handler[h].todo)) \subseteq Range(handler[h].todo)
    BY <1>4, DeployRequest DEF DeployStep
  <2>2. CASE Ends(h)
    BY <2>2, <1>3
  <2>3. CASE Moves(h, "deploy", handler[h].push, handler[h].build, Tail(handler[h].todo))
    BY <2>1, <2>3 DEF Moves, Follows
  <2> QED
    BY <1>4, <2>2, <2>3 DEF DeployStep
<1>5. RestartStep => Follows
  BY DEF RestartStep, Follows, Idle
<1>6. ASSUME NEW h \in Handlers, NEW p, DeliverStep(h, p) PROVE Follows
  BY <1>6, <1>2 DEF DeliverStep
<1>7. ASSUME NEW h \in Handlers, NEW a, SkipStep(h, a) \/ BuildStep(h, a) \/ SourceStep(h, a)
      PROVE  Follows
  BY <1>7, <1>2 DEF SkipStep, BuildStep, SourceStep
<1>8. ASSUME NEW h \in Handlers, NEW a, NEW p, ManualStep(h, a, p) PROVE Follows
  BY <1>8, <1>2 DEF ManualStep
<1>9. ASSUME NEW h \in Handlers, DispatchedStep(h) PROVE Follows
  BY <1>9, <1>2, <1>3 DEF DispatchedStep
<1>10. ASSUME NEW h \in Handlers, NEW a, AbortStep(h, a) \/ ReplyStep(h) PROVE Follows
  BY <1>10, <1>3 DEF AbortStep, ReplyStep
<1> QED
  BY <1>1, <1>4, <1>5, <1>6, <1>7, <1>8, <1>9, <1>10 DEF AnyStep, QuietStep

\* Requests stay in order.
LEMMA HandlerStep ==
  ASSUME TypeInv, HandlerInv, AnyStep, config' = config
  PROVE  HandlerInv'
<1>c. Apps' = Apps /\ Pushes' = Pushes
  BY ConfigFixed
<1>k. Kept
  BY BuildsKept
<1>n. Len(builds) \in Nat /\ Len(builds') \in Nat /\ Len(builds) <= Len(builds')
  BY <1>k DEF Kept
<1>u. ASSUME NEW g \in Handlers, handler'[g] = handler[g] PROVE RequestOK(g)'
  <2>1. RequestOK(g)
    BY DEF HandlerInv
  <2>2. handler[g].pc = "deploy" =>
          builds'[handler[g].build].status = "succeeded"
          /\ builds'[handler[g].build].app = builds[handler[g].build].app
    BY <2>1, <1>k DEF RequestOK, Kept
  <2>3. handler[g].build \in 0 .. Len(builds')
    BY <2>1, <1>n DEF RequestOK
  <2>4. handler[g].build \in 1 .. Len(builds) => handler[g].build \in 1 .. Len(builds')
    BY <1>n
  <2> QED
    BY <1>u, <1>c, <2>1, <2>2, <2>3, <2>4 DEF RequestOK
<1>m. ASSUME NEW h \in Handlers, NEW pc, NEW p, NEW b \in 0 .. Len(builds'), NEW todo,
             Moves(h, pc, p, b, todo), NoRepeat(todo), pc # "deploy",
             pc = "push" => p \in Pushes, pc = "dispatch" => b # 0
      PROVE  \A g \in Handlers : RequestOK(g)'
  <2>1. RequestOK(h)'
    <3>1. b # 0 => b \in 1 .. Len(builds')
      BY <1>n
    <3>2. /\ handler'[h].pc = pc /\ handler'[h].push = p /\ handler'[h].build = b
          /\ handler'[h].todo = todo
      BY <1>m DEF Moves
    <3> QED
      BY <1>m, <1>c, <3>1, <3>2 DEF RequestOK
  <2> QED
    BY <1>m, <1>u, <2>1 DEF Moves
<1>z. 0 \in 0 .. Len(builds') /\ NoRepeat(<<>>)
  BY <1>n DEF NoRepeat
<1>e. ASSUME NEW h \in Handlers, Ends(h) PROVE \A g \in Handlers : RequestOK(g)'
  BY <1>e, <1>m, <1>z DEF Ends
<1>1. \A g \in Handlers : RequestOK(g)'
  <2>1. CASE QuietStep
    BY <2>1, <1>u DEF QuietStep
  <2>2. CASE RestartStep
    BY <2>2, <1>z DEF RestartStep, RequestOK, Idle
  <2>3. ASSUME NEW h \in Handlers, NEW p \in Pushes, DeliverStep(h, p)
        PROVE  \A g \in Handlers : RequestOK(g)'
    <3>1. NoRepeat(AppOrder)
      BY ConfigFacts DEF TypeInv
    <3> QED
      BY <2>3, <3>1, <1>m, <1>z DEF DeliverStep
  <2>4. ASSUME NEW h \in Handlers, NEW a \in Apps, SkipStep(h, a) \/ SourceStep(h, a)
        PROVE  \A g \in Handlers : RequestOK(g)'
    <3>1. handler[h].push \in Pushes /\ NoRepeat(Tail(handler[h].todo))
      BY <2>4, PushRequest DEF SkipStep, SourceStep
    <3>2. handler[h].build \in 0 .. Len(builds')
      BY <1>n DEF HandlerInv, RequestOK
    <3> QED
      BY <2>4, <3>1, <3>2, <1>m DEF SkipStep, SourceStep
  <2>5. ASSUME NEW h \in Handlers, NEW a \in Apps, BuildStep(h, a)
        PROVE  \A g \in Handlers : RequestOK(g)'
    <3>1. handler[h].push \in Pushes /\ NoRepeat(Tail(handler[h].todo))
      BY <2>5, PushRequest DEF BuildStep
    <3>2. Len(builds') = Len(builds) + 1
      BY <2>5, <3>1, CreateFacts DEF BuildStep
    <3>3. Len(builds) + 1 \in 0 .. Len(builds') /\ Len(builds) + 1 # 0
      BY <3>2, <1>n
    <3> QED
      BY <2>5, <3>1, <3>3, <1>m DEF BuildStep
  <2>6. ASSUME NEW h \in Handlers, ReplyStep(h) \/ \E a \in Apps : AbortStep(h, a)
        PROVE  \A g \in Handlers : RequestOK(g)'
    BY <2>6, <1>e DEF AbortStep, ReplyStep
  <2>7. ASSUME NEW h \in Handlers, NEW a \in Apps, DeployStep(h, a)
        PROVE  \A g \in Handlers : RequestOK(g)'
    <3>1. CASE Ends(h)
      BY <3>1, <1>e
    <3>2. CASE Moves(h, "deploy", handler[h].push, handler[h].build, Tail(handler[h].todo))
      <4>1. NoRepeat(Tail(handler[h].todo)) /\ handler[h].build \in 1 .. Len(builds)
            /\ Range(Tail(handler[h].todo)) \subseteq Range(handler[h].todo)
            /\ builds[handler[h].build].status = "succeeded" /\ handler[h].pc = "deploy"
        BY <2>7, DeployRequest DEF DeployStep
      <4>2. \A x \in Range(handler[h].todo) : builds[handler[h].build].app \in {NoApp, x}
        BY <4>1 DEF HandlerInv, RequestOK
      <4>3. /\ handler'[h].pc = "deploy" /\ handler'[h].build = handler[h].build
            /\ handler'[h].todo = Tail(handler[h].todo)
            /\ \A g \in Handlers : g # h => handler'[g] = handler[g]
        BY <3>2 DEF Moves
      <4>4. builds' = builds
        BY <2>7 DEF DeployStep
      <4>5. RequestOK(h)'
        BY <4>1, <4>2, <4>3, <4>4, <1>n DEF RequestOK
      <4> QED
        BY <4>3, <4>5, <1>u
    <3> QED
      BY <2>7, <3>1, <3>2 DEF DeployStep
  <2>8. ASSUME NEW h \in Handlers, DispatchedStep(h) PROVE \A g \in Handlers : RequestOK(g)'
    <3>1. NoRepeat(handler[h].todo) /\ handler[h].push \in Pushes \cup {NoPush}
      BY RequestFields DEF HandlerInv, RequestOK
    <3>2. CASE handler[h].push = NoPush
      BY <2>8, <3>2, <1>e DEF DispatchedStep
    <3>3. CASE handler[h].push # NoPush
      BY <2>8, <3>1, <3>3, <1>m, <1>z DEF DispatchedStep
    <3> QED
      BY <3>2, <3>3
  <2>9. ASSUME NEW h \in Handlers, NEW a \in Apps \cup {NoApp}, NEW p \in Pushes, ManualStep(h, a, p)
        PROVE  \A g \in Handlers : RequestOK(g)'
    <3>1. Len(builds') = Len(builds) + 1
      BY <2>9, CreateFacts DEF ManualStep
    <3>2. Len(builds) + 1 \in 0 .. Len(builds') /\ Len(builds) + 1 # 0
      BY <3>1, <1>n
    <3> QED
      BY <2>9, <3>2, <1>m, <1>z DEF ManualStep
  <2>10. ASSUME NEW h \in Handlers, NEW b \in 1 .. Len(builds), StartStep(h, b)
         PROVE  \A g \in Handlers : RequestOK(g)'
    <3> DEFINE todo == ListApplicationsForBuildComplete(b)
    <3>1. /\ handler'[h].pc = "deploy" /\ handler'[h].build = b /\ handler'[h].todo = todo
          /\ handler'[h].push = NoPush
          /\ \A g \in Handlers : g # h => handler'[g] = handler[g]
      BY <2>10 DEF StartStep, Moves
    <3>2. builds'[b].status = "succeeded" /\ builds'[b].app = builds[b].app
          /\ Len(builds') = Len(builds)
      BY <2>10, StartFacts DEF StartStep
    <3>3. NoRepeat(todo) /\ \A x \in Range(todo) : builds[b].app \in {NoApp, x}
      <4>1. CASE builds[b].app = NoApp
        <5>1. NoRepeat(AppOrder)
          BY ConfigFacts DEF TypeInv
        <5> QED
          BY <4>1, <5>1 DEF ListApplicationsForBuildComplete
      <4>2. CASE builds[b].app # NoApp
        BY <4>2 DEF ListApplicationsForBuildComplete, NoRepeat, Range
      <4> QED
        BY <4>1, <4>2
    <3>4. RequestOK(h)'
      <4> HIDE DEF todo
      <4> QED
        BY <3>1, <3>2, <3>3, <1>n DEF RequestOK
    <3> QED
      BY <3>1, <3>4, <1>u
  <2> QED
    BY <2>1, <2>2, <2>3, <2>4, <2>5, <2>6, <2>7, <2>8, <2>9, <2>10 DEF AnyStep
<1>2. ASSUME NEW g \in Handlers, NEW f \in Handlers, handler'[g].pc = "deploy",
             handler'[f].pc = "deploy", handler'[g].build = handler'[f].build
      PROVE  g = f
  <2>1. CASE Follows
    BY <1>2, <2>1 DEF Follows, HandlerInv
  <2>2. ASSUME NEW h \in Handlers, NEW b \in 1 .. Len(builds), StartStep(h, b) PROVE g = f
    <3>1. /\ handler'[h].build = b /\ builds[b].status # "succeeded"
          /\ \A x \in Handlers : x # h => handler'[x] = handler[x]
      BY <2>2 DEF StartStep, Moves
    <3>2. \A x \in Handlers : x # h /\ handler[x].pc = "deploy" => handler[x].build # b
      BY <3>1 DEF HandlerInv, RequestOK
    <3> QED
      BY <1>2, <3>1, <3>2 DEF HandlerInv
  <2> QED
    BY <2>1, <2>2, DeploysFollow
<1> QED
  BY <1>1, <1>2 DEF HandlerInv

\* Deployments of a build stay its only ones.
LEMMA DepStep ==
  ASSUME TypeInv, HandlerInv, DepInv, AnyStep
  PROVE  DepInv'
<1>k. Kept
  BY BuildsKept
<1>b. IsABag(deployments)
  BY DEF TypeInv
\* A deployment that was there, in a step that starts nothing for a build.
<1>o. ASSUME NEW d \in DOMAIN deployments, d.build # 0, deployments'[d] = deployments[d],
             \A h \in Handlers : handler'[h].pc = "deploy" /\ handler'[h].build = d.build =>
               d.app \notin Range(handler'[h].todo)
      PROVE  DeploymentOK(d)'
  <2>1. DeploymentOK(d)
    BY <1>o DEF DepInv
  <2>2. /\ d.build \in 1 .. Len(builds') /\ builds'[d.build].status = "succeeded"
        /\ builds'[d.build].app = builds[d.build].app /\ builds'[d.build].push = builds[d.build].push
    BY <2>1, <1>k DEF DeploymentOK, Kept
  <2> QED
    BY <1>o, <2>1, <2>2 DEF DeploymentOK
<1>f. ASSUME NEW d \in DOMAIN deployments, d.build # 0, deployments'[d] = deployments[d], Follows
      PROVE  DeploymentOK(d)'
  <2>1. DeploymentOK(d)
    BY <1>f DEF DepInv
  <2>2. \A h \in Handlers : handler'[h].pc = "deploy" /\ handler'[h].build = d.build =>
          d.app \notin Range(handler'[h].todo)
    BY <1>f, <2>1 DEF DeploymentOK, Follows
  <2> QED
    BY <1>f, <2>2, <1>o
<1>1. ASSUME UNCHANGED deployments, Follows PROVE DepInv'
  BY <1>1, <1>f DEF DepInv
<1>2. ASSUME NEW h \in Handlers, NEW a \in Apps, SourceStep(h, a) \/ AbortStep(h, a), Follows
      PROVE  DepInv'
  <2>1. CASE UNCHANGED deployments
    BY <2>1, <1>1, <1>2
  <2>2. CASE Added(SourceDeployment(a, handler[h].push))
    <3> DEFINE x == SourceDeployment(a, handler[h].push)
    <3>0. x.build = 0
      BY DEF SourceDeployment
    <3>1. deployments' = deployments (+) SetToBag({x})
      BY <2>2 DEF Added
    <3> HIDE DEF x
    <3>2. /\ DOMAIN deployments' = DOMAIN deployments \cup {x}
          /\ \A d \in DOMAIN deployments : d # x => deployments'[d] = deployments[d]
      BY <3>1, <1>b, AddedFacts
    <3> QED
      BY <3>0, <3>2, <1>2, <1>f DEF DepInv
  <2> QED
    BY <1>2, <2>1, <2>2 DEF SourceStep, AbortStep
<1>3. ASSUME NEW h \in Handlers, NEW a \in Apps, DeployStep(h, a), Follows PROVE DepInv'
  <2>1. CASE UNCHANGED deployments
    BY <2>1, <1>1, <1>3
  <2> DEFINE b == handler[h].build
             x == [app |-> a, push |-> builds[b].push, build |-> b]
  <2>2. CASE Added(x)
    <3>1. /\ handler[h].pc = "deploy" /\ b \in 1 .. Len(builds) /\ builds[b].status = "succeeded"
          /\ builds[b].app \in {NoApp, a} /\ a \in Range(handler[h].todo)
          /\ a \notin Range(Tail(handler[h].todo))
      BY <1>3, DeployRequest DEF DeployStep
    <3>2. builds' = builds
      BY <1>3 DEF DeployStep
    <3>x. x.app = a /\ x.push = builds[b].push /\ x.build = b /\ b # 0
      BY <3>1
    <3>3. x \notin DOMAIN deployments
      <4> SUFFICES ASSUME x \in DOMAIN deployments PROVE FALSE
        OBVIOUS
      <4>1. DeploymentOK(x)
        BY <3>x DEF DepInv
      <4> HIDE DEF x
      <4> QED
        BY <4>1, <3>1, <3>x DEF DeploymentOK
    <3>4. deployments' = deployments (+) SetToBag({x})
      BY <2>2 DEF Added
    <3> HIDE DEF x
    <3>5. /\ DOMAIN deployments' = DOMAIN deployments \cup {x}
          /\ \A d \in DOMAIN deployments : d # x => deployments'[d] = deployments[d]
          /\ deployments'[x] = 1
      BY <3>3, <3>4, <1>b, AddedFacts
    <3>6. \A g \in Handlers : handler'[g].pc = "deploy" /\ handler'[g].build = b =>
            a \notin Range(handler'[g].todo)
      <4> SUFFICES ASSUME NEW g \in Handlers, handler'[g].pc = "deploy", handler'[g].build = b
                   PROVE  a \notin Range(handler'[g].todo)
        OBVIOUS
      <4>1. g = h
        BY <1>3, <3>1 DEF Follows, HandlerInv
      <4>2. handler'[h].todo = Tail(handler[h].todo)
        BY <1>3, <4>1 DEF DeployStep, Ends, Moves
      <4> QED
        BY <4>1, <4>2, <3>1
    <3>y. PICK y : y = x
      OBVIOUS
    <3>c. PICK c : c = b
      OBVIOUS
    <3>p. PICK p : p = builds[b].push
      OBVIOUS
    <3>7. /\ y.app = a /\ y.push = p /\ y.build = c /\ c \in 1 .. Len(builds')
          /\ builds'[c].status = "succeeded" /\ builds'[c].app \in {NoApp, a} /\ builds'[c].push = p
          /\ deployments'[y] = 1
      <4> HIDE DEF b
      <4> QED
        BY <3>1, <3>2, <3>x, <3>y, <3>c, <3>p, <3>5
    <3>8. \A g \in Handlers : handler'[g].pc = "deploy" /\ handler'[g].build = c =>
            a \notin Range(handler'[g].todo)
      BY <3>6, <3>c
    <3>9. DeploymentOK(y)'
      BY <3>7, <3>8 DEF DeploymentOK
    <3>10. /\ DOMAIN deployments' = DOMAIN deployments \cup {y}
           /\ \A d \in DOMAIN deployments : deployments'[d] = deployments[d]
      BY <3>3, <3>5, <3>y
    <3> QED
      BY <3>9, <3>10, <1>3, <1>f DEF DepInv
  <2> QED
    BY <1>3, <2>1, <2>2 DEF DeployStep
<1>4. ASSUME NEW h \in Handlers, NEW b \in 1 .. Len(builds), StartStep(h, b) PROVE DepInv'
  <2> SUFFICES ASSUME NEW d \in DOMAIN deployments, d.build # 0 PROVE DeploymentOK(d)'
    BY <1>4 DEF StartStep, DepInv
  <2>1. DeploymentOK(d)
    BY DEF DepInv
  <2>2. d.build # b /\ deployments' = deployments
    BY <1>4, <2>1 DEF StartStep, DeploymentOK
  <2>3. /\ handler'[h].build = b
        /\ \A g \in Handlers : g # h => handler'[g] = handler[g]
    BY <1>4 DEF StartStep, Moves
  <2>4. \A g \in Handlers : handler'[g].pc = "deploy" /\ handler'[g].build = d.build =>
          d.app \notin Range(handler'[g].todo)
    BY <2>1, <2>2, <2>3 DEF DeploymentOK
  <2> QED
    BY <2>2, <2>4, <1>o
<1> QED
  BY <1>1, <1>2, <1>3, <1>4, DeploysFollow DEF AnyStep, QuietStep, RestartStep, DeliverStep, SkipStep,
     BuildStep, ReplyStep, DispatchedStep, ManualStep

\* Deployments and builds stay with what was pushed.
LEMMA AffectStep ==
  ASSUME TypeInv, HandlerInv, DepInv, OnlyAffected, AnyStep, config' = config
  PROVE  OnlyAffected'
<1>c. /\ config \in Configurations /\ config' = config /\ NoApp \notin Apps
      /\ \A a, p : Affects(p, a)' = Affects(p, a)
  BY ConfigFixed, ConfigFacts DEF TypeInv
<1>k. Kept
  BY BuildsKept
<1>s. builds \in Seq(BuildRun) /\ DOMAIN builds = 1 .. Len(builds) /\ Len(builds) \in Nat
      /\ DOMAIN builds' = 1 .. Len(builds') /\ Len(builds') \in Nat
  BY <1>k DEF TypeInv, Kept
<1>b. IsABag(deployments)
  BY DEF TypeInv
<1>d. DepInv'
  BY DepStep
<1>1. ASSUME NEW b \in DOMAIN builds', ~builds'[b].manual
      PROVE  builds'[b].app # NoApp /\ Affects(builds'[b].push, builds'[b].app)
  <2>1. CASE b \in 1 .. Len(builds)
    BY <1>1, <1>k, <1>s, <2>1 DEF Kept, OnlyAffected
  <2>2. ASSUME b \notin 1 .. Len(builds), NEW h \in Handlers, NEW a \in Apps, BuildStep(h, a)
        PROVE  builds'[b].app # NoApp /\ Affects(builds'[b].push, builds'[b].app)
    <3>1. handler[h].push \in Pushes
      BY <2>2, PushRequest DEF BuildStep
    <3>2. /\ Len(builds') = Len(builds) + 1
          /\ builds'[Len(builds) + 1].app = a /\ builds'[Len(builds) + 1].push = handler[h].push
      BY <2>2, <3>1, CreateFacts DEF BuildStep
    <3>3. b = Len(builds) + 1
      BY <1>s, <2>2, <3>2
    <3>4. Affects(handler[h].push, a)
      BY <1>c, <2>2, <3>1, TargetAffects DEF BuildStep
    <3> QED
      BY <1>c, <3>2, <3>3, <3>4
  <2>3. ASSUME b \notin 1 .. Len(builds), NEW h \in Handlers, NEW a \in Apps \cup {NoApp},
               NEW p \in Pushes, ManualStep(h, a, p)
        PROVE  FALSE
    <3>1. Len(builds') = Len(builds) + 1 /\ builds'[Len(builds) + 1].manual = TRUE
      BY <2>3, CreateFacts DEF ManualStep
    <3>2. b = Len(builds) + 1
      BY <1>s, <2>3, <3>1
    <3> QED
      BY <1>1, <3>1, <3>2
  <2>4. ASSUME b \notin 1 .. Len(builds), Len(builds') = Len(builds) PROVE FALSE
    BY <1>s, <2>4
  <2>5. ASSUME NEW h \in Handlers, NEW c \in 1 .. Len(builds), StartStep(h, c)
        PROVE  Len(builds') = Len(builds)
    BY <2>5, StartFacts DEF StartStep
  <2> QED
    BY <2>1, <2>2, <2>3, <2>4, <2>5 DEF AnyStep, QuietStep, SameBuilds, RestartStep, DeliverStep,
       SkipStep, SourceStep, AbortStep, DeployStep, ReplyStep, DispatchedStep
<1>2. ASSUME NEW d \in DOMAIN deployments', d.build # 0
      PROVE  \/ builds'[d.build].app = d.app
             \/ builds'[d.build].app = NoApp /\ builds'[d.build].manual
  <2>1. builds'[d.build].app \in {NoApp, d.app} /\ d.build \in DOMAIN builds'
    BY <1>2, <1>d, <1>s DEF DepInv, DeploymentOK
  <2> QED
    BY <1>1, <2>1
<1>u. upset \subseteq upset'
  BY DEF AnyStep, QuietStep, RestartStep, DeliverStep, SkipStep, BuildStep, SourceStep,
     AbortStep, DeployStep, ReplyStep, DispatchedStep, ManualStep, StartStep
<1> DEFINE Blind == ~config.githubApp \/ ~config.repoNamed
<1>3. ASSUME NEW d \in DOMAIN deployments', d.build = 0
      PROVE  Blind \/ <<d.app, d.push>> \in upset' \/ Affects(d.push, d.app)
  <2>1. CASE d \in DOMAIN deployments
    BY <1>3, <1>u, <2>1 DEF OnlyAffected, BagToSet
  <2>a. ASSUME NEW x, Added(x) PROVE DOMAIN deployments' = DOMAIN deployments \cup {x}
    BY <1>b, <2>a, AddedFacts DEF Added
  <2>2. ASSUME d \notin DOMAIN deployments, NEW h \in Handlers, NEW a \in Apps,
               SourceStep(h, a) \/ AbortStep(h, a)
        PROVE  Blind \/ <<d.app, d.push>> \in upset' \/ Affects(d.push, d.app)
    <3>1. /\ Added(SourceDeployment(a, handler[h].push))
          /\ PushTarget(a, handler[h].push) = "source" \/ <<a, handler[h].push>> \in upset'
      BY <2>2 DEF SourceStep, AbortStep
    <3>2. d = SourceDeployment(a, handler[h].push)
      BY <2>2, <2>a, <3>1
    <3>3. d.app = a /\ d.push = handler[h].push
      BY <3>2 DEF SourceDeployment
    <3>4. handler[h].push \in Pushes
      BY <2>2, PushRequest DEF SourceStep, AbortStep
    <3> QED
      BY <1>c, <3>1, <3>3, <3>4, TargetAffects
  <2>3. ASSUME d \notin DOMAIN deployments, NEW h \in Handlers, NEW a \in Apps, DeployStep(h, a)
        PROVE  FALSE
    <3>1. handler[h].build # 0
      BY <2>3, DeployRequest DEF DeployStep
    <3> DEFINE x == [app |-> a, push |-> builds[handler[h].build].push, build |-> handler[h].build]
    <3>2. Added(x) /\ x.build = handler[h].build
      BY <2>3 DEF DeployStep
    <3> HIDE DEF x
    <3>3. d = x
      BY <2>3, <2>a, <3>2
    <3> QED
      BY <1>3, <3>1, <3>2, <3>3
  <2> QED
    BY <2>1, <2>2, <2>3 DEF AnyStep, QuietStep, RestartStep, DeliverStep, SkipStep, BuildStep,
       ReplyStep, DispatchedStep, ManualStep, StartStep
<1> QED
  BY <1>c, <1>1, <1>2, <1>3 DEF OnlyAffected, BagToSet

\* What has been handled stays handled.
LEMMA HandledStays ==
  ASSUME TypeInv, HandlerInv, AnyStep, config' = config, NEW a, NEW p, Handled(a, p)
  PROVE  Handled(a, p)'
<1>c. /\ HealthChecked' = HealthChecked /\ WithCompose' = WithCompose
      /\ PushTarget(a, p)' = PushTarget(a, p)
  BY ConfigFixed
<1>k. Kept
  BY BuildsKept
<1>1. PushBuilds(a, p) \subseteq PushBuilds(a, p)'
  <2>1. DOMAIN builds = 1 .. Len(builds) /\ DOMAIN builds' = 1 .. Len(builds')
    BY <1>k DEF Kept, TypeInv
  <2> QED
    BY <1>k, <2>1 DEF PushBuilds, Kept
<1>2. upset \subseteq upset'
  BY DEF AnyStep, QuietStep, RestartStep, DeliverStep, SkipStep, BuildStep, SourceStep,
     AbortStep, DeployStep, ReplyStep, DispatchedStep, ManualStep, StartStep
<1>3. DOMAIN deployments \subseteq DOMAIN deployments'
  <2>1. ASSUME NEW x, Added(x) PROVE DOMAIN deployments \subseteq DOMAIN deployments'
    BY <2>1, AddedFacts DEF Added, TypeInv
  <2> QED
    BY <2>1 DEF AnyStep, QuietStep, RestartStep, DeliverStep, SkipStep, BuildStep, SourceStep,
       AbortStep, DeployStep, ReplyStep, DispatchedStep, ManualStep, StartStep
<1>4. SourceDeployment(a, p)' = SourceDeployment(a, p)
  BY DEF SourceDeployment
<1> QED
  BY <1>c, <1>1, <1>2, <1>3, <1>4 DEF Handled

\* What a push asks for is done, or still before its request.
LEMMA DoneStep ==
  ASSUME TypeInv, HandlerInv, DoneInv, AnyStep, config' = config
  PROVE  DoneInv'
<1> DEFINE Fine(g) == \A p \in Pushes : handler'[g].pc \in Serving /\ handler'[g].push = p =>
             \A a \in Apps : a \in Range(handler'[g].todo) \/ Handled(a, p)'
<1>c. /\ Apps' = Apps /\ Pushes' = Pushes /\ HealthChecked' = HealthChecked
      /\ WithCompose' = WithCompose /\ \A a, p : PushTarget(a, p)' = PushTarget(a, p)
  BY ConfigFixed
<1>h. \A a, p : Handled(a, p) => Handled(a, p)'
  BY HandledStays
<1>n. NoPush \notin Pushes
  BY ConfigFacts DEF TypeInv
<1>u. ASSUME NEW g \in Handlers, handler'[g] = handler[g] PROVE Fine(g)
  BY <1>u, <1>h DEF DoneInv
<1>i. ASSUME NEW g \in Handlers, handler'[g].pc \notin Serving \/ handler'[g].push = NoPush
      PROVE  Fine(g)
  BY <1>i, <1>n
\* The request that is served has one application less before it.
<1>a. ASSUME NEW h \in Handlers, NEW a \in Apps, PushApp(h, a),
             handler'[h].push = handler[h].push, handler'[h].todo = Tail(handler[h].todo),
             \A p \in Pushes : handler[h].push = p => Handled(a, p)'
      PROVE  Fine(h)
  <2>1. /\ handler[h].pc = "push"
        /\ \A x : x \in Range(handler[h].todo) <=> x = a \/ x \in Range(Tail(handler[h].todo))
    BY <1>a, PushRequest
  <2>2. ASSUME NEW p \in Pushes, handler[h].push = p, NEW x \in Apps
        PROVE  x \in Range(Tail(handler[h].todo)) \/ Handled(x, p)'
    <3>1. x \in Range(handler[h].todo) \/ Handled(x, p)
      BY <2>1, <2>2 DEF DoneInv, Serving
    <3> QED
      BY <3>1, <2>1, <2>2, <1>a, <1>h
  <2> QED
    BY <2>2, <1>a
<1> HIDE DEF Fine
<1>e. ASSUME NEW h \in Handlers, Ends(h) PROVE \A g \in Handlers : Fine(g)
  BY <1>e, <1>u, <1>i DEF Ends, Moves
<1>1. \A g \in Handlers : Fine(g)
  <2>1. CASE QuietStep
    BY <2>1, <1>u DEF QuietStep
  <2>2. CASE RestartStep
    BY <2>2, <1>i DEF RestartStep, Idle, Serving
  <2>3. ASSUME NEW h \in Handlers, NEW p \in Pushes, DeliverStep(h, p)
        PROVE  \A g \in Handlers : Fine(g)
    <3>1. handler'[h].todo = AppOrder /\ \A g \in Handlers : g # h => handler'[g] = handler[g]
      BY <2>3 DEF DeliverStep, Moves
    <3>2. Fine(h)
      BY <3>1 DEF Fine, Apps
    <3> QED
      BY <3>1, <3>2, <1>u
  <2>4. ASSUME NEW h \in Handlers, NEW a \in Apps, SkipStep(h, a) PROVE \A g \in Handlers : Fine(g)
    <3>1. /\ PushApp(h, a) /\ handler'[h].push = handler[h].push
          /\ handler'[h].todo = Tail(handler[h].todo)
          /\ \A g \in Handlers : g # h => handler'[g] = handler[g]
      BY <2>4 DEF SkipStep, Moves
    <3>2. \A p \in Pushes : handler[h].push = p => Handled(a, p)'
      BY <2>4, <1>c DEF SkipStep, Handled
    <3> QED
      BY <3>1, <3>2, <1>a, <1>u
  <2>5. ASSUME NEW h \in Handlers, NEW a \in Apps, BuildStep(h, a) PROVE \A g \in Handlers : Fine(g)
    <3>1. /\ PushApp(h, a) /\ handler'[h].push = handler[h].push
          /\ handler'[h].todo = Tail(handler[h].todo)
          /\ \A g \in Handlers : g # h => handler'[g] = handler[g]
      BY <2>5 DEF BuildStep, Moves
    <3>2. /\ builds' \in Seq(BuildRun) /\ Len(builds') = Len(builds) + 1 /\ Len(builds) \in Nat
          /\ builds'[Len(builds) + 1].app = a /\ builds'[Len(builds) + 1].push = handler[h].push
          /\ builds'[Len(builds) + 1].manual = FALSE
      <4>1. Len(builds) \in Nat
        BY DEF TypeInv
      <4>2. handler[h].push \in Pushes
        BY <3>1, PushRequest
      <4> QED
        BY <2>5, <4>1, <4>2, CreateFacts DEF BuildStep
    <3>3. Len(builds) + 1 \in DOMAIN builds'
      BY <3>2
    <3>4. \A p \in Pushes : handler[h].push = p => PushBuilds(a, p)' # {}
      BY <3>2, <3>3 DEF PushBuilds
    <3>5. \A p \in Pushes : handler[h].push = p => Handled(a, p)'
      BY <3>4 DEF Handled
    <3> QED
      BY <3>1, <3>5, <1>a, <1>u
  <2>6. ASSUME NEW h \in Handlers, NEW a \in Apps, SourceStep(h, a) PROVE \A g \in Handlers : Fine(g)
    <3>1. /\ PushApp(h, a) /\ handler'[h].push = handler[h].push
          /\ handler'[h].todo = Tail(handler[h].todo)
          /\ \A g \in Handlers : g # h => handler'[g] = handler[g]
      BY <2>6 DEF SourceStep, Moves
    <3>2. ASSUME NEW p \in Pushes, handler[h].push = p PROVE Handled(a, p)'
      <4>1. deployments' = deployments (+) SetToBag({SourceDeployment(a, p)}) /\ IsABag(deployments)
        BY <2>6, <3>2 DEF SourceStep, Added, TypeInv
      <4>2. SourceDeployment(a, p) \in DOMAIN deployments'
        BY <4>1, AddedFacts
      <4>3. (SourceDeployment(a, p) \in DOMAIN deployments)'
        BY <4>2 DEF SourceDeployment
      <4> QED
        BY <4>3 DEF Handled
    <3> QED
      BY <3>1, <3>2, <1>a, <1>u
  <2>7. ASSUME NEW h \in Handlers, ReplyStep(h) \/ \E a \in Apps : AbortStep(h, a)
        PROVE  \A g \in Handlers : Fine(g)
    BY <2>7, <1>e DEF AbortStep, ReplyStep
  <2>8. ASSUME NEW h \in Handlers, NEW a \in Apps, DeployStep(h, a) PROVE \A g \in Handlers : Fine(g)
    <3>1. CASE Ends(h)
      BY <3>1, <1>e
    <3>2. CASE Moves(h, "deploy", handler[h].push, handler[h].build, Tail(handler[h].todo))
      BY <3>2, <1>u, <1>i DEF Moves, Serving
    <3> QED
      BY <2>8, <3>1, <3>2 DEF DeployStep
  <2>9. ASSUME NEW h \in Handlers, DispatchedStep(h) PROVE \A g \in Handlers : Fine(g)
    <3>1. CASE Ends(h)
      BY <3>1, <1>e
    <3>2. CASE Moves(h, "push", handler[h].push, 0, handler[h].todo)
      <4>1. /\ handler[h].pc \in Serving /\ handler'[h].push = handler[h].push
            /\ handler'[h].todo = handler[h].todo
            /\ \A g \in Handlers : g # h => handler'[g] = handler[g]
        BY <2>9, <3>2 DEF DispatchedStep, Moves, Serving
      <4>2. Fine(h)
        BY <4>1, <1>h DEF Fine, DoneInv
      <4> QED
        BY <4>1, <4>2, <1>u
    <3> QED
      BY <2>9, <3>1, <3>2 DEF DispatchedStep
  <2>10. ASSUME NEW h \in Handlers, NEW a \in Apps \cup {NoApp}, NEW p \in Pushes, ManualStep(h, a, p)
         PROVE  \A g \in Handlers : Fine(g)
    BY <2>10, <1>u, <1>i DEF ManualStep, Moves
  <2>11. ASSUME NEW h \in Handlers, NEW b \in 1 .. Len(builds), StartStep(h, b)
         PROVE  \A g \in Handlers : Fine(g)
    BY <2>11, <1>u, <1>i DEF StartStep, Moves
  <2> QED
    BY <2>1, <2>2, <2>3, <2>4, <2>5, <2>6, <2>7, <2>8, <2>9, <2>10, <2>11 DEF AnyStep
<1>2. ASSUME NEW p \in accepted', NEW a \in Apps PROVE Handled(a, p)'
  <2>1. CASE p \in accepted
    BY <2>1, <1>h DEF DoneInv
  <2>2. ASSUME NEW h \in Handlers, ReplyStep(h), p \notin accepted PROVE Handled(a, p)
    <3>1. handler[h].pc = "push" /\ handler[h].todo = <<>> /\ p = handler[h].push
      BY <2>2, <1>2 DEF ReplyStep
    <3>2. p \in Pushes
      BY <3>1 DEF HandlerInv, RequestOK
    <3>3. a \notin Range(handler[h].todo)
      BY <3>1 DEF Range
    <3> QED
      BY <3>1, <3>2, <3>3 DEF DoneInv, Serving
  <2> QED
    BY <1>2, <1>h, <2>1, <2>2 DEF AnyStep, QuietStep, RestartStep, DeliverStep, SkipStep, BuildStep,
       SourceStep, AbortStep, DeployStep, DispatchedStep, ManualStep, StartStep
<1> QED
  BY <1>c, <1>1, <1>2 DEF DoneInv, Fine

\* Every start of a push is paid for by its id in the cache.
LEMMA CountStep ==
  ASSUME TypeInv, HandlerInv, CountInv, AnyStep, config' = config
  PROVE  CountInv'
<1>c. Apps' = Apps /\ Pushes' = Pushes
  BY ConfigFixed
<1> SUFFICES ASSUME NEW p \in Pushes, NEW a \in Apps
             PROVE  /\ IsFiniteSet(Waiting(a, p)') /\ IsFiniteSet(PushBuilds(a, p)')
                    /\ Cardinality(PushBuilds(a, p)') + Copies(SourceDeployment(a, p))'
                         + Cardinality(Waiting(a, p)') <= Allowed(p)'
  BY <1>c DEF CountInv
<1> DEFINE B == PushBuilds(a, p)
           x == SourceDeployment(a, p)
           W == Waiting(a, p)
           Goal == /\ IsFiniteSet(W') /\ IsFiniteSet(B')
                   /\ Cardinality(B') + Copies(x)' + Cardinality(W') <= Allowed(p)'
<1> SUFFICES Goal
  OBVIOUS
<1>b. IsABag(deployments) /\ Len(builds) \in Nat /\ DOMAIN builds = 1 .. Len(builds)
      /\ forgotten \in [Pushes -> Nat]
  BY DEF TypeInv
<1>x. x' = x /\ x.build = 0 /\ x.app = a /\ x.push = p
  BY DEF SourceDeployment
<1>o. /\ IsFiniteSet(W) /\ IsFiniteSet(B)
      /\ Cardinality(B) + Copies(x) + Cardinality(W) <= Allowed(p)
  BY DEF CountInv
<1>t. /\ Copies(x) \in Nat /\ Cardinality(B) \in Nat /\ Cardinality(W) \in Nat
      /\ Allowed(p) \in Nat
  <2>1. Copies(x) \in Nat
    BY <1>b DEF Copies, IsABag, BagIn, BagToSet
  <2>2. Allowed(p) \in Nat
    BY <1>b DEF Allowed
  <2> QED
    BY <1>o, <2>1, <2>2, FS_CardinalityType
<1>v. TypeInv'
  BY TypeStep
<1>w. Allowed(p)' \in Nat /\ \A d : Copies(d)' \in Nat
  <2>1. forgotten' \in [Pushes -> Nat] /\ IsABag(deployments')
    BY <1>v, <1>c DEF TypeInv
  <2> QED
    BY <2>1 DEF Allowed, Copies, IsABag, BagIn, BagToSet
<1>q. ASSUME W' \subseteq W, B' = B, Copies(x)' = Copies(x), Allowed(p)' >= Allowed(p) PROVE Goal
  <2> HIDE DEF B, W, x
  <2>1. IsFiniteSet(W') /\ Cardinality(W') <= Cardinality(W)
    BY <1>q, <1>o, FS_Subset
  <2>2. Cardinality(W') \in Nat
    BY <2>1, FS_CardinalityType
  <2> QED
    BY <1>q, <1>o, <1>t, <1>w, <2>1, <2>2
\* A request takes the application of the push from what is before it, to start it.
<1>m. ASSUME NEW h \in W, W' \subseteq W \ {h}, Allowed(p)' >= Allowed(p), IsFiniteSet(B'),
             Cardinality(B') + Copies(x)' <= Cardinality(B) + Copies(x) + 1
      PROVE  Goal
  <2> HIDE DEF B, W, x
  <2>1. IsFiniteSet(W \ {h}) /\ Cardinality(W \ {h}) = Cardinality(W) - 1
    BY <1>o, FS_RemoveElement
  <2>2. IsFiniteSet(W') /\ Cardinality(W') <= Cardinality(W) - 1
    BY <1>m, <2>1, FS_Subset
  <2>3. Cardinality(W') \in Nat /\ Cardinality(B') \in Nat
    BY <1>m, <2>2, FS_CardinalityType
  <2> QED
    BY <1>m, <1>o, <1>t, <1>w, <2>2, <2>3
<1>d. ASSUME NEW h, W' \subseteq W \cup {h}, Allowed(p)' >= Allowed(p) + 1, B' = B,
             Copies(x)' = Copies(x)
      PROVE  Goal
  <2> HIDE DEF B, W, x
  <2>1. IsFiniteSet(W \cup {h}) /\ Cardinality(W \cup {h}) <= Cardinality(W) + 1
    <3>1. /\ IsFiniteSet(W \cup {h})
          /\ Cardinality(W \cup {h}) = IF h \in W THEN Cardinality(W) ELSE Cardinality(W) + 1
      BY <1>o, FS_AddElement
    <3> QED
      BY <3>1, <1>t
  <2>2. Cardinality(W \cup {h}) \in Nat
    BY <2>1, FS_CardinalityType
  <2>3. IsFiniteSet(W') /\ Cardinality(W') <= Cardinality(W \cup {h})
    BY <1>d, <2>1, FS_Subset
  <2>4. Cardinality(W') \in Nat
    BY <2>3, FS_CardinalityType
  <2> QED
    BY <1>d, <1>o, <1>t, <1>w, <2>1, <2>2, <2>3, <2>4
\* What a step does to the builds of the push, its deployments and its requests.
<1>B1. SameBuilds => B' = B
  BY <1>b DEF SameBuilds, PushBuilds
<1>B2. UNCHANGED builds => B' = B
  BY DEF PushBuilds
<1>B3. ASSUME NEW z \in Apps \cup {NoApp}, NEW q \in Pushes, NEW man \in BOOLEAN,
              CreateBuildRun(z, q, man)
       PROVE  B' = IF z = a /\ q = p /\ ~man THEN B \cup {Len(builds) + 1} ELSE B
  <2>1. /\ builds' \in Seq(BuildRun) /\ Len(builds') = Len(builds) + 1
        /\ \A b \in 1 .. Len(builds) : builds'[b] = builds[b]
        /\ builds'[Len(builds) + 1].app = z /\ builds'[Len(builds) + 1].push = q
        /\ builds'[Len(builds) + 1].manual = man
    BY <1>B3, CreateFacts
  <2>2. DOMAIN builds' = 1 .. Len(builds) \cup {Len(builds) + 1}
    BY <2>1, <1>b
  <2> QED
    BY <2>1, <2>2, <1>b DEF PushBuilds
<1>B4. ASSUME NEW b \in 1 .. Len(builds), builds' = [builds EXCEPT ![b].status = "succeeded"]
       PROVE  B' = B
  <2>1. /\ builds' \in Seq(BuildRun) /\ Len(builds') = Len(builds)
        /\ \A c \in 1 .. Len(builds) : c # b => builds'[c] = builds[c]
        /\ builds'[b].app = builds[b].app /\ builds'[b].push = builds[b].push
        /\ builds'[b].manual = builds[b].manual
    BY <1>B4, StartFacts
  <2>2. DOMAIN builds' = 1 .. Len(builds)
    BY <2>1
  <2> QED
    BY <2>1, <2>2, <1>b DEF PushBuilds
<1>A1. UNCHANGED <<seen, forgotten>> => Allowed(p)' >= Allowed(p)
  BY <1>t DEF Allowed
<1>C1. UNCHANGED deployments => Copies(x)' = Copies(x)
  BY DEF Copies
<1>C2. ASSUME NEW z, Added(z) PROVE Copies(x)' = IF z = x THEN Copies(x) + 1 ELSE Copies(x)
  <2>1. deployments' = deployments (+) SetToBag({z})
    BY <1>C2 DEF Added
  <2> HIDE DEF x
  <2>2. Copies(z)' = Copies(z) + 1 /\ \A d : d # z => Copies(d)' = Copies(d)
    BY <1>b, <2>1, AddedFacts
  <2> QED
    BY <2>2, <1>x
<1>W1. UNCHANGED handler => W' \subseteq W
  BY DEF Waiting
<1>W2. ASSUME NEW h \in Handlers, handler'[h].pc \notin Serving \/ handler'[h].push # p,
              \A g \in Handlers : g # h => handler'[g] = handler[g]
       PROVE  W' \subseteq W \ {h}
  BY <1>W2 DEF Waiting
<1>W3. ASSUME NEW h \in Handlers, NEW z, PushApp(h, z),
              handler'[h].push = handler[h].push, handler'[h].todo = Tail(handler[h].todo),
              \A g \in Handlers : g # h => handler'[g] = handler[g]
       PROVE  /\ W' \subseteq W /\ handler[h].push \in Pushes
              /\ z = a /\ handler[h].push = p => h \in W /\ W' \subseteq W \ {h}
  <2>1. /\ handler[h].pc = "push" /\ z \in Range(handler[h].todo)
        /\ z \notin Range(Tail(handler[h].todo)) /\ handler[h].push \in Pushes
        /\ \A y : y \in Range(handler[h].todo) <=> y = z \/ y \in Range(Tail(handler[h].todo))
    BY <1>W3, PushRequest
  <2> QED
    BY <1>W3, <2>1 DEF Waiting, Serving
<1>n. NoPush # p /\ "idle" \notin Serving /\ "deploy" \notin Serving
  BY ConfigFacts DEF TypeInv, Serving
<1> HIDE DEF B, W, x
<1>W4. ASSUME NEW h \in Handlers, Ends(h) PROVE W' \subseteq W \ {h}
  BY <1>W4, <1>W2, <1>n DEF Ends, Moves
<1>1. CASE QuietStep
  BY <1>1, <1>q, <1>B1, <1>A1, <1>C1, <1>W1 DEF QuietStep
<1>2. CASE RestartStep
  <2>1. W' \subseteq W
    BY <1>2, <1>n DEF RestartStep, Idle, Waiting, W
  <2>2. Allowed(p)' >= Allowed(p)
    <3>1. forgotten'[p] = IF p \in Range(seen) THEN forgotten[p] + 1 ELSE forgotten[p]
      BY <1>2 DEF RestartStep
    <3>2. p \notin Range(seen')
      BY <1>2 DEF RestartStep, Range
    <3> QED
      BY <3>1, <3>2, <1>b DEF Allowed
  <2> QED
    BY <1>2, <2>1, <2>2, <1>q, <1>B2, <1>C1 DEF RestartStep
<1>3. ASSUME NEW h \in Handlers, NEW r \in Pushes, DeliverStep(h, r) PROVE Goal
  <2>1. /\ r \in Range(seen') /\ forgotten' \in [Pushes -> Nat] /\ forgotten'[p] >= forgotten[p]
        /\ p \in Range(seen) => p \in Range(seen') \/ forgotten'[p] = forgotten[p] + 1
    BY <1>3, RememberFacts DEF DeliverStep
  <2>2. /\ r \notin Range(seen) /\ handler'[h].push = r
        /\ \A g \in Handlers : g # h => handler'[g] = handler[g]
    BY <1>3 DEF DeliverStep, Moves
  <2>3. B' = B /\ Copies(x)' = Copies(x)
    BY <1>3, <1>B2, <1>C1 DEF DeliverStep
  <2>4. CASE r = p
    <3>1. Allowed(p)' >= Allowed(p) + 1
      BY <2>1, <2>2, <2>4, <1>b DEF Allowed
    <3>2. W' \subseteq W \cup {h}
      BY <2>2 DEF W, Waiting
    <3> QED
      BY <2>3, <3>1, <3>2, <1>d
  <2>5. CASE r # p
    <3>1. Allowed(p)' >= Allowed(p)
      BY <2>1, <1>b DEF Allowed
    <3>2. W' \subseteq W
      BY <2>2, <2>5, <1>W2
    <3> QED
      BY <2>3, <3>1, <3>2, <1>q
  <2> QED
    BY <2>4, <2>5
<1>4. ASSUME NEW h \in Handlers, NEW z \in Apps, SkipStep(h, z) PROVE Goal
  <2>1. W' \subseteq W
    BY <1>4, <1>W3 DEF SkipStep, Moves
  <2> QED
    BY <1>4, <2>1, <1>q, <1>B2, <1>A1, <1>C1 DEF SkipStep
<1>5. ASSUME NEW h \in Handlers, NEW z \in Apps, BuildStep(h, z) PROVE Goal
  <2>1. /\ W' \subseteq W /\ handler[h].push \in Pushes
        /\ z = a /\ handler[h].push = p => h \in W /\ W' \subseteq W \ {h}
    BY <1>5, <1>W3 DEF BuildStep, Moves
  <2>2. B' = IF z = a /\ handler[h].push = p THEN B \cup {Len(builds) + 1} ELSE B
    <3>1. CreateBuildRun(z, handler[h].push, FALSE) /\ z \in Apps \cup {NoApp} /\ FALSE \in BOOLEAN
      BY <1>5 DEF BuildStep
    <3>2. B' = IF z = a /\ handler[h].push = p /\ ~FALSE THEN B \cup {Len(builds) + 1} ELSE B
      BY <3>1, <2>1, <1>B3
    <3> QED
      BY <3>2
  <2>3. Copies(x)' = Copies(x) /\ Allowed(p)' >= Allowed(p)
    BY <1>5, <1>C1, <1>A1 DEF BuildStep
  <2>4. CASE z = a /\ handler[h].push = p
    <3>1. IsFiniteSet(B') /\ Cardinality(B') <= Cardinality(B) + 1
      <4> DEFINE n == Len(builds) + 1
      <4>1. B' = B \cup {n}
        BY <2>2, <2>4
      <4> HIDE DEF n
      <4>2. /\ IsFiniteSet(B \cup {n})
            /\ Cardinality(B \cup {n}) = IF n \in B THEN Cardinality(B) ELSE Cardinality(B) + 1
        BY <1>o, FS_AddElement
      <4> QED
        BY <4>1, <4>2, <1>t
    <3>2. Cardinality(B') \in Nat
      BY <3>1, FS_CardinalityType
    <3>3. Cardinality(B') + Copies(x)' <= Cardinality(B) + Copies(x) + 1
      BY <3>1, <3>2, <2>3, <1>t
    <3> QED
      BY <2>1, <2>3, <2>4, <3>1, <3>3, <1>m
  <2>5. CASE ~ (z = a /\ handler[h].push = p)
    BY <2>1, <2>2, <2>3, <2>5, <1>q
  <2> QED
    BY <2>4, <2>5
<1>6. ASSUME NEW h \in Handlers, NEW z \in Apps, SourceStep(h, z) \/ AbortStep(h, z) PROVE Goal
  <2>1. /\ W' \subseteq W
        /\ z = a /\ handler[h].push = p => h \in W /\ W' \subseteq W \ {h}
    <3>1. CASE SourceStep(h, z)
      BY <3>1, <1>W3 DEF SourceStep, Moves
    <3>2. CASE AbortStep(h, z)
      <4>1. /\ handler[h].pc = "push" /\ z \in Range(handler[h].todo)
        BY <3>2, PushRequest DEF AbortStep
      <4>2. W' \subseteq W \ {h}
        BY <3>2, <1>W4 DEF AbortStep
      <4> QED
        BY <4>1, <4>2 DEF W, Waiting, Serving
    <3> QED
      BY <1>6, <3>1, <3>2
  <2>2. B' = B /\ Allowed(p)' >= Allowed(p)
    BY <1>6, <1>B2, <1>A1 DEF SourceStep, AbortStep
  <2>3. CASE UNCHANGED deployments
    BY <2>1, <2>2, <2>3, <1>q, <1>C1
  <2>4. CASE Added(SourceDeployment(z, handler[h].push))
    <3> DEFINE y == SourceDeployment(z, handler[h].push)
    <3>1. Copies(x)' = IF y = x THEN Copies(x) + 1 ELSE Copies(x)
      BY <2>4, <1>C2
    <3>2. y = x => z = a /\ handler[h].push = p
      BY <1>x DEF SourceDeployment
    <3> HIDE DEF y
    <3>3. CASE y = x
      <4>1. Cardinality(B') + Copies(x)' <= Cardinality(B) + Copies(x) + 1
        BY <3>1, <3>3, <2>2, <1>t
      <4> QED
        BY <2>1, <2>2, <3>2, <3>3, <4>1, <1>o, <1>m
    <3>4. CASE y # x
      BY <2>1, <2>2, <3>1, <3>4, <1>q
    <3> QED
      BY <3>3, <3>4
  <2> QED
    BY <1>6, <2>3, <2>4 DEF SourceStep, AbortStep
<1>7. ASSUME NEW h \in Handlers, NEW z \in Apps, DeployStep(h, z) PROVE Goal
  <2>1. W' \subseteq W
    <3>1. Ends(h) => W' \subseteq W
      BY <1>W4
    <3>2. Moves(h, "deploy", handler[h].push, handler[h].build, Tail(handler[h].todo)) => W' \subseteq W
      BY <1>W2, <1>n DEF Moves
    <3> QED
      BY <1>7, <3>1, <3>2 DEF DeployStep
  <2>2. Copies(x)' = Copies(x)
    <3> DEFINE y == [app |-> z, push |-> builds[handler[h].build].push, build |-> handler[h].build]
    <3>1. handler[h].build # 0
      BY <1>7, DeployRequest DEF DeployStep
    <3>2. y # x
      BY <3>1, <1>x
    <3>3. Added(y) \/ UNCHANGED deployments
      BY <1>7 DEF DeployStep
    <3> HIDE DEF y
    <3> QED
      BY <3>2, <3>3, <1>C1, <1>C2
  <2> QED
    BY <1>7, <2>1, <2>2, <1>q, <1>B2, <1>A1 DEF DeployStep
<1>8. ASSUME NEW h \in Handlers, ReplyStep(h) PROVE Goal
  <2>1. W' \subseteq W
    BY <1>8, <1>W4 DEF ReplyStep
  <2> QED
    BY <1>8, <2>1, <1>q, <1>B2, <1>A1, <1>C1 DEF ReplyStep
<1>9. ASSUME NEW h \in Handlers, DispatchedStep(h) PROVE Goal
  <2>1. W' \subseteq W
    <3>1. Ends(h) => W' \subseteq W
      BY <1>W4
    <3>2. Moves(h, "push", handler[h].push, 0, handler[h].todo) => W' \subseteq W
      BY <1>9 DEF Moves, DispatchedStep, W, Waiting, Serving
    <3> QED
      BY <1>9, <3>1, <3>2 DEF DispatchedStep
  <2> QED
    BY <1>9, <2>1, <1>q, <1>B1, <1>A1, <1>C1 DEF DispatchedStep
<1>10. ASSUME NEW h \in Handlers, NEW z \in Apps \cup {NoApp}, NEW r \in Pushes, ManualStep(h, z, r)
       PROVE  Goal
  <2>1. W' \subseteq W
    BY <1>10, <1>W2, <1>n DEF ManualStep, Moves
  <2>2. B' = B
    BY <1>10, <1>B3 DEF ManualStep
  <2> QED
    BY <1>10, <2>1, <2>2, <1>q, <1>A1, <1>C1 DEF ManualStep
<1>11. ASSUME NEW h \in Handlers, NEW b \in 1 .. Len(builds), StartStep(h, b) PROVE Goal
  <2>1. W' \subseteq W
    BY <1>11, <1>W2, <1>n DEF StartStep, Moves
  <2>2. B' = B
    BY <1>11, <1>B4 DEF StartStep
  <2> QED
    BY <1>11, <2>1, <2>2, <1>q, <1>A1, <1>C1 DEF StartStep
<1> QED
  BY <1>1, <1>2, <1>3, <1>4, <1>5, <1>6, <1>7, <1>8, <1>9, <1>10, <1>11 DEF AnyStep

-----------------------------------------------------------------------------
(* The theorems.                                                           *)

\* The invariant of the module.
Inv ==
  /\ TypeInv /\ OuterInv /\ HandlerInv /\ DepInv /\ OnlyAffected /\ DoneInv /\ CountInv

\* At the start no request runs and nothing has been made.
LEMMA InvInit == Init => Inv
<1> SUFFICES ASSUME Init PROVE Inv
  OBVIOUS
<1>c. config \in Configurations /\ CacheLimit \in Nat
  BY ConfigAssumption DEF Init
<1>h. /\ handler = [h \in Handlers |-> Idle] /\ builds = <<>> /\ DOMAIN builds = {} /\ Len(builds) = 0
      /\ DOMAIN deployments = {} /\ deployments = [e \in {} |-> 1] /\ DOMAIN calls = {}
      /\ accepted = {} /\ forgotten = [p \in Pushes |-> 0] /\ seen = <<>>
  BY DEF Init, EmptyBag, SetToBag
<1>i. /\ Idle \in Request /\ Idle.pc = "idle" /\ Idle.build = 0 /\ NoRepeat(Idle.todo)
  BY DEF Idle, Request, NoRepeat
<1>1. TypeInv
  <2>1. IsABag(deployments)
    BY <1>h DEF IsABag
  <2>2. seen \in Seq(Pushes) /\ Len(seen) <= CacheLimit
    BY <1>c, <1>h
  <2>3. handler \in [Handlers -> Request]
    BY <1>h, <1>i
  <2>4. builds \in Seq(BuildRun)
    BY <1>h
  <2>5. forgotten \in [Pushes -> Nat]
    BY <1>h
  <2> QED
    BY <1>c, <1>h, <2>1, <2>2, <2>3, <2>4, <2>5 DEF TypeInv
<1>2. OuterInv
  <2>1. config.maxDeliveries \in Nat
    BY <1>c, ConfigAssumption
  <2>2. sent \in [Pushes -> 0 .. config.maxDeliveries]
    BY <2>1 DEF Init
  <2> QED
    BY <1>h, <2>2 DEF OuterInv, Init
<1>3. HandlerInv
  BY <1>h, <1>i DEF HandlerInv, RequestOK
<1>4. DepInv
  BY <1>h DEF DepInv
<1>5. OnlyAffected
  BY <1>h DEF OnlyAffected, BagToSet
<1>6. DoneInv
  BY <1>h, <1>i DEF DoneInv, Serving
<1>7. CountInv
  <2> SUFFICES ASSUME NEW p \in Pushes, NEW a \in Apps
               PROVE  /\ IsFiniteSet(Waiting(a, p)) /\ IsFiniteSet(PushBuilds(a, p))
                      /\ Cardinality(PushBuilds(a, p)) + Copies(SourceDeployment(a, p))
                           + Cardinality(Waiting(a, p)) <= Allowed(p)
    BY DEF CountInv
  <2>1. Waiting(a, p) = {} /\ PushBuilds(a, p) = {}
    BY <1>h, <1>i DEF Waiting, PushBuilds, Serving
  <2>2. Copies(SourceDeployment(a, p)) = 0
    BY <1>h DEF Copies, BagIn, BagToSet
  <2>3. Allowed(p) \in Nat
    BY <1>h DEF Allowed
  <2> QED
    BY <2>1, <2>2, <2>3, FS_EmptySet
<1> QED
  BY <1>1, <1>2, <1>3, <1>4, <1>5, <1>6, <1>7 DEF Inv

\* Every step keeps the invariant.
LEMMA InvNext == Inv /\ [Next]_vars => Inv'
<1> SUFFICES ASSUME Inv, [Next]_vars PROVE Inv'
  OBVIOUS
<1>1. /\ TypeInv /\ OuterInv /\ HandlerInv /\ DepInv /\ OnlyAffected /\ DoneInv /\ CountInv
  BY DEF Inv
<1>2. config' = config /\ AnyStep
  BY <1>1, StepKinds
<1>3. TypeInv' /\ OuterInv' /\ HandlerInv' /\ DepInv'
  BY <1>1, <1>2, TypeStep, OuterStep, HandlerStep, DepStep
<1>4. OnlyAffected' /\ DoneInv' /\ CountInv'
  BY <1>1, <1>2, AffectStep, DoneStep, CountStep
<1> QED
  BY <1>3, <1>4 DEF Inv

\* The invariant holds throughout.
LEMMA InvHolds == Spec => []Inv
BY InvInit, InvNext, PTL DEF Spec

\* The variables of the build loop have the types that TypeOK gives them.
THEOREM BuildLoopTypeCorrect == Spec => []TypeOK
<1>1. Inv => TypeOK
  <2> SUFFICES ASSUME Inv PROVE TypeOK
    OBVIOUS
  <2>1. TypeInv /\ OuterInv /\ HandlerInv
    BY DEF Inv
  <2>2. config \in Configurations /\ seen \in Seq(Pushes) /\ Len(seen) <= CacheLimit
    BY <2>1 DEF TypeInv
  <2>3. Range(seen) \subseteq Pushes
    BY <2>2 DEF Range
  <2>4. ASSUME NEW h \in Handlers
        PROVE  /\ handler[h].pc \in {"idle", "push", "dispatch", "deploy"}
               /\ handler[h].push \in Pushes \cup {NoPush}
               /\ handler[h].build \in 0 .. Len(builds)
               /\ Range(handler[h].todo) \subseteq Apps
    <3>1. handler[h].todo \in Seq(Apps)
      BY <2>1, RequestFields
    <3>2. Range(handler[h].todo) \subseteq Apps
      BY <3>1 DEF Range
    <3>3. handler[h].build \in 0 .. Len(builds)
      BY <2>1 DEF HandlerInv, RequestOK
    <3> QED
      BY <2>1, <3>2, <3>3, RequestFields
  <2>5. ASSUME NEW b \in DOMAIN builds
        PROVE  /\ builds[b].app \in Apps \cup {NoApp}
               /\ builds[b].push \in Pushes /\ builds[b].status \in BuildStatuses
    <3>1. b \in 1 .. Len(builds)
      BY <2>1 DEF TypeInv
    <3> QED
      BY <2>1, <3>1, BuildFields
  <2> QED
    BY <2>1, <2>2, <2>3, <2>4, <2>5 DEF TypeOK, OuterInv
<1> QED
  BY <1>1, InvHolds, PTL

\* However often a workflow reports and however reports, requests and crashes
\* interleave, completeBuildRun and autoDeploy deploy a build to an application
\* at most once: the conditional UPDATE of CompleteBuildRun has one winner.
THEOREM BuildsDeployOnce == Spec => []OneDeploymentPerBuild
<1>1. Inv => OneDeploymentPerBuild
  BY DEF Inv, DepInv, DeploymentOK, OneDeploymentPerBuild, Copies, BagIn, BagToSet
<1> QED
  BY <1>1, InvHolds, PTL

\* A delivery that githubWebhook has seen starts nothing again: what a push has
\* started for an application is at most one more than the times the replay
\* cache has lost its id.
THEOREM RedeliveriesStartNothing == Spec => []RedeliveryStartsNothing
<1>1. Inv => RedeliveryStartsNothing
  <2> SUFFICES ASSUME Inv, NEW p \in Pushes, NEW a \in Apps
               PROVE  Cardinality(PushBuilds(a, p)) + Copies(SourceDeployment(a, p))
                        <= 1 + forgotten[p]
    BY DEF RedeliveryStartsNothing
  <2>1. TypeInv /\ CountInv
    BY DEF Inv
  <2>2. /\ IsFiniteSet(Waiting(a, p)) /\ IsFiniteSet(PushBuilds(a, p))
        /\ Cardinality(PushBuilds(a, p)) + Copies(SourceDeployment(a, p))
             + Cardinality(Waiting(a, p)) <= Allowed(p)
    BY <2>1 DEF CountInv
  <2>3. Cardinality(Waiting(a, p)) \in Nat /\ Cardinality(PushBuilds(a, p)) \in Nat
    BY <2>2, FS_CardinalityType
  <2>4. Copies(SourceDeployment(a, p)) \in Nat
    BY <2>1 DEF TypeInv, Copies, IsABag, BagIn, BagToSet
  <2>5. forgotten[p] \in Nat /\ Allowed(p) <= 1 + forgotten[p] /\ Allowed(p) \in Nat
    BY <2>1 DEF TypeInv, Allowed
  <2> QED
    BY <2>2, <2>3, <2>4, <2>5
<1> QED
  BY <1>1, InvHolds, PTL

\* Where the server has a GitHub App and reads the repository's name and its
\* connectors, tryBuildDispatch and the source path start something only for an
\* application one of whose filters stands for a path the push changed; and
\* autoDeploy deploys a build to its application, unless an operator started it
\* for an entry without an application id.
THEOREM OthersAreLeftAlone == Spec => []OnlyAffected
<1>1. Inv => OnlyAffected
  BY DEF Inv
<1> QED
  BY <1>1, InvHolds, PTL

\* When githubWebhook answers with its batch, every application the push asks
\* for has a build or a deployment, unless an insert failed on the way.
THEOREM AnsweredPushesAreDone == Spec => []AcceptedIsComplete
<1>1. Inv => AcceptedIsComplete
  <2> SUFFICES ASSUME Inv, NEW p \in accepted, NEW a \in HealthChecked
               PROVE  \/ PushBuilds(a, p) # {}
                      \/ BagIn(SourceDeployment(a, p), deployments)
                      \/ <<a, p>> \in upset
                      \/ PushTarget(a, p) = "skip"
                      \/ PushTarget(a, p) = "source" /\ a \notin WithCompose
    BY DEF AcceptedIsComplete
  <2>1. a \in Apps
    BY ConfigFacts DEF Inv, TypeInv
  <2>2. Handled(a, p)
    BY <2>1 DEF Inv, DoneInv
  <2> QED
    BY <2>2 DEF Handled, BagIn, BagToSet
<1> QED
  BY <1>1, InvHolds, PTL
=============================================================================
