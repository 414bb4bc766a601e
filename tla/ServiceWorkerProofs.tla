------------------------- MODULE ServiceWorkerProofs -------------------------
(***************************************************************************)
(* For any number of pages and versions: the types of ServiceWorker, and   *)
(* what its life cycle promises the pages, as long as no worker becomes    *)
(* active while a newer one is being installed.                            *)
(***************************************************************************)
EXTENDS ServiceWorker, SequenceTheorems, WellFoundedInduction, TLAPS

Number == 0..MaxVersion
Cache == [version : Version, html : Number, script : Number]
PageState == {"closed", "loading", "loaded", "listening", "reloading", "failed"}
PageRecord == [state : PageState, html : Number, script : Number,
               under : Number, worker : Number]

(* A list of caches, each of a version of its own. *)
IsCaches(cs) == /\ cs \in Seq(Cache)
                /\ \A i, j \in DOMAIN cs : cs[i].version = cs[j].version => i = j

Types == /\ server \in Version /\ online \in BOOLEAN
         /\ waiting \in 0..server /\ active \in 0..server
         /\ installing \in [version : 0..server, html : 0..server, script : 0..server]
         /\ IsCaches(caches)
         /\ page \in [Page -> PageRecord]
         /\ accepted \subseteq Version
         /\ shells \in [Version -> Number]
         /\ overlapped \in BOOLEAN

(* The workers are of growing age: what is being installed is the newest, and
   every file it has fetched is at least as new. *)
Ages == /\ installing.version # 0 => active < installing.version /\ waiting < installing.version
        /\ waiting # 0 => active < waiting
        /\ installing.version = 0 => installing = NoInstall
        /\ installing.html # 0 => installing.html >= installing.version
        /\ installing.script # 0 => installing.html # 0

(* A cache of version v that is complete, with the scripts v has installed. *)
Complete(c, v, script) == /\ c.version = v
                          /\ c.html >= v
                          /\ c.script # 0 /\ c.script = script

(* Every worker has its cache, and the first cache is that of the active one:
   caches.match asks it before those of newer workers. *)
Equipped ==
  ~overlapped =>
    /\ active # 0 => 1 \in DOMAIN caches /\ Complete(caches[1], active, shells[active])
    /\ waiting # 0 => \E i \in DOMAIN caches : Complete(caches[i], waiting, shells[waiting])
    /\ installing.version # 0 =>
         \E i \in DOMAIN caches : caches[i].version = installing.version

(* What a page has loaded, and under whom. *)
Loaded(p) ==
  \/ page[p] = Closed
  \/ LET g == page[p] IN
       /\ g.state # "closed"
       /\ g.worker = active /\ g.under <= active
       /\ g.worker # g.under => g.under = 0 \/ g.worker \in accepted
       /\ ~overlapped /\ g.under # 0 =>
            /\ g.state # "failed" /\ g.html >= g.under
            /\ g.script # 0 /\ g.worker = g.under => g.script = shells[g.under]

Pages == \A p \in Page : Loaded(p)

SWInv == Types /\ Ages /\ Equipped /\ Pages

-----------------------------------------------------------------------------
(* What the operations on caches yield. *)
LEMMA CachesTyped ==
  ASSUME NEW cs, IsCaches(cs)
  PROVE  /\ Len(cs) \in Nat /\ DOMAIN cs = 1..Len(cs)
         /\ \A i \in DOMAIN cs : cs[i] \in Cache
BY ElementOfSeq, LenProperties DEF IsCaches

LEMMA Rewritten ==
  ASSUME NEW cs, IsCaches(cs), NEW f, DOMAIN f = DOMAIN cs, f = [i \in DOMAIN f |-> f[i]],
         \A i \in DOMAIN cs : f[i] \in Cache /\ f[i].version = cs[i].version
  PROVE  IsCaches(f)
<1>1. Len(cs) \in Nat /\ DOMAIN cs = 1..Len(cs) BY CachesTyped
<1>2. f \in [1..Len(cs) -> Cache] BY <1>1
<1>3. f \in Seq(Cache) BY <1>1, <1>2, SeqDef
<1> QED BY <1>3 DEF IsCaches

LEMMA OpenedIs ==
  ASSUME IsCaches(caches), NEW v \in Version
  PROVE  /\ IsCaches(Opened(v))
         /\ DOMAIN caches \subseteq DOMAIN Opened(v)
         /\ \A i \in DOMAIN caches : Opened(v)[i] = caches[i]
         /\ \E i \in DOMAIN Opened(v) : Opened(v)[i].version = v
<1>1. CASE \E i \in DOMAIN caches : caches[i].version = v
  BY <1>1 DEF Opened
<1>2. CASE ~\E i \in DOMAIN caches : caches[i].version = v
  <2> DEFINE new == [version |-> v, html |-> 0, script |-> 0]
             all == Append(caches, new)
  <2>1. Opened(v) = all BY <1>2 DEF Opened
  <2>2. new \in Cache /\ new.version = v BY WorkerAssumption DEF Cache, Number
  <2> HIDE DEF new
  <2>3. Len(caches) \in Nat /\ DOMAIN caches = 1..Len(caches) BY CachesTyped
  <2>4. /\ all \in Seq(Cache) /\ Len(all) = Len(caches) + 1
        /\ \A i \in 1..Len(caches) : all[i] = caches[i]
        /\ all[Len(caches) + 1] = new
    BY <2>2, AppendProperties DEF IsCaches
  <2> HIDE DEF all
  <2>5. DOMAIN all = 1..(Len(caches) + 1) BY <2>4, LenProperties
  <2>6. IsCaches(all) BY <1>2, <2>2, <2>3, <2>4, <2>5 DEF IsCaches
  <2> QED BY <2>1, <2>2, <2>3, <2>4, <2>5, <2>6
<1> QED BY <1>1, <1>2

LEMMA PutIs ==
  ASSUME IsCaches(caches), NEW v \in Version, NEW file \in {"html", "script"},
         NEW content \in Number
  PROVE  /\ IsCaches(Put(v, file, content))
         /\ DOMAIN caches \subseteq DOMAIN Put(v, file, content)
         /\ \A i \in DOMAIN caches :
              Put(v, file, content)[i] = IF caches[i].version = v
                                         THEN [caches[i] EXCEPT ![file] = content]
                                         ELSE caches[i]
<1> DEFINE cs == Opened(v)
           put == Put(v, file, content)
<1>1. IsCaches(cs) /\ \A i \in DOMAIN caches : i \in DOMAIN cs /\ cs[i] = caches[i]
  BY OpenedIs
<1>2. put = [i \in DOMAIN cs |-> IF cs[i].version = v
                                 THEN [cs[i] EXCEPT ![file] = content] ELSE cs[i]]
  BY DEF Put
<1>3. \A i \in DOMAIN cs : cs[i] \in Cache BY <1>1, CachesTyped
<1> HIDE DEF cs, put
<1>4. \A c \in Cache : /\ [c EXCEPT ![file] = content] \in Cache
                       /\ [c EXCEPT ![file] = content].version = c.version
  BY DEF Cache
<1>5. \A i \in DOMAIN cs : put[i] \in Cache /\ put[i].version = cs[i].version
  BY <1>2, <1>3, <1>4
<1>6. IsCaches(put) BY <1>1, <1>2, <1>5, Rewritten
<1> QED BY <1>1, <1>2, <1>6 DEF put

LEMMA FilledIs ==
  ASSUME Types
  PROVE  /\ IsCaches(Filled) /\ DOMAIN Filled = DOMAIN caches
         /\ \A i \in DOMAIN caches :
              Filled[i] = IF caches[i].version = installing.version THEN installing ELSE caches[i]
<1>1. \A i \in DOMAIN caches : caches[i] \in Cache BY CachesTyped DEF Types
<1>2. /\ DOMAIN Filled = DOMAIN caches /\ Filled = [i \in DOMAIN Filled |-> Filled[i]]
      /\ \A i \in DOMAIN caches :
           Filled[i] = IF caches[i].version = installing.version THEN installing ELSE caches[i]
  BY DEF Filled
<1>3. installing.version \in Version => installing \in Cache
  <2>1. 0..server \subseteq Number BY WorkerAssumption DEF Types, Version, Number
  <2> QED BY <2>1 DEF Types, Cache
<1>4. \A i \in DOMAIN caches : Filled[i] \in Cache /\ Filled[i].version = caches[i].version
  BY <1>1, <1>2, <1>3 DEF Cache
<1>5. IsCaches(Filled) BY <1>2, <1>4, Rewritten DEF Types
<1> QED BY <1>2, <1>5

LEMMA OnlyIs ==
  ASSUME NEW cs, IsCaches(cs), NEW v
  PROVE  /\ IsCaches(Only(v, cs))
         /\ \A i \in DOMAIN cs : cs[i].version = v =>
              1 \in DOMAIN Only(v, cs) /\ Only(v, cs)[1] = cs[i]
<1> DEFINE own == {i \in DOMAIN cs : cs[i].version = v}
<1>1. CASE own = {}
  <2>1. Only(v, cs) = <<>> BY <1>1 DEF Only
  <2>2. IsCaches(<<>>) BY EmptySeq DEF IsCaches
  <2> QED BY <1>1, <2>1, <2>2
<1>2. CASE own # {}
  <2>1. PICK k : k = (CHOOSE i \in own : TRUE) OBVIOUS
  <2>2. k \in own BY <1>2, <2>1
  <2>3. Only(v, cs) = <<cs[k]>> BY <1>2, <2>1 DEF Only
  <2>4. cs[k] \in Cache BY <2>2, CachesTyped
  <2>5. <<cs[k]>> \in Seq(Cache) /\ DOMAIN <<cs[k]>> = {1} BY <2>4
  <2>6. IsCaches(<<cs[k]>>) BY <2>5 DEF IsCaches
  <2>7. \A i \in DOMAIN cs : cs[i].version = v => i = k BY <2>2 DEF IsCaches
  <2> QED BY <2>3, <2>5, <2>6, <2>7
<1> QED BY <1>1, <1>2

LEMMA SmallestIn ==
  ASSUME NEW S \in SUBSET Nat, S # {}
  PROVE  \E a \in S : \A b \in S : a <= b
<1> DEFINE R == OpToRel(<, Nat)
<1>1. IsWellFoundedOn(R, Nat) BY NatLessThanWellFounded
<1>2. \A a, b \in Nat : b < a => <<b, a>> \in R BY DEF OpToRel
<1> HIDE DEF R
<1>3. PICK a \in S : \A b \in S : ~(<<b, a>> \in R) BY <1>1, WFMin
<1>4. ASSUME NEW b \in S PROVE a <= b
  <2>1. a \in Nat /\ b \in Nat /\ ~(b < a) BY <1>2, <1>3, <1>4
  <2> QED BY <2>1
<1> QED BY <1>4

(* caches.match finds the file in the first cache, if that is complete. *)
LEMMA MatchIs ==
  ASSUME IsCaches(caches), NEW file \in {"html", "script"}
  PROVE  /\ Match(file) \in Number
         /\ 1 \in DOMAIN caches /\ caches[1][file] # 0 => Match(file) = caches[1][file]
<1> DEFINE has == {i \in DOMAIN caches : caches[i][file] # 0}
<1>1. /\ \A i \in DOMAIN caches : caches[i][file] \in Number
      /\ DOMAIN caches \subseteq Nat /\ \A i \in DOMAIN caches : 1 <= i
  <2>1. \A i \in DOMAIN caches : caches[i] \in Cache BY CachesTyped
  <2>2. DOMAIN caches = 1..Len(caches) BY CachesTyped
  <2>3. \A i \in DOMAIN caches : caches[i][file] \in Number BY <2>1 DEF Cache
  <2> QED BY <2>2, <2>3
<1>2. CASE has = {} BY <1>2, WorkerAssumption DEF Match, Number
<1>3. CASE has # {}
  <2>1. Match(file) = caches[CHOOSE i \in has : \A j \in has : i <= j][file]
    BY <1>3 DEF Match
  <2>2. has \in SUBSET Nat BY <1>1
  <2> DEFINE k == CHOOSE i \in has : \A j \in has : i <= j
  <2>3. k \in has /\ \A j \in has : k <= j BY <1>3, <2>2, SmallestIn
  <2>4. Match(file) = caches[k][file] BY <2>1
  <2> HIDE DEF k
  <2>5. Match(file) \in Number BY <1>1, <2>3, <2>4
  <2>6. ASSUME 1 \in DOMAIN caches, caches[1][file] # 0 PROVE k = 1
    <3>1. 1 \in has BY <2>6
    <3>2. k <= 1 /\ 1 <= k /\ k \in Nat BY <1>1, <2>2, <2>3, <3>1
    <3> QED BY <3>2
  <2> QED BY <2>4, <2>5, <2>6
<1> QED BY <1>2, <1>3

-----------------------------------------------------------------------------
(* One action after the other. *)
LEMMA Numbers ==
  ASSUME Types
  PROVE  /\ MaxVersion \in Nat /\ server \in Nat /\ active \in Nat /\ waiting \in Nat
         /\ server \in Number /\ active \in Number /\ waiting \in Number
         /\ server # 0 /\ active <= server /\ waiting <= server
         /\ server \in Version /\ (active # 0 => active \in Version)
         /\ (waiting # 0 => waiting \in Version)
BY WorkerAssumption DEF Types, Version, Number

LEMMA SameLoaded ==
  ASSUME NEW q \in Page, Loaded(q), page'[q] = page[q],
         UNCHANGED <<active, accepted, overlapped, shells>>
  PROVE  Loaded(q)'
BY DEF Loaded

(* The first cache answers the active worker's pages. *)
LEMMA MatchIsComplete ==
  ASSUME SWInv, ~overlapped, active # 0
  PROVE  /\ Match("html") # 0 /\ Match("html") >= active
         /\ Match("script") # 0 /\ Match("script") = shells[active]
<1>1. 1 \in DOMAIN caches /\ Complete(caches[1], active, shells[active])
  BY DEF SWInv, Equipped
<1>2. caches[1].html # 0
  <2>1. active \in Nat /\ caches[1].html >= active /\ caches[1] \in Cache
    BY <1>1, Numbers, CachesTyped DEF SWInv, Types, Complete
  <2>2. caches[1].html \in Nat BY <2>1, WorkerAssumption DEF Cache, Number
  <2> QED BY <2>1, <2>2
<1>3. IsCaches(caches) BY DEF SWInv, Types
<1>4. Match("html") = caches[1].html BY <1>1, <1>2, <1>3, MatchIs
<1>5. Match("script") = caches[1].script BY <1>1, <1>3, MatchIs DEF Complete
<1> QED BY <1>1, <1>2, <1>4, <1>5 DEF Complete

LEMMA NavigateKeeps == ASSUME SWInv, NEW p \in Page, Navigate(p) PROVE SWInv'
<1> USE DEF SWInv
<1>1. PICK html \in Number :
        /\ \/ html = server /\ FromNetwork("html", active)
           \/ /\ ~online /\ UNCHANGED caches
              /\ html = IF active = 0 THEN 0 ELSE Match("html")
        /\ page' = [page EXCEPT ![p] =
                      [state |-> IF html = 0 THEN "failed" ELSE "loading",
                       html |-> html, script |-> 0, under |-> active, worker |-> active]]
  BY DEF Navigate, Number
<1>2. UNCHANGED <<server, online, installing, waiting, active, historyVars>> BY DEF Navigate
<1> DEFINE g == [state |-> IF html = 0 THEN "failed" ELSE "loading",
                 html |-> html, script |-> 0, under |-> active, worker |-> active]
<1>3. caches' = caches \/ (active # 0 /\ html = server /\ caches' = Put(active, "html", server))
  BY <1>1 DEF FromNetwork
<1>4. g \in PageRecord BY Numbers, WorkerAssumption DEF PageRecord, PageState, Number
<1>5. page'[p] = g /\ page' \in [Page -> PageRecord] /\ \A q \in Page : q # p => page'[q] = page[q]
  BY <1>1, <1>4 DEF Types
<1>6. active # 0 =>
        /\ IsCaches(Put(active, "html", server))
        /\ DOMAIN caches \subseteq DOMAIN Put(active, "html", server)
        /\ \A i \in DOMAIN caches :
             Put(active, "html", server)[i] = IF caches[i].version = active
                                              THEN [caches[i] EXCEPT !["html"] = server]
                                              ELSE caches[i]
  BY PutIs, Numbers DEF Types
<1>7. Types' BY <1>2, <1>3, <1>5, <1>6 DEF Types, historyVars
<1>8. Ages' BY <1>2 DEF Ages
<1>9. Equipped'
  <2>1. CASE caches' = caches BY <1>2, <2>1 DEF Equipped, historyVars
  <2>2. CASE active # 0 /\ caches' = Put(active, "html", server)
    <3>1. \A i \in DOMAIN caches :
            /\ i \in DOMAIN caches' /\ caches[i] \in Cache
            /\ caches'[i] = IF caches[i].version = active
                            THEN [caches[i] EXCEPT !["html"] = server] ELSE caches[i]
      BY <1>6, <2>2, CachesTyped DEF Types
    <3>2. \A i \in DOMAIN caches :
            /\ caches'[i].version = caches[i].version /\ caches'[i].script = caches[i].script
            /\ caches'[i].html = IF caches[i].version = active THEN server ELSE caches[i].html
      BY <3>1 DEF Cache
    <3>3. \A i \in DOMAIN caches : \A v, script :
            Complete(caches[i], v, script) => Complete(caches'[i], v, script)
      BY <3>2, Numbers DEF Complete
    <3> QED BY <1>2, <3>1, <3>2, <3>3 DEF Equipped, historyVars
  <2> QED BY <1>3, <2>1, <2>2
<1>10. Pages'
  <2>1. ASSUME NEW q \in Page, q # p PROVE Loaded(q)'
    BY <1>2, <1>5, <2>1, SameLoaded DEF Pages, historyVars
  <2>2. Loaded(p)'
    <3>1. ~overlapped /\ active # 0 => html # 0 /\ html >= active
      BY <1>1, MatchIsComplete, Numbers
    <3>2. g.state # "closed" /\ g.worker = active /\ g.under = active /\ g.script = 0
          /\ g.html = html /\ (html # 0 => g.state # "failed")
      OBVIOUS
    <3>3. active <= active BY Numbers
    <3> HIDE DEF g
    <3> QED BY <1>2, <1>5, <3>1, <3>2, <3>3 DEF Loaded, historyVars
  <2> QED BY <2>1, <2>2 DEF Pages
<1> QED BY <1>7, <1>8, <1>9, <1>10

LEMMA LoadScriptKeeps == ASSUME SWInv, NEW p \in Page, LoadScript(p) PROVE SWInv'
<1> USE DEF SWInv
<1> DEFINE w == page[p].worker
           cached == IF w = 0 THEN 0 ELSE Match("script")
<1>1. page[p] \in PageRecord /\ page[p].state = "loading" BY DEF Types, LoadScript
<1>2. /\ w = active /\ page[p].under <= active
      /\ w # page[p].under => page[p].under = 0 \/ w \in accepted
      /\ ~overlapped /\ page[p].under # 0 => page[p].html >= page[p].under
  BY <1>1 DEF Pages, Loaded, Closed
<1>3. PICK script \in Number :
        /\ \/ cached # 0 /\ script = cached /\ UNCHANGED caches
           \/ cached = 0 /\ script = server /\ FromNetwork("script", w)
           \/ cached = 0 /\ ~online /\ script = 0 /\ UNCHANGED caches
        /\ page' = [page EXCEPT ![p].script = script,
                                ![p].state = IF script = 0 THEN "failed" ELSE "loaded"]
  BY DEF LoadScript, Number
<1>4. UNCHANGED <<server, online, installing, waiting, active, historyVars>> BY DEF LoadScript
<1>5. ~overlapped /\ active # 0 => cached # 0 /\ cached = shells[active]
  BY <1>2, MatchIsComplete
<1> HIDE DEF cached
<1>6. caches' = caches
      \/ (active # 0 /\ overlapped /\ caches' = Put(active, "script", server))
  BY <1>2, <1>3, <1>5 DEF FromNetwork, Types
<1>7. ~overlapped /\ active # 0 => script # 0 /\ script = shells[active]
  BY <1>3, <1>5
<1> DEFINE g == page'[p]
<1>8. /\ g.script = script /\ g.state = (IF script = 0 THEN "failed" ELSE "loaded")
      /\ g.html = page[p].html /\ g.under = page[p].under /\ g.worker = w
      /\ g \in PageRecord
  BY <1>1, <1>3 DEF PageRecord, PageState, Types
<1>9. page' \in [Page -> PageRecord] /\ \A q \in Page : q # p => page'[q] = page[q]
  BY <1>3, <1>8 DEF Types
<1> HIDE DEF g, w
<1>10. Types'
  <2>1. active # 0 => IsCaches(Put(active, "script", server)) BY PutIs, Numbers DEF Types
  <2> QED BY <1>4, <1>6, <1>9, <2>1 DEF Types, historyVars
<1>11. Ages' BY <1>4 DEF Ages
<1>12. Equipped' BY <1>4, <1>6 DEF Equipped, historyVars
<1>13. Pages'
  <2>1. ASSUME NEW q \in Page, q # p PROVE Loaded(q)'
    BY <1>4, <1>9, <2>1, SameLoaded DEF Pages, historyVars
  <2>2. Loaded(p)'
    <3>1. page[p].under # 0 => active # 0
      BY <1>1, <1>2, Numbers DEF PageRecord, Number
    <3> QED BY <1>2, <1>4, <1>7, <1>8, <3>1 DEF Loaded, g, historyVars
  <2> QED BY <2>1, <2>2 DEF Pages
<1> QED BY <1>10, <1>11, <1>12, <1>13


LEMMA CloseKeeps == ASSUME SWInv, NEW p \in Page, Close(p) PROVE SWInv'
<1> USE DEF SWInv
<1>1. page' = [page EXCEPT ![p] = Closed] /\ UNCHANGED <<server, online, workerVars, historyVars>>
  BY DEF Close
<1>2. Closed \in PageRecord
  BY WorkerAssumption DEF Closed, PageRecord, PageState, Number
<1>3. /\ page' \in [Page -> PageRecord] /\ page'[p] = Closed
      /\ \A q \in Page : q # p => page'[q] = page[q]
  BY <1>1, <1>2 DEF Types
<1>4. Types' BY <1>1, <1>3 DEF Types, workerVars, historyVars
<1>5. Ages' /\ Equipped' BY <1>1 DEF Ages, Equipped, workerVars, historyVars
<1>6. Pages'
  <2>1. ASSUME NEW q \in Page PROVE Loaded(q)'
    <3>1. CASE q = p BY <1>3, <3>1 DEF Loaded
    <3>2. CASE q # p BY <1>1, <1>3, <3>2, SameLoaded DEF Pages, workerVars, historyVars
    <3> QED BY <3>1, <3>2
  <2> QED BY <2>1 DEF Pages
<1> QED BY <1>4, <1>5, <1>6

LEMMA ListenKeeps == ASSUME SWInv, NEW p \in Page, Listen(p) PROVE SWInv'
<1> USE DEF SWInv
<1>1. /\ page[p].state = "loaded" /\ page' = [page EXCEPT ![p].state = "listening"]
      /\ UNCHANGED <<server, online, workerVars, historyVars>>
  BY DEF Listen
<1> DEFINE g == page'[p]
<1>2. page[p] \in PageRecord BY DEF Types
<1>3. /\ g.state = "listening" /\ g.script = page[p].script /\ g.html = page[p].html
      /\ g.under = page[p].under /\ g.worker = page[p].worker /\ g \in PageRecord
  BY <1>1, <1>2 DEF Types, PageRecord, PageState
<1>4. page' \in [Page -> PageRecord] /\ \A q \in Page : q # p => page'[q] = page[q]
  BY <1>1, <1>3 DEF Types
<1>5. Types' BY <1>1, <1>4 DEF Types, workerVars, historyVars
<1>6. Ages' /\ Equipped' BY <1>1 DEF Ages, Equipped, workerVars, historyVars
<1>7. Pages'
  <2>1. ASSUME NEW q \in Page, q # p PROVE Loaded(q)'
    BY <1>1, <1>4, <2>1, SameLoaded DEF Pages, workerVars, historyVars
  <2>2. Loaded(p)'
    <3>1. page[p] # Closed BY <1>1 DEF Closed
    <3>2. Loaded(p) BY DEF Pages
    <3> HIDE DEF g
    <3> QED BY <1>1, <1>3, <3>1, <3>2 DEF Loaded, g, workerVars, historyVars
  <2> QED BY <2>1, <2>2 DEF Pages
<1> QED BY <1>5, <1>6, <1>7

(* A worker v that is newer than the active one takes over the pages. *)
LEMMA ClaimedKeeps ==
  ASSUME SWInv, NEW v \in Version, active < v,
         page' = Claimed(v), active' = v, accepted \subseteq accepted', overlapped => overlapped',
         \A u \in Version : u <= active => shells'[u] = shells[u],
         Open = {} \/ active = 0 \/ v \in accepted'
  PROVE  page' \in [Page -> PageRecord] /\ Pages'
<1> USE DEF SWInv
<1>1. v \in Number /\ v \in Nat /\ active \in Nat BY Numbers, WorkerAssumption DEF Version, Number
<1>2. \A q \in Page : page[q] \in PageRecord BY DEF Types
<1>3. ASSUME NEW q \in Page PROVE page'[q] \in PageRecord /\ Loaded(q)'
  <2>1. CASE q \notin Open
    <3>1. page'[q] = page[q] BY <2>1 DEF Claimed
    <3>2. page[q] = Closed BY <2>1 DEF Open, Pages, Loaded
    <3> QED BY <1>2, <3>1, <3>2 DEF Loaded
  <2>2. CASE q \in Open
    <3> DEFINE g == page'[q]
    <3>1. g = [page[q] EXCEPT !.worker = v,
                 !.state = IF page[q].state = "listening" THEN "reloading" ELSE page[q].state]
      BY <2>2 DEF Claimed
    <3>2. /\ g.worker = v /\ g.html = page[q].html /\ g.script = page[q].script
          /\ g.under = page[q].under /\ g \in PageRecord
          /\ g.state = page[q].state \/ g.state = "reloading"
      BY <1>1, <1>2, <3>1 DEF PageRecord, PageState
    <3> HIDE DEF g
    <3>3. page[q].state # "closed" BY <2>2 DEF Open
    <3>4. page[q] # Closed /\ Loaded(q) BY <3>3 DEF Pages, Closed
    <3>5. /\ page[q].under <= active
          /\ ~overlapped /\ page[q].under # 0 =>
               page[q].state # "failed" /\ page[q].html >= page[q].under
      BY <3>4 DEF Loaded
    <3>6. page[q].under \in Nat BY <1>2, WorkerAssumption DEF PageRecord, Number
    <3>7. g.under <= v /\ g.under # v BY <1>1, <3>2, <3>5, <3>6
    <3>8. g.under = 0 \/ v \in accepted' BY <2>2, <1>1, <3>2, <3>5, <3>6
    <3> QED BY <3>2, <3>3, <3>5, <3>7, <3>8 DEF Loaded, g
  <2> QED BY <2>1, <2>2
<1>4. page' \in [Page -> PageRecord] BY <1>3 DEF Claimed
<1> QED BY <1>3, <1>4 DEF Pages

LEMMA ActivateKeeps ==
  ASSUME SWInv, waiting # 0, Activate(waiting), UNCHANGED <<server, online, installing, shells>>,
         \/ Open = {} /\ accepted' = accepted
         \/ accepted' = accepted \cup {waiting}
  PROVE  SWInv'
<1> USE DEF SWInv
<1>1. /\ active' = waiting /\ waiting' = 0 /\ caches' = Only(waiting, caches)
      /\ page' = Claimed(waiting) /\ overlapped' = (overlapped \/ installing # NoInstall)
  BY DEF Activate
<1>2. waiting \in Version /\ active < waiting BY Numbers DEF Ages
<1>3. IsCaches(caches) BY DEF Types
<1>4. page' \in [Page -> PageRecord] /\ Pages' BY <1>1, <1>2, ClaimedKeeps
<1>5. Types'
  <2>1. IsCaches(caches') BY <1>1, <1>3, OnlyIs
  <2>2. overlapped' \in BOOLEAN BY <1>1
  <2>3. accepted' \subseteq Version BY <1>2 DEF Types
  <2>4. active' \in 0..server' /\ waiting' \in 0..server' BY <1>1, Numbers DEF Types
  <2> QED BY <1>4, <2>1, <2>2, <2>3, <2>4 DEF Types
<1>6. Ages'
  <2>1. installing.version # 0 => waiting < installing.version /\ 0 < installing.version
    BY Numbers DEF Ages, Types
  <2> QED BY <1>1, <2>1 DEF Ages
<1>7. Equipped'
  <2>1. ASSUME ~overlapped' PROVE ~overlapped /\ installing.version = 0
    <3>1. overlapped' <=> overlapped \/ installing # NoInstall BY DEF Activate
    <3>2. NoInstall.version = 0 BY DEF NoInstall
    <3> QED BY <2>1, <3>1, <3>2
  <2>2. ASSUME ~overlapped'
        PROVE  1 \in DOMAIN caches' /\ Complete(caches'[1], active', shells'[active'])
    <3>1. PICK i \in DOMAIN caches : Complete(caches[i], waiting, shells[waiting])
      BY <2>1, <2>2 DEF Equipped
    <3>2. 1 \in DOMAIN caches' /\ caches'[1] = caches[i]
      BY <1>1, <1>3, <3>1, OnlyIs DEF Complete
    <3> QED BY <1>1, <3>1, <3>2
  <2> QED BY <1>1, <2>1, <2>2 DEF Equipped
<1> QED BY <1>4, <1>5, <1>6, <1>7

LEMMA UpdateKeeps == ASSUME SWInv, Update PROVE SWInv'
<1> USE DEF SWInv
<1>1. /\ installing = NoInstall /\ server > waiting /\ server > active
      /\ installing' = [NoInstall EXCEPT !.version = server] /\ caches' = Opened(server)
      /\ UNCHANGED <<server, online, waiting, active, page, historyVars>>
  BY DEF Update
<1>2. installing'.version = server /\ installing'.html = 0 /\ installing'.script = 0
      /\ installing' \in [version : 0..server, html : 0..server, script : 0..server]
  BY <1>1, Numbers DEF NoInstall
<1>3. /\ IsCaches(caches') /\ \A i \in DOMAIN caches : i \in DOMAIN caches' /\ caches'[i] = caches[i]
      /\ \E i \in DOMAIN caches' : caches'[i].version = server
  BY <1>1, OpenedIs DEF Types
<1>4. Types' BY <1>1, <1>2, <1>3 DEF Types, historyVars
<1>5. Ages' BY <1>1, <1>2, Numbers DEF Ages
<1>6. Equipped' BY <1>1, <1>2, <1>3 DEF Equipped, historyVars
<1>7. Pages' BY <1>1, SameLoaded DEF Pages, historyVars
<1> QED BY <1>4, <1>5, <1>6, <1>7

LEMMA FetchKeeps == ASSUME SWInv, Fetch \/ InstallFails PROVE SWInv'
<1> USE DEF SWInv
<1>1. UNCHANGED <<server, online, waiting, active, caches, page, historyVars>>
  BY DEF Fetch, InstallFails
<1>2. installing.version # 0 BY DEF Ages, Fetch, InstallFails
<1>3. Types' /\ Ages' /\ (installing'.version \in {0, installing.version})
  <2>1. CASE InstallFails
    <3>1. installing' = NoInstall BY <2>1 DEF InstallFails
    <3>2. NoInstall \in [version : 0..server, html : 0..server, script : 0..server]
      BY Numbers DEF NoInstall
    <3> QED BY <1>1, <3>1, <3>2 DEF Types, Ages, NoInstall, historyVars
  <2>2. CASE Fetch
    <3> DEFINE n == installing'
    <3>1. /\ n.version = installing.version
          /\ \/ n.html = server /\ n.script = installing.script /\ installing.html = 0
             \/ n.html = installing.html /\ n.script = server /\ installing.html # 0
          /\ n \in [version : 0..server, html : 0..server, script : 0..server]
      BY <2>2, Numbers DEF Fetch, Types
    <3>2. installing.version <= server /\ installing.version \in Nat BY Numbers DEF Types
    <3> HIDE DEF n
    <3>3. Ages' BY <1>1, <1>2, <3>1, <3>2, Numbers DEF Ages, n
    <3> QED BY <1>1, <3>1, <3>3 DEF Types, historyVars, n
  <2> QED BY <2>1, <2>2
<1>4. Equipped' BY <1>1, <1>2, <1>3 DEF Equipped, historyVars
<1>5. Pages' BY <1>1, SameLoaded DEF Pages, historyVars
<1> QED BY <1>3, <1>4, <1>5

LEMMA InstalledKeeps == ASSUME SWInv, Installed PROVE SWInv'
<1> USE DEF SWInv
<1> DEFINE v == installing.version
<1>1. /\ installing.script # 0 /\ installing' = NoInstall
      /\ shells' = [shells EXCEPT ![v] = installing.script]
      /\ UNCHANGED <<server, online, accepted, overlapped>>
      /\ \/ /\ active = 0 /\ active' = v /\ waiting' = 0
            /\ caches' = Only(v, Filled) /\ page' = Claimed(v)
         \/ /\ active # 0 /\ waiting' = v /\ caches' = Filled
            /\ UNCHANGED <<active, page>>
  BY DEF Installed
<1>2. v # 0 BY <1>1 DEF Ages, NoInstall
<1>3. v \in Version /\ v \in 0..server /\ v \in Nat /\ active < v /\ waiting < v
  BY <1>2, Numbers DEF Ages, Types, Version
<1>4. installing.html >= v BY <1>1 DEF Ages
<1>5. installing.script \in Number BY Numbers DEF Types, Number
<1>6. /\ shells' \in [Version -> Number] /\ shells'[v] = installing.script
      /\ \A u \in Version : u # v => shells'[u] = shells[u]
  BY <1>1, <1>3, <1>5 DEF Types
<1>7. /\ IsCaches(Filled) /\ DOMAIN Filled = DOMAIN caches
      /\ \A i \in DOMAIN caches : Filled[i] = IF caches[i].version = v THEN installing ELSE caches[i]
  BY FilledIs
<1>8. Complete(installing, v, shells'[v]) BY <1>1, <1>4, <1>6 DEF Complete
<1>9. ~overlapped => \E i \in DOMAIN Filled : Filled[i].version = v /\ Filled[i] = installing
  BY <1>2, <1>7 DEF Equipped
<1>10. \A u \in Version : u <= active => shells'[u] = shells[u]
  <2>1. \A u \in Version : u <= active => u # v BY <1>3, Numbers DEF Version
  <2> QED BY <1>6, <2>1
<1> HIDE DEF v
<1>11. CASE active = 0 /\ active' = v /\ waiting' = 0 /\ caches' = Only(v, Filled) /\ page' = Claimed(v)
  <2>1. page' \in [Page -> PageRecord] /\ Pages'
    BY <1>1, <1>3, <1>10, <1>11, ClaimedKeeps
  <2>2. Types'
    <3>1. NoInstall \in [version : 0..server, html : 0..server, script : 0..server]
      BY Numbers DEF NoInstall
    <3>2. IsCaches(caches') BY <1>7, <1>11, OnlyIs
    <3>3. waiting' \in 0..server BY <1>11, Numbers
    <3> QED BY <1>1, <1>3, <1>6, <1>11, <2>1, <3>1, <3>2, <3>3 DEF Types
  <2>3. Ages' BY <1>1, <1>11 DEF Ages, NoInstall
  <2>4. Equipped'
    <3>1. ~overlapped => 1 \in DOMAIN caches' /\ caches'[1] = installing
      BY <1>7, <1>9, <1>11, OnlyIs
    <3> QED BY <1>1, <1>8, <1>11, <3>1 DEF Equipped, NoInstall
  <2> QED BY <2>1, <2>2, <2>3, <2>4
<1>12. CASE active # 0 /\ waiting' = v /\ caches' = Filled /\ UNCHANGED <<active, page>>
  <2>1. Types'
    <3>1. NoInstall \in [version : 0..server, html : 0..server, script : 0..server]
      BY Numbers DEF NoInstall
    <3> QED BY <1>1, <1>3, <1>6, <1>7, <1>12, <3>1 DEF Types
  <2>2. Ages' BY <1>1, <1>3, <1>12 DEF Ages, NoInstall
  <2>3. Equipped'
    <3>1. active \in Version /\ active # v BY <1>3, <1>12, Numbers
    <3>2. ~overlapped => 1 \in DOMAIN caches' /\ Complete(caches'[1], active, shells'[active])
      <4>1. ~overlapped => 1 \in DOMAIN caches /\ Complete(caches[1], active, shells[active])
        BY <1>12 DEF Equipped
      <4> QED BY <1>6, <1>7, <1>12, <3>1, <4>1 DEF Complete
    <3> QED BY <1>1, <1>8, <1>9, <1>12, <3>2 DEF Equipped, NoInstall
  <2>4. Pages'
    <3>1. ASSUME NEW q \in Page PROVE Loaded(q)'
      <4>1. CASE page[q] = Closed BY <1>12, <4>1 DEF Loaded
      <4>2. CASE page[q] # Closed
        <5>1. Loaded(q) /\ page[q] \in PageRecord BY DEF Pages, Types
        <5>2. page[q].under # 0 => page[q].under \in Version /\ page[q].under <= active
          BY <4>2, <5>1, WorkerAssumption DEF Loaded, PageRecord, Number, Version
        <5>3. page[q].under # 0 => shells'[page[q].under] = shells[page[q].under]
          BY <1>10, <5>2
        <5> QED BY <1>1, <1>12, <4>2, <5>1, <5>3 DEF Loaded
      <4> QED BY <4>1, <4>2
    <3> QED BY <3>1 DEF Pages
  <2> QED BY <2>1, <2>2, <2>3, <2>4
<1> QED BY <1>1, <1>11, <1>12

LEMMA RestKeeps == ASSUME SWInv, Deploy \/ NetworkFlips \/ UNCHANGED vars PROVE SWInv'
<1> USE DEF SWInv
<1>1. UNCHANGED <<workerVars, page, historyVars>> BY DEF Deploy, NetworkFlips, vars
<1>2. server' \in Version /\ server <= server' /\ online' \in BOOLEAN
  <2>1. CASE Deploy
    <3>1. server' = server + 1 /\ server < MaxVersion /\ online' = online BY <2>1 DEF Deploy
    <3>2. server \in Nat /\ MaxVersion \in Nat BY Numbers
    <3>3. server' \in 1..MaxVersion /\ server <= server' BY <3>1, <3>2
    <3> QED BY <3>1, <3>3 DEF Version, Types
  <2>2. CASE NetworkFlips \/ UNCHANGED vars
    <3>1. server' = server BY <2>2 DEF NetworkFlips, vars
    <3>2. online' \in BOOLEAN BY <2>2 DEF NetworkFlips, vars, Types
    <3> QED BY <3>1, <3>2, Numbers
  <2> QED BY <2>1, <2>2
<1>3. Types'
  <2>1. 0..server \subseteq 0..server' BY <1>2, Numbers DEF Version
  <2>2. installing \in [version : 0..server', html : 0..server', script : 0..server']
    BY <2>1 DEF Types
  <2> QED BY <1>1, <1>2, <2>1, <2>2 DEF Types, workerVars, historyVars
<1>4. Ages' /\ Equipped' BY <1>1 DEF Ages, Equipped, workerVars, historyVars
<1>5. Pages' BY <1>1, SameLoaded DEF Pages, workerVars, historyVars
<1> QED BY <1>3, <1>4, <1>5

-----------------------------------------------------------------------------
LEMMA NothingInstalledAtFirst == ASSUME Init PROVE SWInv
<1>1. Types
  <2>1. IsCaches(<<>>) BY EmptySeq DEF IsCaches
  <2>2. Closed \in PageRecord BY WorkerAssumption DEF Closed, PageRecord, PageState, Number
  <2>3. NoInstall \in [version : 0..server, html : 0..server, script : 0..server]
    BY DEF Init, NoInstall
  <2>4. server \in Version /\ 0 \in 0..server BY WorkerAssumption DEF Init, Version
  <2>5. IsCaches(caches) BY <2>1 DEF Init
  <2>6. page \in [Page -> PageRecord] BY <2>2 DEF Init
  <2>7. shells \in [Version -> Number] BY WorkerAssumption DEF Init, Number
  <2> QED BY <2>3, <2>4, <2>5, <2>6, <2>7 DEF Init, Types
<1>2. Ages /\ Equipped BY DEF Init, Ages, Equipped, NoInstall
<1>3. Pages BY DEF Init, Pages, Loaded
<1> QED BY <1>1, <1>2, <1>3 DEF SWInv

LEMMA StepKeeps == ASSUME SWInv, [Next]_vars PROVE SWInv'
<1>1. ASSUME NEW p \in Page, Accept(p) PROVE SWInv'
  BY <1>1, ActivateKeeps DEF Accept
<1>2. CASE ActivateUnwatched BY <1>2, ActivateKeeps DEF ActivateUnwatched
<1> QED BY <1>1, <1>2, NavigateKeeps, LoadScriptKeeps, ListenKeeps, CloseKeeps, UpdateKeeps,
           FetchKeeps, InstalledKeeps, RestKeeps DEF Next, Worker

LEMMA ServiceWorkerInvariant == Spec => []SWInv
BY NothingInstalledAtFirst, StepKeeps, PTL DEF Spec

(* The variables stay in their ranges, and an open page is under the active
   worker. *)
THEOREM TypeCorrect == Spec => []TypeOK
<1>1. SWInv => TypeOK
  <2>1. ASSUME SWInv, NEW p \in Page
        PROVE  /\ page[p].state \in PageState
               /\ page[p].state # "closed" => page[p].worker = active
    BY <2>1 DEF SWInv, Types, PageRecord, Pages, Loaded, Closed
  <2> QED BY <2>1 DEF SWInv, Types, IsCaches, TypeOK, PageState
<1> QED BY <1>1, ServiceWorkerInvariant, PTL

(* docs/WEB_CLIENT.md:66, sw.js:35-58.  A page under a worker loads whenever
   the network goes away: every worker keeps a complete cache, because no
   other deletes it (Equipped). *)
THEOREM PagesLoadOffline == Spec => []OfflineWorks
<1>1. SWInv => OfflineWorks
  BY DEF SWInv, Pages, Loaded, Closed, OfflineWorks
<1> QED BY <1>1, ServiceWorkerInvariant, PTL

(* sw.js:35-58.  A page runs the scripts its worker installed: the cache of
   the active worker is the oldest, so that caches.match finds it first. *)
THEOREM PagesRunTheirWorkersScripts == Spec => []ScriptsOfItsWorker
<1>1. SWInv => ScriptsOfItsWorker
  BY DEF SWInv, Pages, Loaded, Closed, ScriptsOfItsWorker
<1> QED BY <1>1, ServiceWorkerInvariant, PTL

(* sw.js:18-19.  A page has HTML older than its scripts in the named cases
   only: else its HTML is at least as new as its worker (Loaded). *)
THEOREM MixedShellsAreExcused == Spec => []MixedOnlyInTransit
<1>1. SWInv => MixedOnlyInTransit
  <2>1. ASSUME SWInv, NEW p \in Page, page[p].script > page[p].html,
               page[p].under # 0, ~overlapped,
               ~(page[p].worker # page[p].under /\ page[p].worker \in accepted)
        PROVE  shells[page[p].under] > page[p].under
    <3> DEFINE g == page[p]
    <3>1. Loaded(p) /\ g \in PageRecord BY <2>1 DEF SWInv, Pages, Types
    <3>2. g.script \in Nat /\ g.html \in Nat /\ g.under \in Nat /\ g.script # 0
      BY <2>1, <3>1, WorkerAssumption DEF PageRecord, Number
    <3>3. g # Closed BY <3>2 DEF Closed
    <3> HIDE DEF g
    <3>4. g.html >= g.under /\ g.script = shells[g.under]
      BY <2>1, <3>1, <3>2, <3>3 DEF Loaded, g
    <3> QED BY <2>1, <3>2, <3>4 DEF g
  <2> QED BY <2>1 DEF MixedOnlyInTransit
<1> QED BY <1>1, ServiceWorkerInvariant, PTL
=============================================================================
