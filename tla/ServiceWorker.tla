---------------------------- MODULE ServiceWorker ----------------------------
(***************************************************************************)
(* The web client's service worker, src/site/sw.js, and the update of the  *)
(* pages, src/site/js/app.mjs:340-368: versions are deployed at any time,  *)
(* browser, workers and pages of one origin share the caches, the network  *)
(* comes and goes.  The files of the shell are two: the HTML and the       *)
(* scripts it loads.  The life cycle of workers is the browser's.          *)
(***************************************************************************)
EXTENDS Naturals, Sequences, FiniteSets

CONSTANTS Page, MaxVersion

ASSUME WorkerAssumption == MaxVersion \in Nat \ {0}

VARIABLES server,       \* the version that is deployed
          online,
          installing,   \* the worker that fills its cache, and what it has fetched
          waiting,      \* the versions of the waiting and of the active worker,
          active,       \*   0 if there is none
          caches,       \* the caches, in the order of their creation
          page,         \* what each page has loaded, and who controls it
          accepted,     \* history: the versions a user has let take over
          shells,       \* history: the scripts each worker has installed
          overlapped    \* history: a worker became active while another installed

workerVars == <<installing, waiting, active, caches>>
historyVars == <<accepted, shells, overlapped>>
vars == <<server, online, workerVars, page, historyVars>>

Version == 1..MaxVersion
Files == [html : 0..MaxVersion, script : 0..MaxVersion]
Closed == [state |-> "closed", html |-> 0, script |-> 0, under |-> 0, worker |-> 0]
NoInstall == [version |-> 0, html |-> 0, script |-> 0]

TypeOK ==
  /\ server \in Version /\ online \in BOOLEAN
  /\ waiting \in 0..server /\ active \in 0..server
  /\ installing.version \in 0..server
  /\ \A i, j \in DOMAIN caches : caches[i].version = caches[j].version => i = j
  /\ \A p \in Page :
       /\ page[p].state \in {"closed", "loading", "loaded", "listening", "reloading", "failed"}
       /\ page[p].state # "closed" => page[p].worker = active

Init == /\ server = 1 /\ online = TRUE
        /\ installing = NoInstall
        /\ waiting = 0 /\ active = 0 /\ caches = <<>>
        /\ page = [p \in Page |-> Closed]
        /\ accepted = {} /\ shells = [v \in Version |-> 0] /\ overlapped = FALSE

Open == {p \in Page : page[p].state # "closed"}

-----------------------------------------------------------------------------
(* Mutant: the newest cache is asked first. *)
MatchNewest(file) ==
  LET has == {i \in DOMAIN caches : caches[i][file] # 0}
  IN IF has = {} THEN 0 ELSE caches[CHOOSE i \in has : \A j \in has : i >= j][file]

(* caches.match: the first cache in the order of creation that has the file. *)
Match(file) ==
  LET has == {i \in DOMAIN caches : caches[i][file] # 0}
  IN IF has = {} THEN 0 ELSE caches[CHOOSE i \in has : \A j \in has : i <= j][file]

(* caches.open(CACHE_NAME) in worker v, and cache.put. *)
Opened(v) == IF \E i \in DOMAIN caches : caches[i].version = v THEN caches
             ELSE Append(caches, [version |-> v, html |-> 0, script |-> 0])

Put(v, file, content) ==
  [i \in DOMAIN Opened(v) |-> IF Opened(v)[i].version = v
                              THEN [Opened(v)[i] EXCEPT ![file] = content]
                              ELSE Opened(v)[i]]

(* What a request of a page controlled by worker w gets, 0 for a failure. *)
FromNetwork(file, w) ==
  /\ online
  /\ caches' = IF w = 0 THEN caches ELSE Put(w, file, server)

(* networkFirst, and the loading of a page that no worker controls. *)
Navigate(p) ==
  /\ page[p].state \in {"closed", "reloading"}
  /\ \E html \in 0..MaxVersion :
       /\ \/ html = server /\ FromNetwork("html", active)
          \/ ~online /\ UNCHANGED caches
             /\ html = IF active = 0 THEN 0 ELSE Match("html")
       /\ page' = [page EXCEPT ![p] =
                     [state |-> IF html = 0 THEN "failed" ELSE "loading",
                      html |-> html, script |-> 0, under |-> active, worker |-> active]]
  /\ UNCHANGED <<server, online, installing, waiting, active, historyVars>>

(* cacheFirst. *)
LoadScript(p) ==
  LET w == page[p].worker
      cached == IF w = 0 THEN 0 ELSE Match("script")
  IN /\ page[p].state = "loading"
     /\ \E script \in 0..MaxVersion :
          /\ \/ cached # 0 /\ script = cached /\ UNCHANGED caches
             \/ cached = 0 /\ script = server /\ FromNetwork("script", w)
             \/ cached = 0 /\ ~online /\ script = 0 /\ UNCHANGED caches
          /\ page' = [page EXCEPT ![p].script = script,
                                  ![p].state = IF script = 0 THEN "failed" ELSE "loaded"]
     /\ UNCHANGED <<server, online, installing, waiting, active, historyVars>>

Close(p) == /\ p \in Open
            /\ page' = [page EXCEPT ![p] = Closed]
            /\ UNCHANGED <<server, online, workerVars, historyVars>>

-----------------------------------------------------------------------------
(* Mutant: the pages are not claimed. *)
Unclaimed(v) == page

(* caches.delete of every cache but the worker's own. *)
Only(v, all) == LET own == {i \in DOMAIN all : all[i].version = v}
                IN IF own = {} THEN <<>> ELSE <<all[CHOOSE i \in own : TRUE]>>

(* Worker v becomes active: the other caches go, the worker claims the pages,
   and those that listen to controllerchange reload. *)
Claimed(v) ==
  [p \in Page |-> IF p \notin Open THEN page[p]
                  ELSE [page[p] EXCEPT !.worker = v,
                          !.state = IF @ = "listening" THEN "reloading" ELSE @]]

(* Mutant: the worker does not spare its own cache. *)
ActivateEmptied(v) ==
  /\ active' = v /\ waiting' = 0
  /\ caches' = <<>>
  /\ page' = Claimed(v)
  /\ overlapped' = (overlapped \/ installing # NoInstall)

Activate(v) ==
  /\ active' = v /\ waiting' = 0
  /\ caches' = Only(v, caches)
  /\ page' = Claimed(v)
  /\ overlapped' = (overlapped \/ installing # NoInstall)

(* The update button: SKIP_WAITING to the waiting worker. *)
Accept(p) == /\ page[p].state = "listening" /\ waiting # 0
             /\ Activate(waiting)
             /\ accepted' = accepted \cup {waiting}
             /\ UNCHANGED <<server, online, installing, shells>>

(* Without pages a waiting worker need not wait. *)
ActivateUnwatched == /\ Open = {} /\ waiting # 0
                     /\ Activate(waiting)
                     /\ UNCHANGED <<server, online, installing, accepted, shells>>

(* register() returns, and the listener is added; the first call installs. *)
Listen(p) == /\ page[p].state = "loaded"
             /\ active # 0 \/ waiting # 0 \/ installing # NoInstall
             /\ page' = [page EXCEPT ![p].state = "listening"]
             /\ UNCHANGED <<server, online, workerVars, historyVars>>

(* The browser looks for a new sw.js and runs its install handler. *)
Update == /\ online /\ installing = NoInstall
          /\ \E p \in Page : page[p].state \in {"loaded", "listening"}
          /\ server > waiting /\ server > active
          /\ installing' = [NoInstall EXCEPT !.version = server]
          /\ caches' = Opened(server)
          /\ UNCHANGED <<server, online, waiting, active, page, historyVars>>

(* cache.addAll fetches file by file, and keeps all or nothing. *)
Fetch == /\ installing # NoInstall /\ online
         /\ \/ installing.html = 0 /\ installing' = [installing EXCEPT !.html = server]
            \/ installing.html # 0 /\ installing.script = 0
               /\ installing' = [installing EXCEPT !.script = server]
         /\ UNCHANGED <<server, online, waiting, active, caches, page, historyVars>>

InstallFails == /\ installing # NoInstall /\ ~online
                /\ installing' = NoInstall
                /\ UNCHANGED <<server, online, waiting, active, caches, page, historyVars>>

(* A cache that was deleted meanwhile is filled for nobody. *)
Filled == [i \in DOMAIN caches |->
             IF caches[i].version = installing.version THEN installing ELSE caches[i]]

(* Mutant: the install handler calls skipWaiting. *)
InstalledSkips ==
  LET v == installing.version IN
    /\ installing.script # 0 /\ installing' = NoInstall
    /\ shells' = [shells EXCEPT ![v] = installing.script]
    /\ active' = v /\ waiting' = 0
    /\ caches' = Only(v, Filled)
    /\ page' = Claimed(v)
    /\ UNCHANGED <<server, online, accepted, overlapped>>

(* The first worker becomes active at once, any other waits. *)
Installed ==
  LET v == installing.version IN
    /\ installing.script # 0 /\ installing' = NoInstall
    /\ shells' = [shells EXCEPT ![v] = installing.script]
    /\ \/ active = 0 /\ active' = v /\ waiting' = 0
          /\ caches' = Only(v, Filled)
          /\ page' = Claimed(v)
       \/ active # 0 /\ waiting' = v /\ caches' = Filled /\ UNCHANGED <<active, page>>
    /\ UNCHANGED <<server, online, accepted, overlapped>>

-----------------------------------------------------------------------------
Deploy == /\ server < MaxVersion /\ server' = server + 1
          /\ UNCHANGED <<online, workerVars, page, historyVars>>

NetworkFlips == /\ online' = ~online
                /\ UNCHANGED <<server, workerVars, page, historyVars>>

Worker == Update \/ Fetch \/ InstallFails \/ Installed \/ ActivateUnwatched

Next == \/ \E p \in Page : Navigate(p) \/ LoadScript(p) \/ Listen(p) \/ Accept(p) \/ Close(p)
        \/ Worker \/ Deploy \/ NetworkFlips

Spec == Init /\ [][Next]_vars

-----------------------------------------------------------------------------
(* docs/WEB_CLIENT.md:66, "After the app shell has been cached, the service
   worker can load these same-origin resources without Internet access": a
   page under a worker always loads, whenever the network goes away and
   whichever worker takes over meanwhile.  Not so after a worker became active
   while a newer one was being installed: it deletes the cache of the other. *)
OfflineWorks ==
  \A p \in Page : page[p].state = "failed" => page[p].under = 0 \/ overlapped

(* sw.js:35-58.  A page loaded under one worker runs the scripts which that
   worker installed, although the caches of other workers are searched, too,
   and pages come from the network. *)
ScriptsOfItsWorker ==
  \A p \in Page :
    LET w == page[p].under IN
      page[p].script # 0 /\ w # 0 /\ page[p].worker = w /\ ~overlapped
      => page[p].script = shells[w]

(* sw.js:18-19, "Keeping the old worker active until the user accepts the
   update prevents a mixed old-HTML/new-JS app shell": a page has HTML older
   than its scripts only if an accepted worker, or the first one, took over
   while it was loading, or a version was deployed during a load from the
   network or during the install of its worker, or its worker has lost its
   cache as above. *)
MixedOnlyInTransit ==
  \A p \in Page :
    page[p].script > page[p].html =>
      \/ page[p].under = 0
      \/ page[p].worker # page[p].under /\ page[p].worker \in accepted
      \/ shells[page[p].under] > page[p].under
      \/ overlapped
=============================================================================
