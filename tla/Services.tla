------------------------------ MODULE Services ------------------------------
(***************************************************************************)
(* The parts around indexing and research that share no state with each    *)
(* other.  A behaviour is one of one part: a product of them would show    *)
(* nothing more.  Here is also the fairness that each part may count on.   *)
(***************************************************************************)
EXTENDS Watcher, ConnectionPool, ResearchCorpus, Projects, History, EmbedCall,
        ChatTurn, Keyring, Search, Slicing, HttpServer

CONSTANT Parts  \* the parts whose behaviours are looked at

ASSUME PartsAssumption ==
  Parts \subseteq {"watcher", "pool", "corpus", "projects", "history", "embed",
                   "chat", "keyring", "search", "slicing", "http"}

VARIABLE part  \* the part that this behaviour is about

serviceVars == <<watcherVars, poolVars, corpusVars, projectVars, historyVars,
                 embedVars, turnVars, keyringVars, searchVars, slicingVars,
                 httpVars, part>>

Is(p) == part = p

(* What a part begins with is open only where the behaviour is about it. *)
ServicesInit ==
  /\ part \in Parts
  /\ WatcherInit /\ (Is("watcher") \/ disk = Nothing)
  /\ PoolInit
  /\ CorpusInit /\ (Is("corpus") \/ index = CHOOSE i \in [Files -> Texts] : TRUE)
  /\ ProjectsInit /\ (Is("projects") \/ slug = CHOOSE m \in Slugs : TRUE)
  /\ HistoryInit
  /\ EmbedInit
  /\ ChatInit /\ (Is("chat") \/ turn.silence = CHOOSE g \in Guards : TRUE)
  /\ KeyringInit
  /\ SearchInit
  /\ SlicingInit
  /\ HttpInit

ServicesNext ==
  /\ UNCHANGED part
  /\ \/ /\ Is("watcher") /\ WatcherNext
        /\ UNCHANGED <<poolVars, corpusVars, projectVars, historyVars, embedVars,
                       turnVars, keyringVars, searchVars, slicingVars, httpVars>>
     \/ /\ Is("pool") /\ PoolNext
        /\ UNCHANGED <<watcherVars, corpusVars, projectVars, historyVars,
                       embedVars, turnVars, keyringVars, searchVars, slicingVars,
                       httpVars>>
     \/ /\ Is("corpus") /\ CorpusNext
        /\ UNCHANGED <<watcherVars, poolVars, projectVars, historyVars, embedVars,
                       turnVars, keyringVars, searchVars, slicingVars, httpVars>>
     \/ /\ Is("projects") /\ ProjectsNext
        /\ UNCHANGED <<watcherVars, poolVars, corpusVars, historyVars, embedVars,
                       turnVars, keyringVars, searchVars, slicingVars, httpVars>>
     \/ /\ Is("history") /\ HistoryNext
        /\ UNCHANGED <<watcherVars, poolVars, corpusVars, projectVars, embedVars,
                       turnVars, keyringVars, searchVars, slicingVars, httpVars>>
     \/ /\ Is("embed") /\ EmbedNext
        /\ UNCHANGED <<watcherVars, poolVars, corpusVars, projectVars, historyVars,
                       turnVars, keyringVars, searchVars, slicingVars, httpVars>>
     \/ /\ Is("chat") /\ ChatNext
        /\ UNCHANGED <<watcherVars, poolVars, corpusVars, projectVars, historyVars,
                       embedVars, keyringVars, searchVars, slicingVars, httpVars>>
     \/ /\ Is("keyring") /\ KeyringNext
        /\ UNCHANGED <<watcherVars, poolVars, corpusVars, projectVars, historyVars,
                       embedVars, turnVars, searchVars, slicingVars, httpVars>>
     \/ /\ Is("search") /\ SearchNext
        /\ UNCHANGED <<watcherVars, poolVars, corpusVars, projectVars, historyVars,
                       embedVars, turnVars, keyringVars, slicingVars, httpVars>>
     \/ /\ Is("slicing") /\ SlicingNext
        /\ UNCHANGED <<watcherVars, poolVars, corpusVars, projectVars, historyVars,
                       embedVars, turnVars, keyringVars, searchVars, httpVars>>
     \/ /\ Is("http") /\ HttpNext
        /\ UNCHANGED <<watcherVars, poolVars, corpusVars, projectVars, historyVars,
                       embedVars, turnVars, keyringVars, searchVars, slicingVars>>

-----------------------------------------------------------------------------
(* Both tasks of the watcher run, their timers fire, their requests are
   answered, and the retry worker settles what was left pending.  Edits and
   failures are finitely many. *)
WatcherFairness ==
  /\ WF_watcherVars(Is("watcher") /\ (StartWatching \/ Receive \/ StartFlush))
  /\ WF_watcherVars(Is("watcher") /\ StartDrift)
  /\ \A t \in Tasks : WF_watcherVars(Is("watcher") /\ TaskStep(t))
  /\ \A p \in Paths :
       WF_watcherVars(Is("watcher") /\ (Retry(p, "published") \/ Retry(p, "failed")))

(* A blocking thread runs to its end. *)
PoolFairness == \A c \in Calls : WF_poolVars(Is("pool") /\ ThreadStep(c))

(* The hook and the cron job start the indexer again and again, and it ends. *)
HistoryFairness ==
  \A i \in Indexers : WF_historyVars(Is("history") /\ (StartWalk(i) \/ Post(i)))

(* The tasks of connections and requests run; a body has a frame within the
   keep-alive interval, which cannot be sent once the client has gone. *)
HttpFairness ==
  /\ \A l \in Links : WF_httpVars(Is("http") /\ LinkEnds(l))
  /\ \A q \in Requests :
       WF_httpVars(Is("http") /\ (BodyLost(q) \/ HandlerDropped(q)
                                    \/ (Departed(q) /\ ReplyEnds(q))))

ServicesSpec ==
  /\ ServicesInit /\ [][ServicesNext]_serviceVars
  /\ WatcherFairness /\ PoolFairness /\ HistoryFairness /\ HttpFairness
=============================================================================
