------------------------ MODULE KnowledgeAccessProofs ------------------------
(***************************************************************************)
(* What goes into the fabric from outside, and what leaves it.             *)
(*                                                                         *)
(* Whatever leaves the fabric was allowed when it left, for any servers,   *)
(* corpora, Characters, requests and readers, and however often rights     *)
(* change while searches, comparisons and analyses run.                    *)
(*                                                                         *)
(* AccessAuthorized speaks of readers that are done and of renderers that  *)
(* are on.  What carries it there: a reader that looked once more holds    *)
(* nothing the look did not admit (HitsTrue), a picture told is one the    *)
(* resolver saw approved in a Corpus it had listed (ShotTrue), a renderer  *)
(* request that was analysed asks for hosts the analysis saw unless the    *)
(* Source is gone (AnalysisTrue), and an identity a reset deleted is not   *)
(* used again (PicturesKept, GoneFeed).                                    *)
(*                                                                         *)
(* Synchronisation, for any pages, contents and scheduler replicas and any *)
(* number of leases, edits, faults and saved schedules: a validator is     *)
(* stored only with content that was published, and a version is added     *)
(* only under a lease that is current.  The validator is written two or    *)
(* three steps after the publication, by a run that may have lost its      *)
(* lease in between: RunTrue says what a run knows at each of its steps.   *)
(***************************************************************************)
EXTENDS KnowledgeAccess, KnowledgeSync, TLAPS

-----------------------------------------------------------------------------
(* Access and retrieval                                                     *)


\* The fields of a reader and of a request, and the tables as functions.
ReaderFields == {"at", "kind", "scope", "who", "allowed", "hits", "shot"}
RequestFields == {"at", "scope", "corpus", "feed", "corpora", "feeds", "hosts"}

AccessShaped ==
  /\ reader = [q \in Reader |-> reader[q]] /\ \A q \in Reader : DOMAIN reader[q] = ReaderFields
  /\ request = [r \in Request |-> request[r]] /\ \A r \in Request : DOMAIN request[r] = RequestFields
  /\ since = [q \in Reader |-> since[q]]
  /\ \A q \in Reader : since[q] = [effective |-> since[q].effective, admitted |-> since[q].admitted,
                                   approved |-> since[q].approved]
  /\ feed = [f \in Feed |-> feed[f]] /\ \A f \in Feed : DOMAIN feed[f] = {"corpus", "renders", "hosts"}
  /\ picture = [g \in Picture |-> picture[g]]
  /\ \A g \in Picture : DOMAIN picture[g] = {"corpus", "status", "compare"}
  /\ observed = [f \in Feed |-> observed[f]]

\* What a retrieval holds: nothing before the search, afterwards what was the server's when
\* it was looked at again; a reader of a Character's context reads for a Character.
HitsTrue(x, had) ==
  /\ x.at \notin {"found", "checked", "done"} => x.hits = {}
  /\ x.at = "checked" => x.kind = "context" /\ x.hits \subseteq had.effective
  /\ x.at = "done" /\ x.kind \in {"context", "inspector"} =>
       x.hits \subseteq had.effective /\ (x.kind = "context" => x.hits \subseteq had.admitted)
  /\ x.kind = "context" => x.who \in Deployment

\* What a resolver holds: corpora it listed, and a picture it saw approved in one of them.
ShotTrue(x, had) ==
  /\ x.at = "idle" => x = IdleReader
  /\ x.at \in {"start", "candidates", "query", "found", "checked"} => x.shot = None
  /\ x.at \in {"listed", "comparing"} => x.who \in Deployment /\ x.allowed \subseteq had.effective
  /\ x.shot # None =>
       /\ x.shot \in Picture \cap had.approved
       /\ x.kind = "pairwise" => x.shot \in Fictional
       /\ picture[x.shot] # NoPicture
       /\ picture[x.shot].corpus # None => picture[x.shot].corpus \in had.effective \cap had.admitted

ReadersTrue == \A q \in Reader : HitsTrue(reader[q], since[q]) /\ ShotTrue(reader[q], since[q])

\* A renderer's request is about a Source that existed and asks for hosts that were seen.
AnalysisTrue(x) ==
  x.at \in {"profile", "analysed"} =>
    /\ x.feed \in Feed /\ feed[x.feed].corpus # None
    /\ x.at = "analysed" => feed[x.feed] = GoneFeed \/ x.hosts \subseteq observed[x.feed]
RequestsTrue == \A r \in Request : AnalysisTrue(request[r])

AccessInv == AccessShaped /\ ReadersTrue /\ RequestsTrue /\ HostsObserved
Grows(had, now) == /\ had.effective \subseteq now.effective
                   /\ had.admitted \subseteq now.admitted
                   /\ had.approved \subseteq now.approved

PicturesKept == \A g \in Picture : picture[g] # NoPicture =>
  picture'[g] # NoPicture /\ picture'[g].corpus \in {picture[g].corpus, None}

IsHistory(h) == h = [effective |-> h.effective, admitted |-> h.admitted, approved |-> h.approved]

LEMMA Histories ==
  ASSUME NEW h, NEW k, IsHistory(h), IsHistory(k)
  PROVE  /\ IsHistory([part \in DOMAIN NoHistory |-> h[part] \cup k[part]])
         /\ Grows(h, [part \in DOMAIN NoHistory |-> h[part] \cup k[part]])
         /\ Grows(k, [part \in DOMAIN NoHistory |-> h[part] \cup k[part]])
<1>1. DOMAIN NoHistory = {"effective", "admitted", "approved"}
  BY DEF NoHistory
<1> QED BY <1>1 DEF IsHistory, Grows

\* What the history of a reader says after a step: all that it said, unless a look begins,
\* and what the reader is entitled to now.
LEMMA Remembered ==
  ASSUME AccessShaped, Remember, NEW q \in Reader
  PROVE  /\ IsHistory(since'[q]) /\ since' = [k \in Reader |-> since'[k]]
         /\ reader'[q].at # "idle" => Grows(Rights(q)', since'[q])
         /\ \/ reader'[q].at = "idle"
            \/ reader'[q].at # reader[q].at /\ reader[q].at \in {"idle", "query"}
            \/ Grows(since[q], since'[q])
<1>1. since' = [k \in Reader |-> Entitled(k)]
  BY DEF Remember
<1>2. since'[q] = Entitled(q)
  BY <1>1
<1>3. IsHistory(Rights(q)') /\ IsHistory(since[q]) /\ IsHistory(NoHistory)
  BY DEF IsHistory, Rights, NoHistory, AccessShaped
<1>4. PICK r : r = Rights(q)'
  OBVIOUS
<1>5. CASE reader'[q].at = "idle"
  BY <1>1, <1>2, <1>3, <1>5 DEF Entitled
<1>6. CASE /\ reader'[q].at # "idle" /\ reader'[q].at # reader[q].at
           /\ reader[q].at \in {"idle", "query"}
  BY <1>1, <1>2, <1>3, <1>6 DEF Entitled, Grows
<1>7. CASE /\ reader'[q].at # "idle"
           /\ reader'[q].at = reader[q].at \/ reader[q].at \notin {"idle", "query"}
  <2>1. since'[q] = [part \in DOMAIN NoHistory |-> since[q][part] \cup r[part]]
    BY <1>2, <1>4, <1>7 DEF Entitled
  <2>2. /\ IsHistory(since'[q]) /\ Grows(since[q], since'[q]) /\ Grows(r, since'[q])
    BY <1>3, <1>4, <2>1, Histories
  <2> QED BY <1>1, <1>4, <2>2
<1> QED BY <1>5, <1>6, <1>7

\* A reader that does not move stays truthful while rows change under it.
LEMMA ReaderRests ==
  ASSUME AccessInv, Remember, PicturesKept, NEW q \in Reader, reader'[q] = reader[q]
  PROVE  HitsTrue(reader[q], since[q])' /\ ShotTrue(reader[q], since[q])'
<1>1. PICK x : x = reader[q]
  OBVIOUS
<1>2. HitsTrue(x, since[q]) /\ ShotTrue(x, since[q])
  BY <1>1 DEF AccessInv, ReadersTrue
<1>3. x.at = "idle" \/ Grows(since[q], since'[q])
  BY <1>1, Remembered DEF AccessInv
<1>4. HitsTrue(x, since'[q])
  BY <1>2, <1>3 DEF HitsTrue, Grows
<1>5. x.shot # None =>
        /\ x.shot \in Picture \cap since'[q].approved /\ (x.kind = "pairwise" => x.shot \in Fictional)
        /\ picture'[x.shot] # NoPicture
        /\ picture'[x.shot].corpus # None =>
             picture'[x.shot].corpus \in since'[q].effective \cap since'[q].admitted
  <2>1. x.at = "idle" => x.shot = None
    BY <1>2 DEF ShotTrue, IdleReader
  <2> QED BY <1>2, <1>3, <2>1 DEF ShotTrue, Grows, PicturesKept
<1>6. ShotTrue(reader[q], since[q])'
  BY <1>1, <1>2, <1>3, <1>5 DEF ShotTrue, Grows
<1> QED BY <1>1, <1>4, <1>6 DEF HitsTrue

\* A step of one reader: the others rest and no row changes.
LEMMA ReadKeeps ==
  ASSUME AccessInv, Remember, NEW q \in Reader, NEW y, Reads(q, y),
         DOMAIN y = ReaderFields, HitsTrue(y, since'[q]), ShotTrue(y, since'[q])
  PROVE  AccessInv'
<1>1. /\ reader' = [reader EXCEPT ![q] = y]
      /\ UNCHANGED <<feed, picture, observed, request>>
  BY DEF Reads, library
<1>2. reader'[q] = y /\ reader' = [k \in Reader |-> reader'[k]]
      /\ \A k \in Reader \ {q} : reader'[k] = reader[k]
  BY <1>1 DEF AccessInv, AccessShaped
<1>3. PicturesKept
  BY <1>1 DEF PicturesKept
<1>4. ASSUME NEW k \in Reader
      PROVE  HitsTrue(reader[k], since[k])' /\ ShotTrue(reader[k], since[k])'
  <2>1. CASE k # q
    BY <1>2, <1>3, <2>1, ReaderRests
  <2>2. CASE k = q
    BY <1>1, <1>2, <2>2 DEF HitsTrue, ShotTrue
  <2> QED BY <2>1, <2>2
<1>5. AccessShaped'
  BY <1>1, <1>2, Remembered DEF AccessInv, AccessShaped, IsHistory
<1>6. RequestsTrue' /\ HostsObserved'
  BY <1>1 DEF AccessInv, RequestsTrue, AnalysisTrue, HostsObserved
<1> QED BY <1>4, <1>5, <1>6 DEF AccessInv, ReadersTrue

\* What a reader that moves may rely on.
LEMMA ReadRemembers ==
  ASSUME AccessInv, Remember, NEW q \in Reader, NEW y, Reads(q, y), y.at # "idle"
  PROVE  /\ Effective(y.scope) \subseteq since'[q].effective
         /\ y.who # None => AdmittedTo(y.who) \subseteq since'[q].admitted
         /\ ActivePictures \subseteq since'[q].approved
         /\ y.at = reader[q].at \/ reader[q].at \notin {"idle", "query"} => Grows(since[q], since'[q])
<1>1. reader'[q] = y /\ UNCHANGED <<fabric, library, deployedAt>>
  BY DEF Reads, AccessInv, AccessShaped
<1>2. /\ Rights(q)'.effective = Effective(y.scope)
      /\ y.who # None => Rights(q)'.admitted = AdmittedTo(y.who)
      /\ Rights(q)'.approved = ActivePictures
  BY <1>1 DEF Rights, Effective, AdmittedTo, Admitted, Effects, ActivePictures, fabric, library
<1>3. Grows(Rights(q)', since'[q])
  BY <1>1, Remembered DEF AccessInv
<1>4. y.at = reader[q].at \/ reader[q].at \notin {"idle", "query"} => Grows(since[q], since'[q])
  BY <1>1, Remembered DEF AccessInv
<1> QED BY <1>2, <1>3, <1>4 DEF Grows
LEMMA StartsKeep ==
  ASSUME AccessInv, Remember, NEW q \in Reader,
         \/ \E d \in Deployment :
              StartContext(q, d) \/ \E k \in {"visual", "pairwise"} : StartVisual(q, d, k)
         \/ \E a \in Account \cup {None}, s \in ScopeId : StartInspector(q, a, s)
  PROVE  AccessInv'
<1>1. ASSUME NEW d \in Deployment, StartContext(q, d) PROVE AccessInv'
  <2>1. PICK y : y = [IdleReader EXCEPT !.at = "start", !.kind = "context", !.who = d,
                                        !.scope = scopeAt[deployedAt[d]], !.allowed = Corpus]
    OBVIOUS
  <2>2. Reads(q, y) /\ DOMAIN y = ReaderFields
        /\ y.at = "start" /\ y.kind = "context" /\ y.who = d /\ y.hits = {} /\ y.shot = None
    BY <1>1, <2>1 DEF StartContext, IdleReader, ReaderFields
  <2>3. HitsTrue(y, since'[q]) /\ ShotTrue(y, since'[q])
    BY <2>2 DEF HitsTrue, ShotTrue
  <2> QED BY <2>2, <2>3, ReadKeeps
<1>2. ASSUME NEW d \in Deployment, NEW k \in {"visual", "pairwise"}, StartVisual(q, d, k)
      PROVE  AccessInv'
  <2>1. PICK s : s = scopeAt[deployedAt[d]]
    OBVIOUS
  <2>2. PICK y : y = [IdleReader EXCEPT !.at = "listed", !.kind = k, !.who = d, !.scope = s,
                                        !.allowed = Effective(s)]
    OBVIOUS
  <2>3. Reads(q, y) /\ DOMAIN y = ReaderFields /\ y.at = "listed" /\ y.kind = k /\ y.who = d
        /\ y.scope = s /\ y.allowed = Effective(s) /\ y.hits = {} /\ y.shot = None
    BY <1>2, <2>1, <2>2 DEF StartVisual, IdleReader, ReaderFields
  <2>4. HitsTrue(y, since'[q]) /\ ShotTrue(y, since'[q])
    BY <2>3, ReadRemembers DEF HitsTrue, ShotTrue
  <2> QED BY <2>3, <2>4, ReadKeeps
<1>3. CASE \E a \in Account \cup {None}, s \in ScopeId : StartInspector(q, a, s)
  <2>1. PICK a \in Account \cup {None}, s \in ScopeId : StartInspector(q, a, s)
    BY <1>3
  <2>2. PICK y : y = [IdleReader EXCEPT !.at = "candidates", !.kind = "inspector", !.scope = s,
                                        !.allowed = Corpus]
    OBVIOUS
  <2>3. Reads(q, y) /\ DOMAIN y = ReaderFields
        /\ y.at = "candidates" /\ y.kind = "inspector" /\ y.hits = {} /\ y.shot = None
    BY <2>1, <2>2 DEF StartInspector, IdleReader, ReaderFields
  <2>4. HitsTrue(y, since'[q]) /\ ShotTrue(y, since'[q])
    BY <2>3 DEF HitsTrue, ShotTrue
  <2> QED BY <2>3, <2>4, ReadKeeps
<1> QED BY <1>1, <1>2, <1>3

\* A retrieval: what it holds passes two looks after the search has ended.
LEMMA RetrievalKeeps ==
  ASSUME AccessInv, Remember, NEW q \in Reader,
         \/ SelectCandidates(q) \/ AuthorizeQuery(q) \/ RetrieveChannels(q)
         \/ Recheck(q) \/ Admit(q) \/ QueryFails(q)
  PROVE  AccessInv'
<1>1. PICK x : x = reader[q]
  OBVIOUS
<1>2. DOMAIN x = ReaderFields /\ HitsTrue(x, since[q]) /\ ShotTrue(x, since[q])
  BY <1>1 DEF AccessInv, AccessShaped, ReadersTrue
<1>3. CASE SelectCandidates(q)
  <2>1. PICK y : y = [x EXCEPT !.at = "candidates",
                         !.allowed = Effective(x.scope) \cap AdmittedTo(x.who)]
    OBVIOUS
  <2>2. Reads(q, y) /\ DOMAIN y = ReaderFields /\ y.at = "candidates" /\ y.kind = x.kind
        /\ y.who = x.who /\ y.hits = x.hits /\ y.shot = x.shot /\ x.at = "start"
    BY <1>1, <1>2, <1>3, <2>1 DEF SelectCandidates, ReaderFields
  <2>3. HitsTrue(y, since'[q]) /\ ShotTrue(y, since'[q])
    BY <1>2, <2>2 DEF HitsTrue, ShotTrue
  <2> QED BY <2>2, <2>3, ReadKeeps
<1>4. CASE AuthorizeQuery(q)
  <2>1. PICK ok : ok = x.allowed \cap Effective(x.scope)
    OBVIOUS
  <2>2. PICK y : y = [x EXCEPT !.at = IF ok = {} THEN "done" ELSE "query", !.allowed = ok]
    OBVIOUS
  <2>3. Reads(q, y) /\ DOMAIN y = ReaderFields /\ y.at \in {"done", "query"} /\ y.kind = x.kind
        /\ y.who = x.who /\ y.hits = x.hits /\ y.shot = x.shot /\ x.at = "candidates"
    BY <1>1, <1>2, <1>4, <2>1, <2>2 DEF AuthorizeQuery, ReaderFields
  <2>4. HitsTrue(y, since'[q]) /\ ShotTrue(y, since'[q])
    BY <1>2, <2>3 DEF HitsTrue, ShotTrue
  <2> QED BY <2>3, <2>4, ReadKeeps
<1>5. CASE RetrieveChannels(q)
  <2>1. PICK found \in SUBSET Searchable(x.allowed) :
          x.at = "query" /\ Reads(q, [x EXCEPT !.at = "found", !.hits = found])
    BY <1>1, <1>5 DEF RetrieveChannels
  <2>2. PICK y : y = [x EXCEPT !.at = "found", !.hits = found]
    OBVIOUS
  <2>3. Reads(q, y) /\ DOMAIN y = ReaderFields /\ y.at = "found" /\ y.kind = x.kind
        /\ y.who = x.who /\ y.shot = x.shot
    BY <1>2, <2>1, <2>2 DEF ReaderFields
  <2>4. HitsTrue(y, since'[q]) /\ ShotTrue(y, since'[q])
    BY <1>2, <2>1, <2>3 DEF HitsTrue, ShotTrue
  <2> QED BY <2>3, <2>4, ReadKeeps
<1>6. CASE Recheck(q)
  <2>1. PICK y : y = [x EXCEPT !.at = IF x.kind = "context" THEN "checked" ELSE "done",
                               !.hits = @ \cap Effective(x.scope)]
    OBVIOUS
  <2>2. Reads(q, y) /\ x.at = "found"
    BY <1>1, <1>6, <2>1 DEF Recheck
  <2>3. DOMAIN y = ReaderFields /\ y.at = (IF x.kind = "context" THEN "checked" ELSE "done")
        /\ y.kind = x.kind /\ y.who = x.who /\ y.shot = x.shot /\ y.scope = x.scope
        /\ y.hits = x.hits \cap Effective(x.scope)
    BY <1>2, <2>1 DEF ReaderFields
  <2>4. Effective(y.scope) \subseteq since'[q].effective
    BY <2>2, <2>3, ReadRemembers
  <2>5. HitsTrue(y, since'[q]) /\ ShotTrue(y, since'[q])
    BY <1>2, <2>2, <2>3, <2>4 DEF HitsTrue, ShotTrue
  <2> QED BY <2>2, <2>3, <2>5, ReadKeeps
<1>7. CASE Admit(q)
  <2>1. PICK y : y = [x EXCEPT !.at = "done", !.hits = x.hits \cap AdmittedTo(x.who)]
    OBVIOUS
  <2>2. Reads(q, y) /\ x.at = "checked"
    BY <1>1, <1>7, <2>1 DEF Admit, Concludes
  <2>3. DOMAIN y = ReaderFields /\ y.at = "done" /\ y.kind = x.kind /\ y.who = x.who
        /\ y.shot = x.shot /\ y.scope = x.scope /\ y.hits = x.hits \cap AdmittedTo(x.who)
    BY <1>2, <2>1 DEF ReaderFields
  <2>4. x.kind = "context" /\ x.who \in Deployment /\ x.who # None /\ x.shot = None
    BY <1>2, <2>2, AccessAssumption DEF HitsTrue, ShotTrue
  <2>5. Grows(since[q], since'[q]) /\ AdmittedTo(x.who) \subseteq since'[q].admitted
    BY <1>1, <2>2, <2>3, <2>4, ReadRemembers
  <2>6. HitsTrue(y, since'[q]) /\ ShotTrue(y, since'[q])
    BY <1>2, <2>2, <2>3, <2>4, <2>5 DEF HitsTrue, ShotTrue, Grows
  <2> QED BY <2>2, <2>3, <2>6, ReadKeeps
<1>8. CASE QueryFails(q)
  <2>1. PICK y : y = [x EXCEPT !.at = "done", !.hits = {}]
    OBVIOUS
  <2>2. Reads(q, y) /\ x.at \in {"start", "candidates", "query", "found", "checked"}
    BY <1>1, <1>8, <2>1 DEF QueryFails, Concludes
  <2>3. DOMAIN y = ReaderFields /\ y.at = "done" /\ y.kind = x.kind /\ y.who = x.who
        /\ y.shot = x.shot /\ y.hits = {}
    BY <1>2, <2>1 DEF ReaderFields
  <2>4. HitsTrue(y, since'[q]) /\ ShotTrue(y, since'[q])
    BY <1>2, <2>2, <2>3 DEF HitsTrue, ShotTrue
  <2> QED BY <2>2, <2>3, <2>4, ReadKeeps
<1> QED BY <1>3, <1>4, <1>5, <1>6, <1>7, <1>8

\* A resolver: every Corpus is looked at again before one of its pictures is told.
LEMMA ResolverKeeps ==
  ASSUME AccessInv, Remember, NEW q \in Reader,
         (\E c \in Corpus : ConsiderCorpus(q, c)) \/ Compare(q) \/ Unresolved(q) \/ Leave(q)
  PROVE  AccessInv'
<1>1. PICK x : x = reader[q]
  OBVIOUS
<1>2. DOMAIN x = ReaderFields /\ HitsTrue(x, since[q]) /\ ShotTrue(x, since[q])
  BY <1>1 DEF AccessInv, AccessShaped, ReadersTrue
<1>3. CASE \E c \in Corpus : ConsiderCorpus(q, c)
  <2>0. PICK c \in Corpus : ConsiderCorpus(q, c)
    BY <1>3
  <2>1. PICK g \in (IF Admitted(x.who, c) THEN Pictures(q, c) ELSE {}) \cup {None} :
          /\ x.at = "listed" /\ c \in x.allowed
          /\ Reads(q, [x EXCEPT !.allowed = @ \ {c}, !.shot = g,
                         !.at = IF g = None THEN "listed"
                                ELSE IF x.kind = "visual" THEN "done" ELSE "comparing"])
    BY <1>1, <2>0 DEF ConsiderCorpus
  <2>2. PICK y : y = [x EXCEPT !.allowed = @ \ {c}, !.shot = g,
                         !.at = IF g = None THEN "listed"
                                ELSE IF x.kind = "visual" THEN "done" ELSE "comparing"]
    OBVIOUS
  <2>3. Reads(q, y)
    BY <2>1, <2>2
  <2>4. DOMAIN y = ReaderFields /\ y.kind = x.kind /\ y.who = x.who /\ y.shot = g
        /\ y.scope = x.scope /\ y.hits = x.hits /\ y.allowed = x.allowed \ {c}
        /\ y.at = (IF g = None THEN "listed" ELSE IF x.kind = "visual" THEN "done" ELSE "comparing")
    BY <1>2, <2>2 DEF ReaderFields
  <2>5. x.who \in Deployment /\ x.who # None /\ x.allowed \subseteq since[q].effective /\ x.hits = {}
    BY <1>2, <2>1, AccessAssumption DEF ShotTrue, HitsTrue
  <2>6. /\ Grows(since[q], since'[q]) /\ AdmittedTo(x.who) \subseteq since'[q].admitted
        /\ ActivePictures \subseteq since'[q].approved
    BY <1>1, <2>1, <2>3, <2>4, <2>5, ReadRemembers
  <2>7. c \in since'[q].effective
    BY <2>1, <2>5, <2>6 DEF Grows
  <2>8. g # None => /\ g \in Picture \cap since'[q].approved /\ picture[g].corpus = c
                    /\ c \in since'[q].admitted /\ picture[g] # NoPicture
                    /\ x.kind = "pairwise" => g \in Fictional
    <3> SUFFICES ASSUME g # None
                 PROVE  /\ g \in Picture \cap since'[q].approved /\ picture[g].corpus = c
                        /\ c \in since'[q].admitted /\ picture[g] # NoPicture
                        /\ x.kind = "pairwise" => g \in Fictional
      OBVIOUS
    <3>1. Admitted(x.who, c) /\ g \in Pictures(q, c)
      BY <2>1
    <3>2. g \in ActivePictures /\ picture[g].corpus = c /\ (x.kind = "pairwise" => g \in Fictional)
      BY <1>1, <3>1 DEF Pictures
    <3>3. g \in Picture /\ picture[g].status = "active"
      BY <3>2 DEF ActivePictures
    <3>4. picture[g] # NoPicture
      BY <3>3 DEF NoPicture
    <3>5. c \in since'[q].admitted
      BY <2>1, <2>6, <3>1 DEF AdmittedTo
    <3> QED BY <2>6, <3>2, <3>3, <3>4, <3>5
  <2>9. HitsTrue(y, since'[q])
    BY <1>2, <2>1, <2>4, <2>5 DEF HitsTrue
  <2>10. ShotTrue(y, since'[q])
    BY <2>4, <2>5, <2>6, <2>7, <2>8 DEF ShotTrue, Grows
  <2> QED BY <2>3, <2>4, <2>9, <2>10, ReadKeeps
<1>4. CASE Compare(q)
  <2>1. x.at = "comparing"
    BY <1>1, <1>4 DEF Compare
  <2>2. CASE Reads(q, [x EXCEPT !.at = "done"])
    <3>1. PICK y : y = [x EXCEPT !.at = "done"]
      OBVIOUS
    <3>2. Reads(q, y) /\ DOMAIN y = ReaderFields /\ y.at = "done" /\ y.kind = x.kind
          /\ y.who = x.who /\ y.shot = x.shot /\ y.hits = x.hits
      BY <1>2, <2>2, <3>1 DEF ReaderFields
    <3>3. Grows(since[q], since'[q])
      BY <1>1, <2>1, <3>2, ReadRemembers
    <3>4. HitsTrue(y, since'[q])
      BY <1>2, <2>1, <3>2 DEF HitsTrue
    <3>5. ShotTrue(y, since'[q])
      BY <1>2, <2>1, <3>2, <3>3 DEF ShotTrue, Grows
    <3> QED BY <3>2, <3>4, <3>5, ReadKeeps
  <2>3. CASE Reads(q, [x EXCEPT !.at = "listed", !.shot = None])
    <3>1. PICK y : y = [x EXCEPT !.at = "listed", !.shot = None]
      OBVIOUS
    <3>2. Reads(q, y) /\ DOMAIN y = ReaderFields /\ y.at = "listed" /\ y.kind = x.kind
          /\ y.who = x.who /\ y.shot = None /\ y.hits = x.hits /\ y.allowed = x.allowed
      BY <1>2, <2>3, <3>1 DEF ReaderFields
    <3>3. Grows(since[q], since'[q])
      BY <1>1, <2>1, <3>2, ReadRemembers
    <3>4. HitsTrue(y, since'[q]) /\ ShotTrue(y, since'[q])
      BY <1>2, <2>1, <3>2, <3>3 DEF HitsTrue, ShotTrue, Grows
    <3> QED BY <3>2, <3>4, ReadKeeps
  <2> QED BY <1>1, <1>4, <2>2, <2>3 DEF Compare
<1>5. CASE Unresolved(q)
  <2>1. PICK y : y = [x EXCEPT !.at = "done", !.hits = {}]
    OBVIOUS
  <2>2. Reads(q, y) /\ x.at = "listed"
    BY <1>1, <1>5, <2>1 DEF Unresolved, Concludes
  <2>3. DOMAIN y = ReaderFields /\ y.at = "done" /\ y.kind = x.kind /\ y.who = x.who
        /\ y.shot = x.shot /\ y.hits = {}
    BY <1>2, <2>1 DEF ReaderFields
  <2>4. Grows(since[q], since'[q])
    BY <1>1, <2>2, <2>3, ReadRemembers
  <2>5. HitsTrue(y, since'[q]) /\ ShotTrue(y, since'[q])
    BY <1>2, <2>2, <2>3, <2>4 DEF HitsTrue, ShotTrue, Grows
  <2> QED BY <2>2, <2>3, <2>5, ReadKeeps
<1>6. CASE Leave(q)
  <2>1. Reads(q, IdleReader) /\ DOMAIN IdleReader = ReaderFields
    BY <1>6 DEF Leave, IdleReader, ReaderFields
  <2>2. HitsTrue(IdleReader, since'[q]) /\ ShotTrue(IdleReader, since'[q])
    BY DEF HitsTrue, ShotTrue, IdleReader
  <2> QED BY <2>1, <2>2, ReadKeeps
<1> QED BY <1>3, <1>4, <1>5, <1>6
\* A step of administration: readers rest.
LEMMA WriteKeeps ==
  ASSUME AccessInv, Remember, reader' = reader, PicturesKept,
         feed' = [f \in Feed |-> feed'[f]],
         \A f \in Feed : DOMAIN feed'[f] = {"corpus", "renders", "hosts"},
         picture' = [g \in Picture |-> picture'[g]],
         \A g \in Picture : DOMAIN picture'[g] = {"corpus", "status", "compare"},
         observed' = [f \in Feed |-> observed'[f]],
         request' = [r \in Request |-> request'[r]],
         \A r \in Request : DOMAIN request'[r] = RequestFields,
         RequestsTrue', HostsObserved'
  PROVE  AccessInv'
<1>1. \A q \in Reader : HitsTrue(reader[q], since[q])' /\ ShotTrue(reader[q], since[q])'
  BY ReaderRests
<1>2. since' = [q \in Reader |-> since'[q]] /\ \A q \in Reader : IsHistory(since'[q])
  BY Remembered DEF AccessInv, Remember
<1>3. AccessShaped'
  BY <1>2 DEF AccessInv, AccessShaped, IsHistory
<1> QED BY <1>1, <1>3 DEF AccessInv, ReadersTrue

LEMMA PicturesStay == ASSUME picture' = picture PROVE PicturesKept
  BY DEF PicturesKept

\* Rows that neither a renderer nor a picture is read from.
LEMMA FabricKeeps ==
  ASSUME AccessInv, Remember, UNCHANGED <<reader, feed, picture, observed, request>>
  PROVE  AccessInv'
<1>1. RequestsTrue' /\ HostsObserved'
  BY DEF AccessInv, RequestsTrue, AnalysisTrue, HostsObserved
<1> QED BY <1>1, PicturesStay, WriteKeeps DEF AccessInv, AccessShaped

\* A request moves on or ends and leaves feeds and pictures alone.
LEMMA RequestKeeps ==
  ASSUME AccessInv, Remember, UNCHANGED <<reader, feed, picture, observed>>,
         NEW r \in Request, NEW y, request' = [request EXCEPT ![r] = y],
         DOMAIN y = RequestFields, AnalysisTrue(y)
  PROVE  AccessInv'
<1>1. request' = [k \in Request |-> request'[k]] /\ request'[r] = y
      /\ \A k \in Request \ {r} : request'[k] = request[k]
  BY DEF AccessInv, AccessShaped
<1>2. RequestsTrue' /\ HostsObserved'
  BY <1>1 DEF AccessInv, RequestsTrue, AnalysisTrue, HostsObserved
<1> QED BY <1>1, <1>2, PicturesStay, WriteKeeps DEF AccessInv, AccessShaped

LEMMA IdleIs == DOMAIN IdleRequest = RequestFields /\ IdleRequest.at = "idle" /\ AnalysisTrue(IdleRequest)
  BY DEF IdleRequest, RequestFields, AnalysisTrue

LEMMA AnswerKeeps ==
  ASSUME AccessInv, Remember, UNCHANGED <<reader, feed, picture, observed>>,
         NEW r \in Request, Answer(r)
  PROVE  AccessInv'
  BY IdleIs, RequestKeeps DEF Answer

LEMMA SuperAdminKeeps ==
  ASSUME AccessInv, Remember, SuperAdmin
  PROVE  AccessInv'
<1>1. UNCHANGED <<reader, feed, picture, observed, request>>
  BY DEF SuperAdmin, EnsureScope, AddAdministrator, RemoveAdministrator, DeleteOwner,
         RemoveAdministrators, CreateGlobalCorpus, CreateCorpus, MoveDeployment, library
<1> QED BY <1>1, FabricKeeps


LEMMA LooksKeep ==
  ASSUME AccessInv, Remember, NEW r \in Request,
         \/ \E a \in Account \cup {None}, s \in ScopeId : AuthorizeActor(r, a, s)
         \/ FindCorpus(r) \/ CheckAvailable(r) \/ Refuse(r)
         \/ \E f \in Feed, hosts \in SUBSET Host : ReadFeed(r, f, hosts)
         \/ ReadAll(r)
  PROVE  AccessInv'
<1>1. PICK x : x = request[r]
  OBVIOUS
<1>2. DOMAIN x = RequestFields
  BY <1>1 DEF AccessInv, AccessShaped
<1>3. UNCHANGED <<reader, feed, picture, observed>>
  BY DEF AuthorizeActor, FindCorpus, CheckAvailable, Refuse, ReadFeed, ReadAll, library
<1>4. CASE \E a \in Account \cup {None}, s \in ScopeId : AuthorizeActor(r, a, s)
  <2>1. PICK s \in ScopeId :
          request' = [request EXCEPT ![r] = [IdleRequest EXCEPT !.at = "scoped", !.scope = s]]
    BY <1>4 DEF AuthorizeActor
  <2>2. PICK y : y = [IdleRequest EXCEPT !.at = "scoped", !.scope = s]
    OBVIOUS
  <2>3. DOMAIN y = RequestFields /\ AnalysisTrue(y)
    BY <2>2, IdleIs DEF AnalysisTrue, RequestFields
  <2> QED BY <1>3, <2>1, <2>2, <2>3, RequestKeeps
<1>5. CASE FindCorpus(r)
  <2>1. PICK c \in LiveCorpus : request' = [request EXCEPT ![r].at = "ready", ![r].corpus = c]
    BY <1>5 DEF FindCorpus
  <2>2. PICK y : y = [x EXCEPT !.at = "ready", !.corpus = c]
    OBVIOUS
  <2>3. request' = [request EXCEPT ![r] = y]
    BY <1>1, <2>1, <2>2 DEF AccessInv, AccessShaped
  <2>4. DOMAIN y = RequestFields /\ AnalysisTrue(y)
    BY <1>2, <2>2 DEF AnalysisTrue, RequestFields
  <2> QED BY <1>3, <2>3, <2>4, RequestKeeps
<1>6. CASE CheckAvailable(r)
  <2>1. PICK c \in Corpus : request' = [request EXCEPT ![r].at = "available", ![r].corpus = c]
    BY <1>6 DEF CheckAvailable
  <2>2. PICK y : y = [x EXCEPT !.at = "available", !.corpus = c]
    OBVIOUS
  <2>3. request' = [request EXCEPT ![r] = y]
    BY <1>1, <2>1, <2>2 DEF AccessInv, AccessShaped
  <2>4. DOMAIN y = RequestFields /\ AnalysisTrue(y)
    BY <1>2, <2>2 DEF AnalysisTrue, RequestFields
  <2> QED BY <1>3, <2>3, <2>4, RequestKeeps
<1>7. CASE Refuse(r)
  BY <1>3, <1>7, AnswerKeeps DEF Refuse
<1>8. CASE \E f \in Feed, hosts \in SUBSET Host : ReadFeed(r, f, hosts)
  <2>1. PICK f \in Feed, hosts \in SUBSET Host : ReadFeed(r, f, hosts)
    BY <1>8
  <2>2. PICK y : y = [IdleRequest EXCEPT !.at = "profile", !.feed = f, !.hosts = hosts]
    OBVIOUS
  <2>3. request' = [request EXCEPT ![r] = y] /\ feed[f].corpus \in GlobalCorpus
    BY <2>1, <2>2 DEF ReadFeed
  <2>4. f \in Feed /\ feed[f].corpus # None
    BY <2>1, <2>3, AccessAssumption DEF GlobalCorpus
  <2>5. DOMAIN y = RequestFields /\ y.at = "profile" /\ y.feed = f
    BY <2>2, IdleIs DEF RequestFields
  <2>6. AnalysisTrue(y)
    BY <2>4, <2>5 DEF AnalysisTrue
  <2> QED BY <1>3, <2>3, <2>5, <2>6, RequestKeeps
<1>9. CASE ReadAll(r)
  <2>1. PICK y : y = [IdleRequest EXCEPT !.at = "reset", !.corpora = LiveCorpus, !.feeds = Sources]
    OBVIOUS
  <2>2. request' = [request EXCEPT ![r] = y]
    BY <1>9, <2>1 DEF ReadAll
  <2>3. DOMAIN y = RequestFields /\ AnalysisTrue(y)
    BY <2>1, IdleIs DEF AnalysisTrue, RequestFields
  <2> QED BY <1>3, <2>2, <2>3, RequestKeeps
<1> QED BY <1>4, <1>5, <1>6, <1>7, <1>8, <1>9

\* The analysis adds what it saw; others that asked about the Source keep what they have.
LEMMA AnalyzeKeeps ==
  ASSUME AccessInv, Remember, NEW r \in Request, Analyze(r)
  PROVE  AccessInv'
<1>1. PICK x : x = request[r]
  OBVIOUS
<1>2. PICK f : f = x.feed
  OBVIOUS
<1>3. DOMAIN x = RequestFields /\ AnalysisTrue(x) /\ x.at = "profile"
  BY <1>1 DEF AccessInv, AccessShaped, RequestsTrue, Analyze
<1>4. f \in Feed /\ feed[f].corpus # None
  BY <1>2, <1>3 DEF AnalysisTrue
<1>5. PICK seen \in SUBSET Host :
        /\ observed' = [observed EXCEPT ![f] = @ \cup seen]
        /\ request' = [request EXCEPT ![r] = IF x.hosts \subseteq seen
                                             THEN [x EXCEPT !.at = "analysed"] ELSE IdleRequest]
        /\ UNCHANGED <<feed, picture, reader>>
  BY <1>1, <1>2 DEF Analyze, AccessInv, AccessShaped
<1>6. observed' = [e \in Feed |-> observed'[e]] /\ \A e \in Feed : observed[e] \subseteq observed'[e]
      /\ observed'[f] = observed[f] \cup seen
  BY <1>4, <1>5 DEF AccessInv, AccessShaped
<1>7. PICK y : y = IF x.hosts \subseteq seen THEN [x EXCEPT !.at = "analysed"] ELSE IdleRequest
  OBVIOUS
<1>8. request' = [k \in Request |-> request'[k]] /\ request'[r] = y
      /\ \A k \in Request \ {r} : request'[k] = request[k]
  BY <1>5, <1>7 DEF AccessInv, AccessShaped
<1>9. DOMAIN y = RequestFields /\ AnalysisTrue(y)'
  <2>1. CASE x.hosts \subseteq seen
    <3>1. DOMAIN y = RequestFields /\ y.at = "analysed" /\ y.feed = f /\ y.hosts = x.hosts
      BY <1>2, <1>3, <1>7, <2>1 DEF RequestFields
    <3> QED BY <1>4, <1>5, <1>6, <2>1, <3>1 DEF AnalysisTrue
  <2>2. CASE ~(x.hosts \subseteq seen)
    BY <1>7, <2>2, IdleIs DEF AnalysisTrue
  <2> QED BY <2>1, <2>2
<1>10. ASSUME NEW k \in Request PROVE AnalysisTrue(request[k])'
  <2>1. CASE k = r
    BY <1>8, <1>9, <2>1 DEF AnalysisTrue
  <2>2. CASE k # r
    BY <1>5, <1>6, <1>8, <2>2 DEF AnalysisTrue, AccessInv, RequestsTrue
  <2> QED BY <2>1, <2>2
<1>11. RequestsTrue' /\ HostsObserved'
  BY <1>5, <1>6, <1>10 DEF RequestsTrue, HostsObserved, AccessInv
<1> QED BY <1>5, <1>6, <1>8, <1>9, <1>11, PicturesStay, WriteKeeps DEF AccessInv, AccessShaped
LEMMA TableWritesKeep ==
  ASSUME AccessInv, Remember, NEW r \in Request,
         \/ \E on \in BOOLEAN : SetGrant(r, on)
         \/ \E mode \in {"inherit", "deny"} : SetOverlay(r, mode)
         \/ \E d \in Deployment, effect \in {"allow", "deny"} : SetCharacterPolicy(r, d, effect)
         \/ \E c \in Corpus : CreateLocalCorpus(r, c)
  PROVE  AccessInv'
<1>1. UNCHANGED <<reader, feed, picture, observed>> /\ Answer(r)
  BY DEF SetGrant, SetOverlay, SetCharacterPolicy, CreateLocalCorpus, CreateCorpus, library
<1> QED BY <1>1, AnswerKeeps

\* A write of one feed, by the request that ends with it.
LEMMA FeedKeeps ==
  ASSUME AccessInv, Remember, UNCHANGED <<reader, picture, observed>>,
         NEW r \in Request, Answer(r), NEW f \in Feed, NEW y, feed' = [feed EXCEPT ![f] = y],
         DOMAIN y = {"corpus", "renders", "hosts"}, feed[f] # GoneFeed, y.corpus # None,
         y.renders => y.hosts \subseteq observed[f]
  PROVE  AccessInv'
<1>1. feed' = [e \in Feed |-> feed'[e]] /\ feed'[f] = y /\ \A e \in Feed \ {f} : feed'[e] = feed[e]
  BY DEF AccessInv, AccessShaped
<1>2. request' = [k \in Request |-> request'[k]] /\ request'[r] = IdleRequest
      /\ \A k \in Request \ {r} : request'[k] = request[k]
  BY DEF Answer, AccessInv, AccessShaped
<1>3. ASSUME NEW k \in Request PROVE AnalysisTrue(request[k])'
  <2>1. CASE k = r
    BY <1>2, <2>1, IdleIs DEF AnalysisTrue
  <2>2. CASE k # r
    BY <1>1, <1>2, <2>2 DEF AnalysisTrue, AccessInv, RequestsTrue
  <2> QED BY <2>1, <2>2
<1>4. RequestsTrue' /\ HostsObserved'
  BY <1>1, <1>3 DEF RequestsTrue, HostsObserved, AccessInv
<1>5. \A e \in Feed : DOMAIN feed'[e] = {"corpus", "renders", "hosts"}
  BY <1>1 DEF AccessInv, AccessShaped
<1>6. \A k \in Request : DOMAIN request'[k] = RequestFields
  BY <1>2, IdleIs DEF AccessInv, AccessShaped
<1> QED BY <1>1, <1>2, <1>4, <1>5, <1>6, PicturesStay, WriteKeeps DEF AccessInv, AccessShaped

LEMMA CreateFeedKeeps ==
  ASSUME AccessInv, Remember, NEW r \in Request, NEW f \in Feed, CreateFeed(r, f)
  PROVE  AccessInv'
<1>1. PICK c : c = request[r].corpus
  OBVIOUS
<1>2. /\ feed' = [feed EXCEPT ![f].corpus = c] /\ c \in Corpus /\ feed[f] = NoFeed
      /\ UNCHANGED <<reader, picture, observed>> /\ Answer(r)
  BY <1>1 DEF CreateFeed, SourceRow, LiveCorpus
<1>3. PICK y : y = [NoFeed EXCEPT !.corpus = c]
  OBVIOUS
<1>4. feed' = [feed EXCEPT ![f] = y]
  BY <1>2, <1>3 DEF AccessInv, AccessShaped
<1>5. DOMAIN y = {"corpus", "renders", "hosts"} /\ y.corpus = c /\ ~y.renders
  BY <1>3 DEF NoFeed
<1>6. feed[f] # GoneFeed /\ y.corpus # None
  <2>1. NoFeed.corpus = None /\ GoneFeed.corpus = "deleted"
    BY DEF NoFeed, GoneFeed
  <2> QED BY <1>2, <1>5, <2>1, AccessAssumption
<1> QED BY <1>2, <1>4, <1>5, <1>6, FeedKeeps

LEMMA SaveProfileKeeps ==
  ASSUME AccessInv, Remember, NEW r \in Request, NEW on \in BOOLEAN, SaveProfile(r, on)
  PROVE  AccessInv'
<1>1. PICK x : x = request[r]
  OBVIOUS
<1>2. PICK f : f = x.feed
  OBVIOUS
<1>3. /\ x.at = (IF on THEN "analysed" ELSE "profile") /\ f \in Sources
      /\ feed' = [feed EXCEPT ![f].renders = on, ![f].hosts = IF on THEN x.hosts ELSE {}]
      /\ UNCHANGED <<reader, picture, observed>> /\ Answer(r)
  BY <1>1, <1>2 DEF SaveProfile, ProfileRow
<1>4. AnalysisTrue(x) /\ f \in Feed /\ feed[f] # GoneFeed
  BY <1>1, <1>3 DEF AccessInv, RequestsTrue, Sources
<1>5. PICK w : w = feed[f]
  OBVIOUS
<1>6. PICK y : y = [w EXCEPT !.renders = on, !.hosts = IF on THEN x.hosts ELSE {}]
  OBVIOUS
<1>7. DOMAIN w = {"corpus", "renders", "hosts"}
  BY <1>4, <1>5 DEF AccessInv, AccessShaped
<1>8. feed' = [feed EXCEPT ![f] = y]
  BY <1>3, <1>4, <1>5, <1>6, <1>7 DEF AccessInv, AccessShaped
<1>9. DOMAIN y = {"corpus", "renders", "hosts"} /\ y.renders = on /\ y.corpus = w.corpus
      /\ y.hosts = (IF on THEN x.hosts ELSE {})
  BY <1>6, <1>7
<1>10. y.renders => y.hosts \subseteq observed[f]
  BY <1>2, <1>3, <1>4, <1>9 DEF AnalysisTrue
<1>11. y.corpus # None
  BY <1>2, <1>3, <1>4, <1>5, <1>9 DEF AnalysisTrue
<1> QED BY <1>3, <1>4, <1>8, <1>9, <1>10, <1>11, FeedKeeps

\* A write of the pictures, by the request that ends with it.
LEMMA PictureKeeps ==
  ASSUME AccessInv, Remember, UNCHANGED <<reader, feed, observed>>,
         NEW r \in Request, Answer(r), PicturesKept,
         picture' = [g \in Picture |-> picture'[g]],
         \A g \in Picture : DOMAIN picture'[g] = {"corpus", "status", "compare"}
  PROVE  AccessInv'
<1>1. request' = [k \in Request |-> request'[k]] /\ request'[r] = IdleRequest
      /\ \A k \in Request \ {r} : request'[k] = request[k]
  BY DEF Answer, AccessInv, AccessShaped
<1>2. RequestsTrue' /\ HostsObserved'
  BY <1>1, IdleIs DEF AccessInv, RequestsTrue, AnalysisTrue, HostsObserved
<1>3. \A k \in Request : DOMAIN request'[k] = RequestFields
  BY <1>1, IdleIs DEF AccessInv, AccessShaped
<1> QED BY <1>1, <1>2, <1>3, WriteKeeps DEF AccessInv, AccessShaped

LEMMA ApprovePictureKeeps ==
  ASSUME AccessInv, Remember, NEW r \in Request, NEW g \in Picture, NEW compare \in BOOLEAN,
         ApprovePicture(r, g, compare)
  PROVE  AccessInv'
<1>1. PICK c : c = request[r].corpus
  OBVIOUS
<1>2. c \in Corpus /\ picture' = PictureRow(g, c, compare)
      /\ UNCHANGED <<reader, feed, observed>> /\ Answer(r)
  BY <1>1 DEF ApprovePicture, LiveCorpus
<1>3. CASE picture[g] = NoPicture
  <2>1. PICK y : y = [corpus |-> c, status |-> "active", compare |-> compare]
    OBVIOUS
  <2>2. picture' = [picture EXCEPT ![g] = y]
    BY <1>2, <1>3, <2>1 DEF PictureRow
  <2>3. DOMAIN y = {"corpus", "status", "compare"} /\ y.status = "active"
    BY <2>1
  <2>4. picture' = [k \in Picture |-> picture'[k]] /\ picture'[g] = y
        /\ \A k \in Picture \ {g} : picture'[k] = picture[k]
    BY <2>2 DEF AccessInv, AccessShaped
  <2>5. PicturesKept
    BY <1>3, <2>4 DEF PicturesKept
  <2>6. \A k \in Picture : DOMAIN picture'[k] = {"corpus", "status", "compare"}
    BY <2>3, <2>4 DEF AccessInv, AccessShaped
  <2> QED BY <1>2, <2>4, <2>5, <2>6, PictureKeeps
<1>4. CASE picture[g] # NoPicture
  <2>1. picture' = picture
    BY <1>2, <1>4 DEF PictureRow
  <2> QED BY <1>2, <2>1, PicturesStay, AnswerKeeps
<1> QED BY <1>3, <1>4

LEMMA RevokePictureKeeps ==
  ASSUME AccessInv, Remember, NEW r \in Request, NEW g \in Picture, RevokePicture(r, g)
  PROVE  AccessInv'
<1>1. PICK w : w = picture[g]
  OBVIOUS
<1>2. PICK y : y = [w EXCEPT !.status = "revoked"]
  OBVIOUS
<1>3. DOMAIN w = {"corpus", "status", "compare"}
  BY <1>1 DEF AccessInv, AccessShaped
<1>4. picture' = [picture EXCEPT ![g] = y] /\ UNCHANGED <<reader, feed, observed>> /\ Answer(r)
  BY <1>1, <1>2, <1>3 DEF RevokePicture, RevokedRow, AccessInv, AccessShaped
<1>5. DOMAIN y = {"corpus", "status", "compare"} /\ y.status = "revoked" /\ y.corpus = w.corpus
  BY <1>2, <1>3
<1>6. y # NoPicture
  BY <1>5 DEF NoPicture
<1>7. picture' = [k \in Picture |-> picture'[k]] /\ picture'[g] = y
      /\ \A k \in Picture \ {g} : picture'[k] = picture[k]
  BY <1>4 DEF AccessInv, AccessShaped
<1>8. PicturesKept
  BY <1>1, <1>5, <1>6, <1>7 DEF PicturesKept
<1>9. \A k \in Picture : DOMAIN picture'[k] = {"corpus", "status", "compare"}
  BY <1>5, <1>7 DEF AccessInv, AccessShaped
<1> QED BY <1>4, <1>7, <1>8, <1>9, PictureKeeps

\* A reset leaves of a Source and of a picture that they are gone.
LEMMA GoneIs ==
  /\ DOMAIN GoneFeed = {"corpus", "renders", "hosts"} /\ ~GoneFeed.renders /\ GoneFeed.corpus # None
  /\ DOMAIN GonePicture = {"corpus", "status", "compare"} /\ GonePicture # NoPicture
  /\ GonePicture.corpus = None
<1>1. GoneFeed.corpus = "deleted"
      /\ DOMAIN GoneFeed = {"corpus", "renders", "hosts"} /\ ~GoneFeed.renders
  BY DEF GoneFeed, NoFeed
<1>2. GonePicture.status = "deleted" /\ NoPicture.status = "absent" /\ GonePicture.corpus = None
      /\ DOMAIN GonePicture = {"corpus", "status", "compare"}
  BY DEF GonePicture, NoPicture
<1> QED BY <1>1, <1>2, AccessAssumption

LEMMA DeleteAllKeeps ==
  ASSUME AccessInv, Remember, NEW r \in Request, DeleteAll(r)
  PROVE  AccessInv'
<1>1. PICK fs : fs = request[r].feeds
  OBVIOUS
<1>2. PICK gone : gone = request[r].corpora
  OBVIOUS
<1>3. /\ feed' = [f \in Feed |-> IF f \in fs THEN GoneFeed ELSE feed[f]]
      /\ picture' = [g \in Picture |-> IF picture[g].corpus \in gone THEN GonePicture ELSE picture[g]]
      /\ observed' = [f \in Feed |-> IF f \in fs THEN {} ELSE observed[f]]
      /\ reader' = reader /\ Answer(r)
  BY <1>1, <1>2 DEF DeleteAll
<1>4. PicturesKept
  BY <1>3, GoneIs DEF PicturesKept
<1>5. request' = [k \in Request |-> request'[k]] /\ request'[r] = IdleRequest
      /\ \A k \in Request \ {r} : request'[k] = request[k]
  BY <1>3 DEF Answer, AccessInv, AccessShaped
<1>6. ASSUME NEW k \in Request PROVE AnalysisTrue(request[k])'
  <2>1. CASE k = r
    BY <1>5, <2>1, IdleIs DEF AnalysisTrue
  <2>2. CASE k # r
    <3>1. request'[k] = request[k] /\ AnalysisTrue(request[k])
      BY <1>5, <2>2 DEF AccessInv, RequestsTrue
    <3> QED BY <1>3, <3>1, GoneIs DEF AnalysisTrue
  <2> QED BY <2>1, <2>2
<1>7. HostsObserved'
  BY <1>3, GoneIs DEF HostsObserved, AccessInv
<1>8. \A f \in Feed : DOMAIN feed'[f] = {"corpus", "renders", "hosts"}
  BY <1>3, GoneIs DEF AccessInv, AccessShaped
<1>9. \A g \in Picture : DOMAIN picture'[g] = {"corpus", "status", "compare"}
  BY <1>3, GoneIs DEF AccessInv, AccessShaped
<1>10. \A k \in Request : DOMAIN request'[k] = RequestFields
  BY <1>5, IdleIs DEF AccessInv, AccessShaped
<1>11. /\ feed' = [f \in Feed |-> feed'[f]] /\ picture' = [g \in Picture |-> picture'[g]]
       /\ observed' = [f \in Feed |-> observed'[f]]
  BY <1>3
<1>12. RequestsTrue'
  BY <1>6 DEF RequestsTrue
<1> QED BY <1>3, <1>4, <1>5, <1>7, <1>8, <1>9, <1>10, <1>11, <1>12, WriteKeeps

LEMMA AdministrateKeeps ==
  ASSUME AccessInv, Remember, NEW r \in Request, Administrate(r)
  PROVE  AccessInv'
<1>1. CASE Writes(r)
  BY <1>1, TableWritesKeep, SaveProfileKeeps, CreateFeedKeeps, RevokePictureKeeps,
     ApprovePictureKeeps, DeleteAllKeeps DEF Writes
<1>2. CASE Analyze(r)
  BY <1>2, AnalyzeKeeps
<1>3. CASE \/ \E a \in Account \cup {None}, s \in ScopeId : AuthorizeActor(r, a, s)
           \/ FindCorpus(r) \/ CheckAvailable(r) \/ Refuse(r)
           \/ \E f \in Feed, hosts \in SUBSET Host : ReadFeed(r, f, hosts)
           \/ ReadAll(r)
  BY <1>3, LooksKeep
<1> QED BY <1>1, <1>2, <1>3 DEF Administrate

LEMMA ReadStepKeeps ==
  ASSUME AccessInv, Remember, NEW q \in Reader, ReadStep(q)
  PROVE  AccessInv'
<1>1. CASE \/ \E d \in Deployment : StartContext(q, d) \/ \E k \in {"visual", "pairwise"} : StartVisual(q, d, k)
           \/ \E a \in Account \cup {None}, s \in ScopeId : StartInspector(q, a, s)
  BY <1>1, StartsKeep
<1>2. CASE \/ SelectCandidates(q) \/ AuthorizeQuery(q) \/ RetrieveChannels(q)
           \/ Recheck(q) \/ Admit(q) \/ QueryFails(q)
  BY <1>2, RetrievalKeeps
<1>3. CASE (\E c \in Corpus : ConsiderCorpus(q, c)) \/ Compare(q) \/ Unresolved(q) \/ Leave(q)
  BY <1>3, ResolverKeeps
<1> QED BY <1>1, <1>2, <1>3 DEF ReadStep

LEMMA AccessBegins == AccessInit => AccessInv
<1> SUFFICES ASSUME AccessInit PROVE AccessInv
  OBVIOUS
<1>1. /\ reader = [q \in Reader |-> IdleReader] /\ since = [q \in Reader |-> NoHistory]
      /\ request = [r \in Request |-> IdleRequest] /\ feed = [f \in Feed |-> NoFeed]
      /\ picture = [g \in Picture |-> NoPicture] /\ observed = [f \in Feed |-> {}]
  BY DEF AccessInit
<1>2. /\ DOMAIN IdleReader = ReaderFields /\ IdleReader.at = "idle" /\ IdleReader.hits = {}
      /\ IdleReader.shot = None /\ IdleReader.kind = "none"
  BY DEF IdleReader, ReaderFields
<1>3. DOMAIN NoFeed = {"corpus", "renders", "hosts"} /\ ~NoFeed.renders
      /\ DOMAIN NoPicture = {"corpus", "status", "compare"}
  BY DEF NoFeed, NoPicture
<1>4. AccessShaped
  BY <1>1, <1>2, <1>3, IdleIs DEF AccessShaped, NoHistory
<1>5. ReadersTrue
  BY <1>1, <1>2 DEF ReadersTrue, HitsTrue, ShotTrue
<1>6. RequestsTrue
  BY <1>1, IdleIs DEF RequestsTrue
<1>7. HostsObserved
  BY <1>1, <1>3 DEF HostsObserved
<1> QED BY <1>4, <1>5, <1>6, <1>7 DEF AccessInv

LEMMA AccessStep == AccessInv /\ [AccessNext]_accessVars => AccessInv'
<1> SUFFICES ASSUME AccessInv, [AccessNext]_accessVars PROVE AccessInv'
  OBVIOUS
<1>1. CASE AccessNext
  BY <1>1, SuperAdminKeeps, AdministrateKeeps, ReadStepKeeps DEF AccessNext
<1>2. CASE UNCHANGED accessVars
  <2>1. UNCHANGED <<reader, since, request, feed, picture, observed>>
    BY <1>2 DEF accessVars, library
  <2>2. AccessShaped'
    BY <2>1 DEF AccessInv, AccessShaped
  <2>3. ReadersTrue'
    BY <2>1 DEF AccessInv, ReadersTrue, HitsTrue, ShotTrue
  <2>4. RequestsTrue' /\ HostsObserved'
    BY <2>1 DEF AccessInv, RequestsTrue, AnalysisTrue, HostsObserved
  <2> QED BY <2>2, <2>3, <2>4 DEF AccessInv
<1> QED BY <1>1, <1>2

LEMMA AccessShows == AccessInv => AccessAuthorized
<1> SUFFICES ASSUME AccessInv PROVE AccessAuthorized
  OBVIOUS
<1>1. ContextAuthorized
  BY DEF AccessInv, ReadersTrue, HitsTrue, ContextAuthorized
<1>2. IdentityAuthorized
  BY DEF AccessInv, ReadersTrue, ShotTrue, IdentityAuthorized
<1> QED BY <1>1, <1>2 DEF AccessAuthorized, AccessInv

\* Whatever is revoked, denied, moved, reset or approved while searches, comparisons and
\* analyses run: what leaves the fabric was allowed when it left (query, build, resolve,
\* resolve_pairwise, save_profile).
THEOREM ReadersAuthorized == AccessSpec => []AccessAuthorized
<1>1. AccessSpec => []AccessInv
  BY AccessBegins, AccessStep, PTL DEF AccessSpec
<1> QED BY <1>1, AccessShows, PTL

-----------------------------------------------------------------------------
(* Synchronisation of an external Source                                    *)

\* The fields of a run and of the schedule row.
ReplicaFields == {"at", "token", "fails", "gen", "todo", "saw", "known", "new", "hand", "result"}
ScheduleFields == {"on", "token", "lapsed", "due", "tries"}

SyncShaped ==
  /\ replica = [r \in Replica |-> replica[r]]
  /\ \A r \in Replica : DOMAIN replica[r] = ReplicaFields /\ DOMAIN replica[r].saw = Page
  /\ pageRow = [p \in Page |-> pageRow[p]]
  /\ \A p \in Page : DOMAIN pageRow[p] = {"seen", "avail", "etag"}
  /\ DOMAIN schedule = ScheduleFields
  /\ DOMAIN used = {"claims", "edits", "faults", "saves"} /\ used.claims \in Nat

\* Where a run stands says what it knows: it has a lease token, the steps of a collection are
\* not those of a page, and content is recorded only after a version of it was published.
RunTrue(x) ==
  /\ x.at \notin {"idle", "off"} => x.token # 0
  /\ x.at \in {"unmodified", "fence", "ingest"} => kind # "collection"
  /\ x.at \in {"begin", "reconcile", "page", "publish", "note", "remove"} => kind = "collection"
  /\ x.at = "record" /\ kind # "collection" => <<"page", Root, x.saw[Root]>> \in held
  /\ x.at \in {"publish", "note"} => \E p \in Page : x.hand = {p}
  /\ x.at = "note" => \A p \in x.hand : <<"page", p, x.saw[p]>> \in held

RunsTrue == \A r \in Replica : RunTrue(replica[r])
\* A disabled Source has no lease.
LeaseOn == schedule.token # 0 => schedule.on

SyncInv == SyncShaped /\ RunsTrue /\ LeaseOn /\ ValidatorTrue

LEMMA RunKept == ASSUME SyncInv, NEW r \in Replica
                 PROVE  DOMAIN replica[r] = ReplicaFields /\ DOMAIN replica[r].saw = Page /\ RunTrue(replica[r])
  BY DEF SyncInv, SyncShaped, RunsTrue

\* A run that does not concern the pages: what it knows stays true while versions are only added.
LEMMA RunMoves ==
  ASSUME SyncInv, NEW r \in Replica, NEW y, replica' = [replica EXCEPT ![r] = y],
         DOMAIN y = ReplicaFields, DOMAIN y.saw = Page, RunTrue(y)',
         held \subseteq held', kind' = kind,
         DOMAIN schedule' = ScheduleFields, LeaseOn',
         DOMAIN used' = DOMAIN used, used'.claims \in Nat,
         pageRow' = [p \in Page |-> pageRow'[p]],
         \A p \in Page : DOMAIN pageRow'[p] = {"seen", "avail", "etag"}, ValidatorTrue'
  PROVE  SyncInv'
<1>1. replica' = [q \in Replica |-> replica'[q]] /\ replica'[r] = y
      /\ \A q \in Replica \ {r} : replica'[q] = replica[q]
  BY DEF SyncInv, SyncShaped
<1>2. SyncShaped'
  BY <1>1 DEF SyncInv, SyncShaped
<1>3. ASSUME NEW q \in Replica PROVE RunTrue(replica[q])'
  <2>1. CASE q = r
    BY <1>1, <2>1 DEF RunTrue
  <2>2. CASE q # r
    BY <1>1, <2>2, RunKept DEF RunTrue
  <2> QED BY <2>1, <2>2
<1> QED BY <1>2, <1>3 DEF SyncInv, RunsTrue

\* The same, where schedule, page rows and versions stay.
LEMMA RunGoesOn ==
  ASSUME SyncInv, NEW r \in Replica, NEW y, replica' = [replica EXCEPT ![r] = y],
         DOMAIN y = ReplicaFields, DOMAIN y.saw = Page, RunTrue(y),
         UNCHANGED <<held, kind, schedule, pageRow>>,
         DOMAIN used' = DOMAIN used, used'.claims \in Nat
  PROVE  SyncInv'
<1>1. RunTrue(y)'
  BY DEF RunTrue
<1>2. LeaseOn' /\ ValidatorTrue' /\ DOMAIN schedule' = ScheduleFields
  BY DEF SyncInv, SyncShaped, LeaseOn, ValidatorTrue
<1>3. pageRow' = [p \in Page |-> pageRow'[p]] /\ \A p \in Page : DOMAIN pageRow'[p] = {"seen", "avail", "etag"}
  BY DEF SyncInv, SyncShaped
<1> QED BY <1>1, <1>2, <1>3, RunMoves

\* Nothing but the schedule, the site and the bounds moves.
LEMMA WorldMoves ==
  ASSUME SyncInv, UNCHANGED <<kind, held, pageRow, replica>>,
         DOMAIN schedule' = ScheduleFields, LeaseOn', DOMAIN used' = DOMAIN used, used'.claims \in Nat
  PROVE  SyncInv'
<1>1. SyncShaped' /\ ValidatorTrue'
  BY DEF SyncInv, SyncShaped, ValidatorTrue
<1>2. RunsTrue'
  BY DEF SyncInv, RunsTrue, RunTrue
<1> QED BY <1>1, <1>2 DEF SyncInv

LEMMA SpendIs == ASSUME SyncInv, NEW what \in {"claims", "edits", "faults", "saves"}, NEW most,
                        Spend(what, most)
                 PROVE  DOMAIN used' = DOMAIN used /\ used'.claims \in Nat
  BY DEF Spend, SyncInv, SyncShaped

\* A run that only goes on to another step, or gives its result.
LEMMA Going ==
  ASSUME SyncInv, NEW r \in Replica, NEW at, NEW result,
         Goes(r, at) \/ (at = "mark" /\ Gives(r, result))
  PROVE  \E y : /\ replica' = [replica EXCEPT ![r] = y] /\ DOMAIN y = ReplicaFields
                /\ DOMAIN y.saw = Page /\ y.at = at /\ y.token = replica[r].token
                /\ y.saw = replica[r].saw /\ y.hand = replica[r].hand
<1>1. PICK x : x = replica[r]
  OBVIOUS
<1>2. DOMAIN x = ReplicaFields /\ DOMAIN x.saw = Page
  BY <1>1, RunKept
<1>3. CASE Goes(r, at)
  <2>1. PICK y : y = [x EXCEPT !.at = at]
    OBVIOUS
  <2>2. DOMAIN y = ReplicaFields /\ y.at = at /\ y.token = x.token /\ y.saw = x.saw /\ y.hand = x.hand
    BY <1>2, <2>1 DEF ReplicaFields
  <2>3. replica' = [replica EXCEPT ![r] = y]
    BY <1>1, <1>3, <2>1 DEF Goes
  <2> QED BY <1>1, <1>2, <2>2, <2>3
<1>4. CASE at = "mark" /\ Gives(r, result)
  <2>1. PICK y : y = [x EXCEPT !.at = "mark", !.result = result]
    OBVIOUS
  <2>2. DOMAIN y = ReplicaFields /\ y.at = at /\ y.token = x.token /\ y.saw = x.saw /\ y.hand = x.hand
    BY <1>2, <1>4, <2>1 DEF ReplicaFields
  <2>3. replica' = [replica EXCEPT ![r] = y]
    BY <1>1, <1>2, <1>4, <2>1 DEF Gives, SyncInv, SyncShaped
  <2> QED BY <1>1, <1>2, <2>2, <2>3
<1> QED BY <1>3, <1>4

\* A run that gives up.
LEMMA GivesUp ==
  ASSUME SyncInv, NEW r \in Replica, replica[r].at \notin {"idle", "off"}, NEW result, Gives(r, result),
         UNCHANGED <<held, kind, schedule, pageRow>>,
         DOMAIN used' = DOMAIN used, used'.claims \in Nat
  PROVE  SyncInv'
<1>1. PICK y : /\ replica' = [replica EXCEPT ![r] = y] /\ DOMAIN y = ReplicaFields
               /\ DOMAIN y.saw = Page /\ y.at = "mark" /\ y.token = replica[r].token
  BY Going
<1>2. RunTrue(y)
  BY <1>1, RunKept DEF RunTrue
<1> QED BY <1>1, <1>2, RunGoesOn

-----------------------------------------------------------------------------
LEMMA IdleReplicaIs == /\ DOMAIN IdleReplica = ReplicaFields /\ DOMAIN IdleReplica.saw = Page
                /\ IdleReplica.at = "idle" /\ RunTrue(IdleReplica)
<1>1. DOMAIN IdleReplica = ReplicaFields /\ DOMAIN IdleReplica.saw = Page /\ IdleReplica.at = "idle"
  BY DEF IdleReplica, ReplicaFields
<1> QED BY <1>1 DEF RunTrue

LEMMA ClaimKeeps == ASSUME SyncInv, NEW r \in Replica, ClaimDue(r) PROVE SyncInv'
<1>1. PICK y : y = [IdleReplica EXCEPT !.at = "start", !.token = used.claims + 1]
  OBVIOUS
<1>2. DOMAIN y = ReplicaFields /\ DOMAIN y.saw = Page /\ y.at = "start" /\ y.token = used.claims + 1
  BY <1>1, IdleReplicaIs DEF ReplicaFields
<1>3. RunTrue(y)'
  BY <1>2 DEF RunTrue, SyncInv, SyncShaped
<1>4. DOMAIN used' = DOMAIN used /\ used'.claims \in Nat
  BY SpendIs DEF ClaimDue
<1>5. DOMAIN schedule' = ScheduleFields /\ schedule'.on
  BY DEF ClaimDue, Claimable, SyncInv, SyncShaped, ScheduleFields
<1>6. replica' = [replica EXCEPT ![r] = y] /\ UNCHANGED <<held, kind, pageRow>>
  BY <1>1 DEF ClaimDue
<1>7. ValidatorTrue' /\ LeaseOn'
  BY <1>5, <1>6 DEF SyncInv, ValidatorTrue, LeaseOn
<1> QED BY <1>2, <1>3, <1>4, <1>5, <1>6, <1>7, RunMoves DEF SyncInv, SyncShaped

LEMMA LoopKeeps ==
  ASSUME SyncInv, NEW r \in Replica, PutOff(r) \/ LoopFails(r) \/ Crash(r) \/ Restart(r) \/ MarkResult(r)
  PROVE  SyncInv'
<1>1. PICK x : x = replica[r]
  OBVIOUS
<1>2. DOMAIN x = ReplicaFields /\ DOMAIN x.saw = Page /\ RunTrue(x)
  BY <1>1, RunKept
<1>3. CASE PutOff(r)
  <2>1. DOMAIN schedule' = ScheduleFields /\ LeaseOn'
    BY <1>3 DEF PutOff, SyncInv, SyncShaped, LeaseOn, ScheduleFields
  <2> QED BY <1>3, <2>1, WorldMoves DEF PutOff, SyncInv, SyncShaped
<1>4. CASE LoopFails(r)
  <2>1. PICK at \in {"idle", "off"} : at = IF x.fails + 1 >= MaxLoopFailures THEN "off" ELSE "idle"
    OBVIOUS
  <2>2. PICK y : y = [x EXCEPT !.fails = x.fails + 1, !.at = at]
    OBVIOUS
  <2>3. DOMAIN y = ReplicaFields /\ y.at = at /\ y.saw = x.saw
    BY <1>2, <2>2 DEF ReplicaFields
  <2>4. RunTrue(y)
    BY <2>1, <2>3 DEF RunTrue
  <2>5. replica' = [replica EXCEPT ![r] = y]
    BY <1>1, <1>2, <1>4, <2>1, <2>2 DEF LoopFails, SyncInv, SyncShaped
  <2>6. DOMAIN used' = DOMAIN used /\ used'.claims \in Nat
    BY <1>4, SpendIs DEF LoopFails, SyncFault
  <2> QED BY <1>2, <1>4, <2>3, <2>4, <2>5, <2>6, RunGoesOn DEF LoopFails
<1>5. ASSUME NEW y \in {IdleReplica, [IdleReplica EXCEPT !.at = "off"]}, replica' = [replica EXCEPT ![r] = y],
             UNCHANGED <<held, kind, pageRow>>, DOMAIN schedule' = ScheduleFields, LeaseOn',
             DOMAIN used' = DOMAIN used, used'.claims \in Nat
      PROVE  SyncInv'
  <2>1. DOMAIN y = ReplicaFields /\ DOMAIN y.saw = Page /\ y.at \in {"idle", "off"}
    BY <1>5, IdleReplicaIs DEF ReplicaFields
  <2>2. RunTrue(y)'
    BY <2>1 DEF RunTrue
  <2>3. ValidatorTrue'
    BY <1>5 DEF SyncInv, ValidatorTrue
  <2> QED BY <1>5, <2>1, <2>2, <2>3, RunMoves DEF SyncInv, SyncShaped
<1>6. CASE Crash(r)
  <2>1. DOMAIN schedule' = ScheduleFields /\ LeaseOn'
    BY <1>6 DEF Crash, SyncInv, SyncShaped, LeaseOn, ScheduleFields
  <2>2. DOMAIN used' = DOMAIN used /\ used'.claims \in Nat
    BY <1>6, SpendIs DEF Crash, SyncFault
  <2> QED BY <1>5, <1>6, <2>1, <2>2 DEF Crash
<1>7. CASE Restart(r)
  <2>1. DOMAIN schedule' = ScheduleFields /\ LeaseOn'
    BY <1>7 DEF Restart, SyncInv, SyncShaped, LeaseOn, ScheduleFields
  <2> QED BY <1>5, <1>7, <2>1 DEF Restart, SyncInv, SyncShaped
<1>8. CASE MarkResult(r)
  <2>1. DOMAIN schedule' = ScheduleFields /\ LeaseOn'
    BY <1>8 DEF MarkResult, SyncInv, SyncShaped, LeaseOn, ScheduleFields
  <2> QED BY <1>5, <1>8, <2>1 DEF MarkResult, SyncInv, SyncShaped
<1> QED BY <1>3, <1>4, <1>6, <1>7, <1>8

LEMMA StartKeeps == ASSUME SyncInv, NEW r \in Replica, StartSync(r) PROVE SyncInv'
<1>1. UNCHANGED <<held, kind, schedule, pageRow, used>> /\ replica[r].at = "start"
  BY DEF StartSync
<1>2. CASE Goes(r, "fetch")
  <2>1. PICK y : /\ replica' = [replica EXCEPT ![r] = y] /\ DOMAIN y = ReplicaFields
                 /\ DOMAIN y.saw = Page /\ y.at = "fetch" /\ y.token = replica[r].token
    BY <1>2, Going
  <2>2. RunTrue(y)
    BY <1>1, <2>1, RunKept DEF RunTrue
  <2> QED BY <1>1, <2>1, <2>2, RunGoesOn DEF SyncInv, SyncShaped
<1>3. CASE Gives(r, "stale")
  BY <1>1, <1>3, GivesUp DEF SyncInv, SyncShaped
<1> QED BY <1>2, <1>3 DEF StartSync

\* record_outcome writes the validator only of content that was published.
LEMMA RecordedKeeps ==
  ASSUME SyncInv, NEW r \in Replica, NEW result, Recorded(r, result), UNCHANGED used,
         replica[r].at \notin {"idle", "off"},
         result \in {"changed", "unchanged"} /\ kind # "collection" =>
           <<"page", Root, replica[r].saw[Root]>> \in held
  PROVE  SyncInv'
<1>1. PICK res : Gives(r, res)
  BY DEF Recorded
<1>2. PICK y : /\ replica' = [replica EXCEPT ![r] = y] /\ DOMAIN y = ReplicaFields
               /\ DOMAIN y.saw = Page /\ y.at = "mark" /\ y.token = replica[r].token
  BY <1>1, Going
<1>3. RunTrue(y)'
  BY <1>2, RunKept DEF RunTrue
<1>4. UNCHANGED <<held, kind, schedule>> /\ LeaseOn'
  BY DEF Recorded, SyncInv, LeaseOn
<1>5. /\ pageRow' = [p \in Page |-> pageRow'[p]]
      /\ \A p \in Page : DOMAIN pageRow'[p] = {"seen", "avail", "etag"}
      /\ ValidatorTrue'
  <2>1. CASE pageRow' = pageRow
    BY <1>4, <2>1 DEF SyncInv, SyncShaped, ValidatorTrue
  <2>2. CASE /\ pageRow' = [pageRow EXCEPT ![Root].etag = replica[r].saw[Root]]
             /\ <<"page", Root, replica[r].saw[Root]>> \in held
    BY <1>4, <2>2 DEF SyncInv, SyncShaped, ValidatorTrue
  <2> QED BY <2>1, <2>2 DEF Recorded
<1> QED BY <1>2, <1>3, <1>4, <1>5, RunMoves DEF SyncInv, SyncShaped

LEMMA RecordKeeps ==
  ASSUME SyncInv, NEW r \in Replica, RecordUnmodified(r) \/ RecordOne(r) \/ RecordCollection(r)
  PROVE  SyncInv'
<1>1. CASE RecordUnmodified(r)
  BY <1>1, RecordedKeeps DEF RecordUnmodified
<1>2. CASE RecordOne(r)
  <2>1. <<"page", Root, replica[r].saw[Root]>> \in held
    BY <1>2, RunKept DEF RecordOne, RunTrue
  <2> QED BY <1>2, <2>1, RecordedKeeps DEF RecordOne
<1>3. CASE RecordCollection(r)
  BY <1>3, RecordedKeeps DEF RecordCollection
<1> QED BY <1>1, <1>2, <1>3

-----------------------------------------------------------------------------
(* A page, a feed                                                           *)

LEMMA FetchKeeps ==
  ASSUME SyncInv, NEW r \in Replica, FetchFails(r) \/ FetchOne(r) \/ FenceOne(r)
  PROVE  SyncInv'
<1>1. PICK x : x = replica[r]
  OBVIOUS
<1>2. DOMAIN x = ReplicaFields /\ DOMAIN x.saw = Page /\ RunTrue(x)
  BY <1>1, RunKept
<1>3. CASE FetchFails(r)
  <2>1. DOMAIN used' = DOMAIN used /\ used'.claims \in Nat
    BY <1>3, SpendIs DEF FetchFails, SyncFault
  <2> QED BY <1>3, <2>1, GivesUp DEF FetchFails
<1>4. CASE FetchOne(r)
  <2>1. PICK at \in {"unmodified", "fence"} : at = IF site[Root] = pageRow[Root].etag THEN "unmodified" ELSE "fence"
    OBVIOUS
  <2>2. PICK y : y = [x EXCEPT !.saw = [x.saw EXCEPT ![Root] = site[Root]], !.at = at]
    OBVIOUS
  <2>3. DOMAIN y = ReplicaFields /\ DOMAIN y.saw = Page /\ y.at = at /\ y.token = x.token
    BY <1>2, <2>2 DEF ReplicaFields
  <2>4. replica' = [replica EXCEPT ![r] = y]
    BY <1>1, <1>2, <1>4, <2>1, <2>2 DEF FetchOne, SyncInv, SyncShaped
  <2>5. RunTrue(y)
    BY <1>1, <1>2, <1>4, <2>1, <2>3 DEF FetchOne, RunTrue
  <2> QED BY <1>4, <2>3, <2>4, <2>5, RunGoesOn DEF FetchOne, SyncInv, SyncShaped
<1>5. CASE FenceOne(r)
  <2>1. PICK new : new = (<<"page", Root, x.saw[Root]>> \notin held)
    OBVIOUS
  <2>2. CASE replica' = [replica EXCEPT ![r].at = "ingest", ![r].new = new]
    <3>1. PICK y : y = [x EXCEPT !.at = "ingest", !.new = new]
      OBVIOUS
    <3>2. DOMAIN y = ReplicaFields /\ y.saw = x.saw /\ y.at = "ingest" /\ y.token = x.token
      BY <1>2, <3>1 DEF ReplicaFields
    <3>3. replica' = [replica EXCEPT ![r] = y]
      BY <1>1, <1>2, <2>2, <3>1 DEF SyncInv, SyncShaped
    <3>4. RunTrue(y)
      BY <1>1, <1>2, <1>5, <3>2 DEF FenceOne, RunTrue
    <3> QED BY <1>2, <1>5, <3>2, <3>3, <3>4, RunGoesOn DEF FenceOne, SyncInv, SyncShaped
  <2>3. CASE Gives(r, "stale")
    BY <1>5, <2>3, GivesUp DEF FenceOne, SyncInv, SyncShaped
  <2> QED BY <1>1, <1>5, <2>1, <2>2, <2>3 DEF FenceOne
<1> QED BY <1>3, <1>4, <1>5

LEMMA IngestKeeps == ASSUME SyncInv, NEW r \in Replica, IngestOne(r) PROVE SyncInv'
<1>1. PICK x : x = replica[r]
  OBVIOUS
<1>2. DOMAIN x = ReplicaFields /\ DOMAIN x.saw = Page /\ RunTrue(x) /\ x.at = "ingest"
  BY <1>1, RunKept DEF IngestOne
<1>3. UNCHANGED <<kind, schedule, pageRow, used>>
  BY DEF IngestOne
<1>4. CASE Gives(r, "stale") /\ UNCHANGED held
  BY <1>1, <1>2, <1>3, <1>4, GivesUp DEF SyncInv, SyncShaped
<1>5. CASE Goes(r, "record") /\ held \subseteq held' /\ <<"page", Root, x.saw[Root]>> \in held'
  <2>1. PICK y : /\ replica' = [replica EXCEPT ![r] = y] /\ DOMAIN y = ReplicaFields
                 /\ DOMAIN y.saw = Page /\ y.at = "record" /\ y.token = x.token /\ y.saw = x.saw
    BY <1>1, <1>5, Going
  <2>2. RunTrue(y)'
    BY <1>2, <1>5, <2>1 DEF RunTrue
  <2>3. LeaseOn' /\ ValidatorTrue'
    BY <1>3, <1>5 DEF SyncInv, LeaseOn, ValidatorTrue
  <2> QED BY <1>3, <1>5, <2>1, <2>2, <2>3, RunMoves DEF SyncInv, SyncShaped
<1> QED BY <1>1, <1>4, <1>5 DEF IngestOne

-----------------------------------------------------------------------------
(* A Site Collection                                                        *)

LEMMA DiscoverKeeps ==
  ASSUME SyncInv, NEW r \in Replica, Discover(r) \/ BeginGeneration(r) \/ NothingRemoved(r)
  PROVE  SyncInv'
<1>1. PICK x : x = replica[r]
  OBVIOUS
<1>2. DOMAIN x = ReplicaFields /\ DOMAIN x.saw = Page /\ RunTrue(x)
  BY <1>1, RunKept
<1>3. ASSUME NEW y, replica' = [replica EXCEPT ![r] = y], DOMAIN y = ReplicaFields,
             y.saw = x.saw, y.at \in {"begin", "reconcile", "record"}, y.token = x.token,
             x.at \notin {"idle", "off"}, kind = "collection", UNCHANGED <<held, kind, schedule, pageRow, used>>
      PROVE  SyncInv'
  <2>1. RunTrue(y)
    BY <1>2, <1>3 DEF RunTrue
  <2> QED BY <1>2, <1>3, <2>1, RunGoesOn DEF SyncInv, SyncShaped
<1>4. CASE Discover(r)
  <2>1. PICK y : y = [x EXCEPT !.todo = {p \in Page : site[p] # Absent}, !.at = "begin"]
    OBVIOUS
  <2>2. DOMAIN y = ReplicaFields /\ y.saw = x.saw /\ y.at = "begin" /\ y.token = x.token
    BY <1>2, <2>1 DEF ReplicaFields
  <2>3. replica' = [replica EXCEPT ![r] = y]
    BY <1>1, <1>2, <1>4, <2>1 DEF Discover, SyncInv, SyncShaped
  <2> QED BY <1>1, <1>3, <1>4, <2>2, <2>3 DEF Discover
<1>5. CASE BeginGeneration(r)
  <2>1. CASE replica' = [replica EXCEPT ![r].gen = generation + 1, ![r].at = "reconcile"]
    <3>1. PICK y : y = [x EXCEPT !.gen = generation + 1, !.at = "reconcile"]
      OBVIOUS
    <3>2. DOMAIN y = ReplicaFields /\ y.saw = x.saw /\ y.at = "reconcile" /\ y.token = x.token
      BY <1>2, <3>1 DEF ReplicaFields
    <3>3. replica' = [replica EXCEPT ![r] = y]
      BY <1>1, <1>2, <2>1, <3>1 DEF SyncInv, SyncShaped
    <3>4. kind = "collection"
      BY <1>1, <1>2, <1>5 DEF BeginGeneration, RunTrue
    <3> QED BY <1>1, <1>3, <1>5, <3>2, <3>3, <3>4 DEF BeginGeneration
  <2>2. CASE Gives(r, "stale")
    BY <1>5, <2>2, GivesUp DEF BeginGeneration, SyncInv, SyncShaped
  <2> QED BY <1>5, <2>1, <2>2 DEF BeginGeneration
<1>6. CASE NothingRemoved(r)
  <2>1. PICK y : /\ replica' = [replica EXCEPT ![r] = y] /\ DOMAIN y = ReplicaFields
                 /\ y.at = "record" /\ y.token = x.token /\ y.saw = x.saw
    BY <1>1, <1>6, Going DEF NothingRemoved
  <2>2. kind = "collection"
    BY <1>1, <1>2, <1>6 DEF NothingRemoved, RunTrue
  <2> QED BY <1>1, <1>3, <1>6, <2>1, <2>2 DEF NothingRemoved
<1> QED BY <1>4, <1>5, <1>6

LEMMA ReconcileKeeps == ASSUME SyncInv, NEW r \in Replica, ReconcilePages(r) PROVE SyncInv'
<1>1. PICK x : x = replica[r]
  OBVIOUS
<1>2. DOMAIN x = ReplicaFields /\ DOMAIN x.saw = Page /\ RunTrue(x) /\ x.at = "reconcile"
  BY <1>1, RunKept DEF ReconcilePages
<1>3. PICK known : known = [p \in Page |-> IF p \in x.todo THEN pageRow[p].etag ELSE Absent]
  OBVIOUS
<1>4. PICK y : y = [x EXCEPT !.at = "page", !.known = known]
  OBVIOUS
<1>5. DOMAIN y = ReplicaFields /\ y.saw = x.saw /\ y.at = "page" /\ y.token = x.token
  BY <1>2, <1>4 DEF ReplicaFields
<1>6. replica' = [replica EXCEPT ![r] = y]
  BY <1>1, <1>2, <1>3, <1>4 DEF ReconcilePages, SyncInv, SyncShaped
<1>7. UNCHANGED <<held, kind, schedule, used>> /\ LeaseOn'
  BY DEF ReconcilePages, SyncInv, LeaseOn
<1>8. RunTrue(y)'
  BY <1>2, <1>5, <1>7 DEF RunTrue
<1>9. /\ pageRow' = [p \in Page |-> pageRow'[p]]
      /\ \A p \in Page : DOMAIN pageRow'[p] = {"seen", "avail", "etag"}
      /\ ValidatorTrue'
  <2>1. \A p \in Page : pageRow'[p] = IF p \in x.todo
                                      THEN [pageRow[p] EXCEPT !.seen = x.gen, !.avail = TRUE] ELSE pageRow[p]
    BY <1>1 DEF ReconcilePages
  <2>2. \A p \in Page : DOMAIN pageRow'[p] = {"seen", "avail", "etag"} /\ pageRow'[p].etag = pageRow[p].etag
    BY <2>1 DEF SyncInv, SyncShaped
  <2>3. pageRow' = [p \in Page |-> pageRow'[p]]
    BY DEF ReconcilePages
  <2> QED BY <1>7, <2>2, <2>3 DEF SyncInv, ValidatorTrue
<1> QED BY <1>2, <1>5, <1>6, <1>7, <1>8, <1>9, RunMoves DEF SyncInv, SyncShaped

\* Where a page is done with.
LEMMA PageDoneIs ==
  ASSUME SyncInv, NEW r \in Replica, NEW p \in Page, NEW result, NEW c, PageDone(r, p, result, c)
  PROVE  \E y : /\ replica' = [replica EXCEPT ![r] = y] /\ DOMAIN y = ReplicaFields
                /\ DOMAIN y.saw = Page /\ y.at = "page" /\ y.token = replica[r].token
<1>1. PICK x : x = replica[r]
  OBVIOUS
<1>2. DOMAIN x = ReplicaFields /\ DOMAIN x.saw = Page
  BY <1>1, RunKept
<1>3. PICK res : res = IF result = "changed" \/ x.result = "none" \/ x.result = "not_modified" THEN result ELSE x.result
  OBVIOUS
<1>4. PICK todo : todo = x.todo \ {p}
  OBVIOUS
<1> DEFINE y == [x EXCEPT !.todo = todo, !.at = "page", !.saw = [x.saw EXCEPT ![p] = c], !.result = res]
<1>5. DOMAIN y = ReplicaFields /\ DOMAIN y.saw = Page /\ y.at = "page" /\ y.token = x.token
  BY <1>2 DEF ReplicaFields
<1>6. replica' = [replica EXCEPT ![r].todo = todo, ![r].at = "page", ![r].saw[p] = c, ![r].result = res]
  BY <1>1, <1>3, <1>4 DEF PageDone
<1>7. replica' = [replica EXCEPT ![r] = y]
  <2>1. DOMAIN replica = Replica
    BY DEF SyncInv, SyncShaped
  <2>2. [replica EXCEPT ![r].todo = todo, ![r].at = "page", ![r].saw[p] = c, ![r].result = res]
        = [replica EXCEPT ![r] = y]
    BY <1>1, <1>2, <2>1 DEF ReplicaFields
  <2> QED BY <1>6, <2>2
<1> QED BY <1>1, <1>5, <1>7

LEMMA PageKeeps ==
  ASSUME SyncInv, NEW r \in Replica, NEW p \in Page, SyncPage(r, p) \/ PageMissing(r, p)
  PROVE  SyncInv'
<1>1. PICK x : x = replica[r]
  OBVIOUS
<1>2. DOMAIN x = ReplicaFields /\ DOMAIN x.saw = Page /\ RunTrue(x) /\ x.at = "page" /\ kind = "collection"
  BY <1>1, RunKept DEF SyncPage, PageMissing, RunTrue
<1>3. UNCHANGED <<held, kind, schedule, pageRow, used>>
  BY DEF SyncPage, PageMissing
<1>4. CASE PageMissing(r, p)
  BY <1>1, <1>2, <1>3, <1>4, GivesUp DEF PageMissing, SyncInv, SyncShaped
<1>5. CASE PageDone(r, p, "not_modified", site[p])
  <2>1. PICK y : /\ replica' = [replica EXCEPT ![r] = y] /\ DOMAIN y = ReplicaFields
                 /\ DOMAIN y.saw = Page /\ y.at = "page" /\ y.token = x.token
    BY <1>1, <1>5, PageDoneIs
  <2>2. RunTrue(y)
    BY <1>2, <2>1 DEF RunTrue
  <2> QED BY <1>3, <2>1, <2>2, RunGoesOn DEF SyncInv, SyncShaped
<1>6. CASE SyncPage(r, p) /\ site[p] # x.known[p]
  <2>1. PICK known : known = (<<"page", p, site[p]>> \in held)
    OBVIOUS
  <2>2. PICK at \in {"note", "publish", "mark"} :
          at = (IF known THEN "note" ELSE IF Fenced(r) THEN "publish" ELSE "mark")
    OBVIOUS
  <2>3. PICK result : result = (IF known \/ Fenced(r) THEN x.result ELSE "stale")
    OBVIOUS
  <2>4. PICK y : y = [x EXCEPT !.saw = [x.saw EXCEPT ![p] = site[p]], !.hand = {p}, !.at = at,
                               !.new = ~known, !.result = result]
    OBVIOUS
  <2>5. DOMAIN y = ReplicaFields /\ DOMAIN y.saw = Page /\ y.at = at /\ y.token = x.token
        /\ y.hand = {p} /\ y.saw[p] = site[p]
    BY <1>2, <2>4 DEF ReplicaFields
  <2>6. replica' = [replica EXCEPT ![r].saw[p] = site[p], ![r].hand = {p},
                ![r].at = IF <<"page", p, site[p]>> \in held THEN "note"
                          ELSE IF Fenced(r) THEN "publish" ELSE "mark",
                ![r].new = <<"page", p, site[p]>> \notin held,
                ![r].result = IF <<"page", p, site[p]>> \in held \/ Fenced(r) THEN @ ELSE "stale"]
    BY <1>1, <1>6 DEF SyncPage
  <2>7. replica' = [replica EXCEPT ![r] = y]
    BY <1>1, <1>2, <2>1, <2>2, <2>3, <2>4, <2>6 DEF SyncInv, SyncShaped
  <2>8. RunTrue(y)
    BY <1>2, <2>1, <2>2, <2>5 DEF RunTrue
  <2> QED BY <1>3, <2>5, <2>7, <2>8, RunGoesOn DEF SyncInv, SyncShaped
<1> QED BY <1>1, <1>4, <1>5, <1>6 DEF SyncPage

LEMMA PublishPageKeeps == ASSUME SyncInv, NEW r \in Replica, PublishPage(r) PROVE SyncInv'
<1>1. PICK x : x = replica[r]
  OBVIOUS
<1>2. DOMAIN x = ReplicaFields /\ DOMAIN x.saw = Page /\ RunTrue(x) /\ x.at = "publish" /\ kind = "collection"
  BY <1>1, RunKept DEF PublishPage, RunTrue
<1>3. UNCHANGED <<kind, schedule, pageRow, used>>
  BY DEF PublishPage
<1>4. PICK p \in Page : x.hand = {p}
  BY <1>2 DEF RunTrue
<1>5. CASE Gives(r, "stale") /\ UNCHANGED held
  BY <1>1, <1>2, <1>3, <1>5, GivesUp DEF SyncInv, SyncShaped
<1>6. CASE Goes(r, "note") /\ held' = held \cup {<<"page", p, x.saw[p]>>}
  <2>1. PICK y : /\ replica' = [replica EXCEPT ![r] = y] /\ DOMAIN y = ReplicaFields
                 /\ DOMAIN y.saw = Page /\ y.at = "note" /\ y.token = x.token /\ y.saw = x.saw
                 /\ y.hand = x.hand
    BY <1>1, <1>6, Going
  <2>2. RunTrue(y)'
    BY <1>2, <1>3, <1>4, <1>6, <2>1 DEF RunTrue
  <2>3. LeaseOn' /\ ValidatorTrue'
    BY <1>3, <1>6 DEF SyncInv, LeaseOn, ValidatorTrue
  <2> QED BY <1>3, <1>6, <2>1, <2>2, <2>3, RunMoves DEF SyncInv, SyncShaped
<1> QED BY <1>1, <1>4, <1>5, <1>6 DEF PublishPage

LEMMA NotePageKeeps == ASSUME SyncInv, NEW r \in Replica, NotePage(r) PROVE SyncInv'
<1>1. PICK x : x = replica[r]
  OBVIOUS
<1>2. DOMAIN x = ReplicaFields /\ DOMAIN x.saw = Page /\ RunTrue(x) /\ x.at = "note" /\ kind = "collection"
  BY <1>1, RunKept DEF NotePage, RunTrue
<1>3. UNCHANGED <<held, kind, schedule, used>> /\ LeaseOn'
  BY DEF NotePage, SyncInv, LeaseOn
<1>4. PICK p \in x.hand : /\ pageRow' = [pageRow EXCEPT ![p].etag = x.saw[p]]
                          /\ PageDone(r, p, IF x.new THEN "changed" ELSE "unchanged", x.saw[p])
  BY <1>1 DEF NotePage
<1>5. p \in Page /\ <<"page", p, x.saw[p]>> \in held
  BY <1>2, <1>4 DEF RunTrue
<1>6. PICK y : /\ replica' = [replica EXCEPT ![r] = y] /\ DOMAIN y = ReplicaFields
               /\ DOMAIN y.saw = Page /\ y.at = "page" /\ y.token = x.token
  BY <1>1, <1>4, <1>5, PageDoneIs
<1>7. RunTrue(y)'
  BY <1>2, <1>3, <1>6 DEF RunTrue
<1>8. /\ pageRow' = [k \in Page |-> pageRow'[k]]
      /\ \A k \in Page : DOMAIN pageRow'[k] = {"seen", "avail", "etag"}
      /\ ValidatorTrue'
  BY <1>3, <1>4, <1>5 DEF SyncInv, SyncShaped, ValidatorTrue
<1> QED BY <1>3, <1>6, <1>7, <1>8, RunMoves DEF SyncInv, SyncShaped

LEMMA CompleteKeeps == ASSUME SyncInv, NEW r \in Replica, CompleteGeneration(r) PROVE SyncInv'
<1>1. PICK x : x = replica[r]
  OBVIOUS
<1>2. DOMAIN x = ReplicaFields /\ DOMAIN x.saw = Page /\ RunTrue(x) /\ x.at = "page" /\ kind = "collection"
  BY <1>1, RunKept DEF CompleteGeneration, RunTrue
<1>3. UNCHANGED <<held, kind, schedule, used>> /\ LeaseOn'
  BY DEF CompleteGeneration, SyncInv, LeaseOn
<1>4. ASSUME NEW result, Gives(r, result), UNCHANGED pageRow PROVE SyncInv'
  BY <1>1, <1>2, <1>3, <1>4, GivesUp DEF SyncInv, SyncShaped
<1>5. CASE /\ pageRow' = [p \in Page |-> IF p \in Missing(r) THEN [pageRow[p] EXCEPT !.avail = FALSE] ELSE pageRow[p]]
           /\ replica' = [replica EXCEPT ![r].hand = Missing(r), ![r].at = "remove"]
  <2>1. PICK y : y = [x EXCEPT !.hand = Missing(r), !.at = "remove"]
    OBVIOUS
  <2>2. DOMAIN y = ReplicaFields /\ y.saw = x.saw /\ y.at = "remove" /\ y.token = x.token
    BY <1>2, <2>1 DEF ReplicaFields
  <2>3. replica' = [replica EXCEPT ![r] = y]
    BY <1>1, <1>2, <1>5, <2>1 DEF SyncInv, SyncShaped
  <2>4. RunTrue(y)'
    BY <1>2, <1>3, <2>2 DEF RunTrue
  <2>5. \A p \in Page : DOMAIN pageRow'[p] = {"seen", "avail", "etag"} /\ pageRow'[p].etag = pageRow[p].etag
    <3>1. \A p \in Page : pageRow'[p] \in {pageRow[p], [pageRow[p] EXCEPT !.avail = FALSE]}
      BY <1>5
    <3> QED BY <3>1 DEF SyncInv, SyncShaped
  <2>6. pageRow' = [p \in Page |-> pageRow'[p]] /\ ValidatorTrue'
    BY <1>3, <1>5, <2>5 DEF SyncInv, ValidatorTrue
  <2> QED BY <1>2, <1>3, <2>2, <2>3, <2>4, <2>5, <2>6, RunMoves DEF SyncInv, SyncShaped
<1> QED BY <1>4, <1>5 DEF CompleteGeneration

LEMMA RemovalKeeps == ASSUME SyncInv, NEW r \in Replica, PublishRemoval(r) \/ IngestRaises(r) PROVE SyncInv'
<1>1. PICK x : x = replica[r]
  OBVIOUS
<1>2. DOMAIN x = ReplicaFields /\ DOMAIN x.saw = Page /\ RunTrue(x)
  BY <1>1, RunKept
<1>3. CASE IngestRaises(r)
  <2>1. DOMAIN used' = DOMAIN used /\ used'.claims \in Nat
    BY <1>3, SpendIs DEF IngestRaises, SyncFault
  <2> QED BY <1>3, <2>1, GivesUp DEF IngestRaises
<1>4. CASE PublishRemoval(r)
  <2>1. UNCHANGED <<kind, schedule, pageRow, used>> /\ x.at = "remove" /\ kind = "collection"
    BY <1>1, <1>2, <1>4 DEF PublishRemoval, RunTrue
  <2>2. CASE Gives(r, "stale") /\ UNCHANGED held
    BY <1>1, <2>1, <2>2, GivesUp DEF SyncInv, SyncShaped
  <2>3. CASE replica' = [replica EXCEPT ![r].at = "record", ![r].result = "changed"] /\ held \subseteq held'
    <3>1. PICK y : y = [x EXCEPT !.at = "record", !.result = "changed"]
      OBVIOUS
    <3>2. DOMAIN y = ReplicaFields /\ y.saw = x.saw /\ y.at = "record" /\ y.token = x.token
      BY <1>2, <3>1 DEF ReplicaFields
    <3>3. replica' = [replica EXCEPT ![r] = y]
      BY <1>1, <1>2, <2>3, <3>1 DEF SyncInv, SyncShaped
    <3>4. RunTrue(y)'
      BY <1>2, <2>1, <3>2 DEF RunTrue
    <3>5. LeaseOn' /\ ValidatorTrue'
      BY <2>1, <2>3 DEF SyncInv, LeaseOn, ValidatorTrue
    <3> QED BY <1>2, <2>1, <2>3, <3>2, <3>3, <3>4, <3>5, RunMoves DEF SyncInv, SyncShaped
  <2> QED BY <1>4, <2>2, <2>3 DEF PublishRemoval
<1> QED BY <1>3, <1>4

-----------------------------------------------------------------------------
LEMMA SyncWorld ==
  ASSUME SyncInv,
         \/ \E p \in Page : EditSite(p)
         \/ \E on \in BOOLEAN : SaveSchedule(on)
         \/ IntervalEnds \/ CooldownEnds \/ LeaseLapses \/ UNCHANGED syncVars
  PROVE  SyncInv'
<1>1. ASSUME NEW p \in Page, EditSite(p) PROVE SyncInv'
  <2>1. DOMAIN used' = DOMAIN used /\ used'.claims \in Nat
    BY <1>1, SpendIs DEF EditSite
  <2> QED BY <1>1, <2>1, WorldMoves DEF EditSite, SyncInv, SyncShaped, LeaseOn
<1>2. ASSUME NEW on \in BOOLEAN, SaveSchedule(on) PROVE SyncInv'
  <2>1. DOMAIN used' = DOMAIN used /\ used'.claims \in Nat
    BY <1>2, SpendIs DEF SaveSchedule
  <2>2. DOMAIN schedule' = ScheduleFields /\ schedule'.token = 0
    BY <1>2 DEF SaveSchedule, ScheduleFields
  <2> QED BY <1>2, <2>1, <2>2, WorldMoves DEF SaveSchedule, LeaseOn
<1>3. CASE IntervalEnds \/ CooldownEnds \/ UNCHANGED syncVars
  <2>1. DOMAIN schedule' = ScheduleFields /\ LeaseOn'
    BY <1>3 DEF IntervalEnds, CooldownEnds, syncVars, SyncInv, SyncShaped, ScheduleFields, LeaseOn
  <2> QED BY <1>3, <2>1, WorldMoves DEF IntervalEnds, CooldownEnds, syncVars, SyncInv, SyncShaped
<1>4. CASE LeaseLapses
  <2>1. DOMAIN used' = DOMAIN used /\ used'.claims \in Nat
    BY <1>4, SpendIs DEF LeaseLapses, SyncFault
  <2>2. DOMAIN schedule' = ScheduleFields /\ LeaseOn'
    BY <1>4 DEF LeaseLapses, SyncInv, SyncShaped, ScheduleFields, LeaseOn
  <2> QED BY <1>4, <2>1, <2>2, WorldMoves DEF LeaseLapses
<1> QED BY <1>1, <1>2, <1>3, <1>4

LEMMA SyncBegins == SyncInit => SyncInv
<1> SUFFICES ASSUME SyncInit PROVE SyncInv
  OBVIOUS
<1>1. \A r \in Replica : replica[r] = IdleReplica
  BY DEF SyncInit
<1>2. \A p \in Page : pageRow[p] = NoPageRow
  BY DEF SyncInit
<1>3. DOMAIN NoPageRow = {"seen", "avail", "etag"} /\ NoPageRow.etag = Absent
  BY DEF NoPageRow
<1>4. SyncShaped
  BY <1>1, <1>2, <1>3, IdleReplicaIs DEF SyncInit, SyncShaped, ScheduleFields
<1>5. RunsTrue
  BY <1>1, IdleReplicaIs DEF RunsTrue
<1>6. LeaseOn /\ ValidatorTrue
  BY <1>2, <1>3 DEF SyncInit, LeaseOn, ValidatorTrue
<1> QED BY <1>4, <1>5, <1>6 DEF SyncInv

LEMMA SyncStepKeeps == SyncInv /\ [SyncNext]_syncVars => SyncInv'
<1> SUFFICES ASSUME SyncInv, [SyncNext]_syncVars PROVE SyncInv'
  OBVIOUS
<1>1. ASSUME NEW r \in Replica, ClaimDue(r) \/ PutOff(r) \/ LoopFails(r) \/ Crash(r) \/ Restart(r)
                                \/ SyncStep(r) \/ FetchFails(r) \/ IngestRaises(r)
      PROVE  SyncInv'
  BY <1>1, ClaimKeeps, LoopKeeps, StartKeeps, RecordKeeps, FetchKeeps, IngestKeeps, DiscoverKeeps,
     ReconcileKeeps, PageKeeps, PublishPageKeeps, NotePageKeeps, CompleteKeeps, RemovalKeeps DEF SyncStep
<1> QED BY <1>1, SyncWorld DEF SyncNext

\* A validator is stored only with content the fabric has a version of.
THEOREM ValidatorsTrue == SyncSpec => []ValidatorTrue
<1>1. SyncInv => ValidatorTrue
  BY DEF SyncInv
<1> QED BY <1>1, SyncBegins, SyncStepKeeps, PTL DEF SyncSpec

\* A version is added only under a lease that is current when it is published.
THEOREM PublishingFenced == SyncSpec => FencedPublish
<1>1. ASSUME SyncInv, [SyncNext]_syncVars, held' # held
      PROVE  schedule.on /\ schedule.token # 0 /\ ~schedule.lapsed
  <2>1. ASSUME NEW r \in Replica, PublishFence(r), replica[r].at \in {"ingest", "publish", "remove"}
        PROVE  schedule.on /\ schedule.token # 0 /\ ~schedule.lapsed
    BY <1>1, <2>1, RunKept DEF PublishFence, RunTrue, SyncInv, LeaseOn
  <2>2. PICK r \in Replica : IngestOne(r) \/ PublishPage(r) \/ PublishRemoval(r)
    <3>1. ASSUME NEW r \in Replica, ClaimDue(r) \/ PutOff(r) \/ LoopFails(r) \/ Crash(r) \/ Restart(r)
                                    \/ FetchFails(r) \/ IngestRaises(r)
          PROVE  FALSE
      BY <1>1, <3>1 DEF ClaimDue, PutOff, LoopFails, Crash, Restart, FetchFails, IngestRaises
    <3>2. ASSUME NEW r \in Replica, SyncStep(r)
          PROVE  IngestOne(r) \/ PublishPage(r) \/ PublishRemoval(r)
      BY <1>1, <3>2 DEF SyncStep, StartSync, FetchOne, RecordUnmodified, FenceOne, RecordOne, Discover,
         BeginGeneration, ReconcilePages, NotePage, CompleteGeneration, NothingRemoved, RecordCollection,
         MarkResult, SyncPage, PageMissing, Recorded
    <3> QED BY <1>1, <3>1, <3>2 DEF SyncNext, EditSite, SaveSchedule, IntervalEnds, CooldownEnds,
               LeaseLapses, syncVars
  <2>3. PublishFence(r) /\ replica[r].at \in {"ingest", "publish", "remove"}
    BY <1>1, <2>2 DEF IngestOne, PublishPage, PublishRemoval
  <2> QED BY <2>1, <2>3
<1> QED BY <1>1, SyncBegins, SyncStepKeeps, PTL DEF SyncSpec, FencedPublish
=============================================================================
