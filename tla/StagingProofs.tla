--------------------------- MODULE StagingProofs ---------------------------
(***************************************************************************)
(* Proofs about Staging for every value of its constants: type             *)
(* correctness; that a job which exists has its files; that every document *)
(* is paired consistently; and that what a document lists is stored, in    *)
(* staging or with a job, unless a late save brought the document back.    *)
(***************************************************************************)
EXTENDS Staging, WellFoundedInduction, TLAPS

Documents == UNION {[D -> Entries] : D \in SUBSET Files}

(***************************************************************************)
(* Types: what an upload and a request hold at each step.                  *)
(***************************************************************************)
Uploads == [pc : {"none", "next", "blob", "staged", "over"}, stage : Documents, file : Files \cup {None}]
Calls == [pc : {"new", "save", "answer", "client", "key", "blob", "commit", "enqueue", "del", "remove", "over"},
          session : Sessions \cup {None}, stage : Documents, moves : SUBSET (Files \X Files),
          created : SUBSET (Names \X JobIds), jobs : SUBSET JobRows]

Unpaired(d) == \A f \in Listed(d) : d[f].prior = None /\ d[f].role = "source"
UploadHolds(u) == Unpaired(u.stage) /\ (u.pc \in {"blob", "staged"} => u.file \in Files)
CallHolds(c) ==
  /\ c.pc \notin {"new", "over"} => c.session \in Sessions
  /\ c.moves \subseteq Moves(c.stage)
  /\ c.pc \in {"client", "key", "blob"} => c.moves # {}

TypeDocs    == doc \in [Sessions -> Documents \cup {None}] /\ view \in [Sessions -> Documents \cup {None}]
TypeDisk    == key \in [Files -> Places] /\ blob \in [Files -> Places]
TypeUploads == upload \in [Sessions -> Uploads] /\ \A s \in Sessions : UploadHolds(upload[s])
TypeCalls   == req \in [Requests -> Calls] /\ \A r \in Requests : CallHolds(req[r])
TypeTables  == /\ jobs \subseteq JobRows /\ clients \subseteq Names \X JobIds /\ enqueued \subseteq JobIds
               /\ sweep \in Sessions \cup {None} /\ revived \subseteq Sessions
TypeInv == TypeDocs /\ TypeDisk /\ TypeUploads /\ TypeCalls /\ TypeTables

(***************************************************************************)
(* Jobs and their files.  The uploads of a session come before the edits   *)
(* and queueings of it, and a document lists the files of its own session: *)
(* nobody writes to a file again that a job has.                           *)
(***************************************************************************)
Has(f, place) == key[f] = place /\ blob[f] = place
Owns(j) == \A f \in FileList(j) : Has(f, j.job) /\ upload[SessionOf[f]].pc = "over"

SessionApart(s) ==
  /\ Listed(Stored(s)) \subseteq FilesOf(s)
  /\ Listed(Shown(s)) # {} => upload[s].pc = "over"
  /\ Listed(upload[s].stage) \subseteq FilesOf(s)
  /\ upload[s].pc \in {"blob", "staged"} => upload[s].file \in FilesOf(s)
\* A request works on the files of a session that is uploaded.  It moves a source file before the
\* prior year's, and has the key file of what it is moving.
CallApart(r) ==
  /\ req[r].pc \notin {"new", "over"} => /\ upload[req[r].session].pc = "over"
                                         /\ Listed(req[r].stage) \subseteq FilesOf(req[r].session)
  /\ req[r].moves # {} => req[r].pc \notin {"new", "over"}
CallOwns(r) ==
  /\ req[r].pc = "blob" => key[NextMove(r)[2]] = Job(r, NextMove(r))
  /\ \A m \in req[r].moves : <<m[1], m[1]>> \in req[r].moves \/ Has(m[1], <<r, m[1]>>)
  /\ \A j \in req[r].jobs : Owns(j)
Apart == (\A s \in Sessions : SessionApart(s)) /\ (\A r \in Requests : CallApart(r))
Owned == (\A r \in Requests : CallOwns(r)) /\ (\A j \in jobs : Owns(j))
OwnInv == TypeInv /\ Apart /\ Owned

(***************************************************************************)
(* Pairing.  A document is consistent whoever holds a copy of it.          *)
(***************************************************************************)
Pairings ==
  /\ \A s \in Sessions : doc[s] # None => PairedOnce(doc[s])
  /\ \A r \in Requests : IF req[r].pc \in {"new", "over"} THEN req[r].moves = {} ELSE PairedOnce(req[r].stage)
PairInv == TypeInv /\ Pairings

(***************************************************************************)
(* What is listed is stored.  As long as the document of a session has     *)
(* been there since its upload began, the sweep and the ends of queueings  *)
(* leave its files alone, and whatever lists a file finds it in staging or *)
(* with a job; once it was gone nothing is promised (Lost) for good.       *)
(***************************************************************************)
Lost(s) == doc[s] = None \/ s \in revived
Kept(s, f) == key[f] \in StagedPlaces(s) /\ blob[f] \in StagedPlaces(s)
SessionStored(s) ==
  /\ IF upload[s].pc = "over" THEN Listed(upload[s].stage) = {} ELSE Listed(Stored(s)) = {}
  /\ upload[s].pc = "none" => /\ Listed(upload[s].stage) = {} /\ doc[s] = None /\ s \notin revived
                               /\ sweep # s /\ \A f \in FilesOf(s) : Has(f, None)
  /\ upload[s].pc \in {"blob", "staged"} => upload[s].file \notin Listed(upload[s].stage)
  /\ ~Lost(s) =>
       /\ sweep # s
       /\ \A f \in Ok(upload[s].stage) \cup Ok(Stored(s)) : Kept(s, f)
       /\ upload[s].pc \in {"blob", "staged"} => key[upload[s].file] \in StagedPlaces(s)
       /\ upload[s].pc = "staged" => blob[upload[s].file] \in StagedPlaces(s)
CallStored(r) ==
  req[r].pc \notin {"new", "over"} /\ ~Lost(req[r].session) =>
    req[r].pc # "remove" /\ \A f \in Ok(req[r].stage) : Kept(req[r].session, f)
StoredAll == (\A s \in Sessions : SessionStored(s)) /\ (\A r \in Requests : CallStored(r))
StoreInv == TypeInv /\ Apart /\ StoredAll
-----------------------------------------------------------------------------
(* Documents. *)

LEMMA Bounds ==
  /\ Files \subseteq Nat
  /\ SessionOf \in [Files -> Sessions]
  /\ DetectedYear \in [Files -> Nat \cup {None}]
  /\ None \notin Nat /\ None \notin Files /\ None \notin Names /\ None \notin Sessions
  /\ None \notin JobIds /\ Staging \notin JobIds /\ Staging # None
BY StagingAssumption

LEMMA NoDocument == None \notin Documents
BY StagingAssumption DEF Documents, IsDoc

LEMMA Document ==
  ASSUME NEW d \in Documents
  PROVE  /\ Listed(d) \subseteq Files /\ d \in [Listed(d) -> Entries]
         /\ \A f \in Listed(d) : d[f] \in Entries
         /\ IsDoc(d) /\ d # None /\ Ok(d) \subseteq Listed(d)
<1>1. PICK D \in SUBSET Files : d \in [D -> Entries] BY DEF Documents
<1>2. D = Listed(d) BY <1>1 DEF Listed
<1> QED BY <1>1, <1>2, NoDocument DEF IsDoc, Ok

LEMMA IsDocument ==
  ASSUME NEW D \in SUBSET Files, NEW d \in [D -> Entries]
  PROVE  d \in Documents /\ Listed(d) = D
BY DEF Documents, Listed

LEMMA EmptyDocument == <<>> \in Documents /\ Listed(<<>>) = {} /\ Ok(<<>>) = {}
<1>1. Listed(<<>>) = {} BY DEF Listed
<1>2. <<>> \in [{} -> Entries] OBVIOUS
<1> QED BY <1>1, <1>2, IsDocument DEF Ok

LEMMA FreshEntries ==
  ASSUME NEW f \in Files
  PROVE  /\ Skipped \in Entries /\ Accepted(f) \in Entries
         /\ ~Skipped.ok /\ Skipped.prior = None /\ Skipped.role = "source"
         /\ Accepted(f).ok /\ Accepted(f).prior = None /\ Accepted(f).role = "source"
BY Bounds DEF Skipped, Accepted, Entries

LEMMA WithDocument ==
  ASSUME NEW d \in Documents, NEW f \in Files, NEW e \in Entries
  PROVE  /\ With(d, f, e) \in Documents
         /\ Listed(With(d, f, e)) = Listed(d) \cup {f}
         /\ With(d, f, e)[f] = e
         /\ \A g \in Listed(d) \ {f} : With(d, f, e)[g] = d[g]
<1>1. Listed(d) \cup {f} \subseteq Files /\ \A g \in Listed(d) : d[g] \in Entries BY Document
<1>2. With(d, f, e) \in [Listed(d) \cup {f} -> Entries] BY <1>1 DEF With
<1>3. With(d, f, e) \in Documents /\ Listed(With(d, f, e)) = Listed(d) \cup {f}
  BY <1>1, <1>2, IsDocument
<1>4. \A g \in Listed(d) \cup {f} : With(d, f, e)[g] = IF g = f THEN e ELSE d[g] BY DEF With
<1> QED BY <1>3, <1>4

(* An upload lists a file: nothing is paired yet. *)
LEMMA WithUnpaired ==
  ASSUME NEW d \in Documents, NEW f \in Files, NEW e \in Entries, Unpaired(d),
         e.prior = None, e.role = "source"
  PROVE  Unpaired(With(d, f, e))
BY WithDocument DEF Unpaired

LEMMA WithOk ==
  ASSUME NEW d \in Documents, NEW f \in Files, NEW e \in Entries
  PROVE  Ok(With(d, f, e)) \subseteq Ok(d) \cup {f} /\ (~e.ok => Ok(With(d, f, e)) \subseteq Ok(d))
BY WithDocument DEF Ok

(* Two rows that name the same prior year were the same row. *)
LEMMA PairedIsOneToOne ==
  ASSUME NEW d \in Documents, NEW p \in Paired(d), NEW q \in Paired(d), p[1] = q[1] \/ p[2] = q[2]
  PROVE  p = q
<1>1. /\ p \in Files \X Files /\ q \in Files \X Files
      /\ p[1] \in Ok(d) /\ p[2] \in Ok(d) /\ q[1] \in Ok(d) /\ q[2] \in Ok(d)
  BY Document DEF Paired
<1>2. /\ Taxpayer[p[1]] # None /\ d[p[1]].year # None
      /\ Of(d, Taxpayer[p[1]], d[p[1]].year) = {p[1]}
      /\ Of(d, Taxpayer[p[1]], d[p[1]].year - 1) = {p[2]}
  BY DEF Paired
<1>3. /\ Taxpayer[q[1]] # None /\ d[q[1]].year # None
      /\ Of(d, Taxpayer[q[1]], d[q[1]].year) = {q[1]}
      /\ Of(d, Taxpayer[q[1]], d[q[1]].year - 1) = {q[2]}
  BY DEF Paired
<1>4. d[p[1]].year \in Nat /\ d[q[1]].year \in Nat
  BY <1>1, <1>2, <1>3, Document DEF Entries
<1>5. p[2] = q[2] => p[1] = q[1]
  <2> SUFFICES ASSUME p[2] = q[2] PROVE p[1] = q[1] OBVIOUS
  <2>1. Taxpayer[p[2]] = Taxpayer[p[1]] /\ d[p[2]].year = d[p[1]].year - 1 BY <1>2 DEF Of
  <2>2. Taxpayer[q[2]] = Taxpayer[q[1]] /\ d[q[2]].year = d[q[1]].year - 1 BY <1>3 DEF Of
  <2>3. Taxpayer[p[1]] = Taxpayer[q[1]] /\ d[p[1]].year = d[q[1]].year BY <2>1, <2>2, <1>4
  <2> QED BY <2>3, <1>2, <1>3
<1>6. p[1] = q[1] => p[2] = q[2] BY <1>2, <1>3
<1> QED BY <1>1, <1>5, <1>6

LEMMA PairedApart ==
  ASSUME NEW d \in Documents, NEW p \in Paired(d)
  PROVE  p[1] \in Ok(d) /\ p[2] \in Ok(d) /\ p[1] # p[2]
<1>1. p[1] \in Ok(d) /\ p[2] \in Ok(d) /\ p[1] \in Listed(d) BY Document DEF Paired
<1>2. d[p[1]].year # None /\ p[2] \in Of(d, Taxpayer[p[1]], d[p[1]].year - 1) BY DEF Paired
<1>3. d[p[1]].year \in Nat /\ d[p[2]].year = d[p[1]].year - 1 BY <1>1, <1>2, Document DEF Entries, Of
<1> QED BY <1>1, <1>3

(* What autoPair makes of an entry. *)
LEMMA AutoPairEntry ==
  ASSUME NEW d \in Documents, NEW f \in Listed(d), Unpaired(d)
  PROVE  LET e == AutoPair(d)[f] IN
         /\ e \in Entries /\ e.ok = d[f].ok
         /\ \A p \in Paired(d) : p[1] = f => e.prior = p[2]
         /\ (\A p \in Paired(d) : p[1] # f) => e.prior = None
         /\ (\E p \in Paired(d) : p[2] = f) => e.role = "prior" /\ ~e.include
         /\ (\A p \in Paired(d) : p[2] # f) => e.role = "source"
<1> DEFINE e == AutoPair(d)[f]
           Mine == \E p \in Paired(d) : p[1] = f
           Named == \E p \in Paired(d) : p[2] = f
           q == CHOOSE p \in Paired(d) : p[1] = f
<1>0. d[f] \in Entries /\ d[f].prior = None /\ d[f].role = "source" BY Document DEF Unpaired
<1>1. e = [d[f] EXCEPT !.prior = IF Mine THEN q[2] ELSE @,
                       !.role = IF Named THEN "prior" ELSE @,
                       !.include = @ /\ ~Named]
  BY DEF AutoPair
<1>2. Mine => q \in Paired(d) /\ q[1] = f OBVIOUS
<1>3. Mine => q[2] \in Files BY <1>2, PairedApart, Document
<1> HIDE DEF e, Mine, Named, q
<1>4. /\ e.ok = d[f].ok
      /\ e.prior = IF Mine THEN q[2] ELSE None
      /\ e.role = IF Named THEN "prior" ELSE "source"
      /\ e.include = (d[f].include /\ ~Named)
  BY <1>0, <1>1 DEF Entries
<1>5. e \in Entries BY <1>0, <1>1, <1>3 DEF Entries
<1>6. \A p \in Paired(d) : p[1] = f => Mine /\ p = q
  BY <1>2, PairedIsOneToOne DEF Mine
<1> QED BY <1>4, <1>5, <1>6 DEF e, Mine, Named

LEMMA AutoPairDocument ==
  ASSUME NEW d \in Documents, Unpaired(d)
  PROVE  /\ AutoPair(d) \in Documents /\ Listed(AutoPair(d)) = Listed(d) /\ Ok(AutoPair(d)) = Ok(d)
         /\ PairedOnce(AutoPair(d))
<1> DEFINE a == AutoPair(d)
<1>1. Listed(a) = Listed(d) BY DEF AutoPair, Listed
<1>2. \A f \in Listed(d) : a[f] \in Entries /\ a[f].ok = d[f].ok BY AutoPairEntry
<1>3. a \in [Listed(d) -> Entries] BY <1>2 DEF AutoPair
<1>4. a \in Documents BY <1>3, IsDocument, Document
<1>5. Ok(a) = Ok(d) BY <1>1, <1>2 DEF Ok
<1> HIDE DEF a
<1>6. \A f \in Listed(d) : a[f].prior # None => \E p \in Paired(d) : p[1] = f /\ p[2] = a[f].prior
  BY AutoPairEntry DEF a
<1>7. \A f, g \in Listed(a) : a[f].prior # None /\ a[f].prior = a[g].prior => f = g
  BY <1>1, <1>6, PairedIsOneToOne
<1>8. ASSUME NEW f \in Listed(a), a[f].prior # None
      PROVE  a[f].prior \in Listed(a) /\ a[a[f].prior].role = "prior" /\ ~a[a[f].prior].include
  <2>1. PICK p \in Paired(d) : p[1] = f /\ p[2] = a[f].prior BY <1>1, <1>6, <1>8
  <2>2. p[2] \in Listed(d) BY PairedApart, Document
  <2> QED BY <1>1, <2>1, <2>2, AutoPairEntry DEF a
<1>9. ASSUME NEW g \in Listed(a), a[g].role = "prior"
      PROVE  \E f \in Listed(a) \ {g} : a[f].prior = g
  <2>1. PICK p \in Paired(d) : p[2] = g BY <1>1, <1>9, AutoPairEntry DEF a
  <2>2. p[1] \in Listed(d) /\ p[1] # g BY <2>1, PairedApart, Document
  <2> QED BY <1>1, <2>1, <2>2, AutoPairEntry DEF a
<1>10. PairedOnce(a) BY <1>7, <1>8, <1>9 DEF PairedOnce
<1> QED BY <1>1, <1>4, <1>5, <1>10 DEF a

(* The edits: the listed and the good files stay, and what was paired consistently is. *)
Revises(n, d) == n \in Documents /\ Listed(n) = Listed(d) /\ Ok(n) = Ok(d)

LEMMA Revised ==
  ASSUME NEW d \in Documents, NEW n,
         n = [g \in Listed(d) |-> n[g]], \A g \in Listed(d) : n[g] \in Entries /\ n[g].ok = d[g].ok
  PROVE  Revises(n, d)
<1>1. n \in [Listed(d) -> Entries] OBVIOUS
<1>2. n \in Documents /\ Listed(n) = Listed(d) BY <1>1, IsDocument, Document
<1> QED BY <1>2 DEF Revises, Ok

(* Pairing is a matter of prior years, roles, and that a prior year is not queued. *)
LEMMA SamePairs ==
  ASSUME NEW d \in Documents, NEW n, Listed(n) = Listed(d), PairedOnce(d),
         \A g \in Listed(d) : n[g].prior = d[g].prior /\ n[g].role = d[g].role,
         \A g \in Listed(d) : d[g].role = "prior" /\ ~d[g].include => ~n[g].include
  PROVE  PairedOnce(n)
<1>1. \A f, g \in Listed(n) : n[f].prior # None /\ n[f].prior = n[g].prior => f = g
  BY DEF PairedOnce
<1>2. \A f \in Listed(n) : n[f].prior # None =>
        n[f].prior \in Listed(n) /\ n[n[f].prior].role = "prior" /\ ~n[n[f].prior].include
  BY DEF PairedOnce
<1>3. \A p \in Listed(n) : n[p].role = "prior" => \E f \in Listed(n) \ {p} : n[f].prior = p
  BY DEF PairedOnce
<1> QED BY <1>1, <1>2, <1>3 DEF PairedOnce

LEMMA SetPriorEntry ==
  ASSUME NEW d \in Documents, NEW f \in Listed(d), NEW p \in Ok(d) \cup {None}, NEW g \in Listed(d)
  PROVE  LET e == SetPrior(d, f, p)[g] IN
         /\ e \in Entries /\ e.ok = d[g].ok
         /\ e.prior = IF g = f THEN p ELSE d[g].prior
         /\ e.role = IF g = p THEN "prior" ELSE IF g = d[f].prior THEN "source" ELSE d[g].role
         /\ g = p => ~e.include
         /\ g # p /\ g # d[f].prior => e.include = d[g].include
<1> DEFINE e == SetPrior(d, f, p)[g]
<1>0. d[g] \in Entries /\ d[f] \in Entries /\ p \in Files \cup {None} BY Document
<1>1. e = [d[g] EXCEPT !.prior = IF g = f THEN p ELSE @,
                       !.role = IF g = p THEN "prior" ELSE IF g = d[f].prior THEN "source" ELSE @,
                       !.include = IF g = p THEN FALSE ELSE IF g = d[f].prior THEN d[g].ok ELSE @]
  BY DEF SetPrior
<1> HIDE DEF e
<1>2. /\ e.ok = d[g].ok
      /\ e.prior = IF g = f THEN p ELSE d[g].prior
      /\ e.role = IF g = p THEN "prior" ELSE IF g = d[f].prior THEN "source" ELSE d[g].role
      /\ e.include = IF g = p THEN FALSE ELSE IF g = d[f].prior THEN d[g].ok ELSE d[g].include
  BY <1>0, <1>1 DEF Entries
<1>3. e.role \in {"source", "prior"} /\ e.include \in BOOLEAN /\ e.prior \in Files \cup {None}
  BY <1>0, <1>2 DEF Entries
<1>4. e = [d[g] EXCEPT !.prior = e.prior, !.role = e.role, !.include = e.include]
  BY <1>0, <1>1 DEF Entries
<1>5. e \in Entries BY <1>0, <1>3, <1>4 DEF Entries
<1> QED BY <1>2, <1>5 DEF e

LEMMA SetPriorRevises ==
  ASSUME NEW d \in Documents, NEW f \in Listed(d), NEW p \in Ok(d) \cup {None}
  PROVE  Revises(SetPrior(d, f, p), d)
<1>1. SetPrior(d, f, p) = [g \in Listed(d) |-> SetPrior(d, f, p)[g]] BY DEF SetPrior
<1> QED BY <1>1, SetPriorEntry, Revised

LEMMA SetPriorPairs ==
  ASSUME NEW d \in Documents, NEW f \in Listed(d), NEW p, Pairable(d, f, p), PairedOnce(d)
  PROVE  p \in Ok(d) \cup {None} /\ PairedOnce(SetPrior(d, f, p))
<1> DEFINE n == SetPrior(d, f, p)
           old == d[f].prior
<1>0. /\ p \in Ok(d) \cup {None} /\ p # f
      /\ p # None => \A g \in Listed(d) \ {f} : d[g].prior # p
  BY Bounds, Document DEF Pairable
<1>1. Listed(n) = Listed(d) /\ Ok(d) \subseteq Listed(d) /\ None \notin Listed(d)
  BY <1>0, SetPriorRevises, Document, Bounds DEF Revises
<1>2. /\ \A g, h \in Listed(d) : d[g].prior # None /\ d[g].prior = d[h].prior => g = h
      /\ \A g \in Listed(d) : d[g].prior # None =>
           d[g].prior \in Listed(d) /\ d[d[g].prior].role = "prior" /\ ~d[d[g].prior].include
      /\ \A g \in Listed(d) : d[g].role = "prior" => \E h \in Listed(d) \ {g} : d[h].prior = g
  BY DEF PairedOnce
<1>3. \A g \in Listed(d) :
        /\ n[g].prior = IF g = f THEN p ELSE d[g].prior
        /\ n[g].role = IF g = p THEN "prior" ELSE IF g = old THEN "source" ELSE d[g].role
        /\ g = p => ~n[g].include
        /\ g # p /\ g # old => n[g].include = d[g].include
  BY <1>0, SetPriorEntry
<1> HIDE DEF n, old
<1>4. \A g, h \in Listed(n) : n[g].prior # None /\ n[g].prior = n[h].prior => g = h
  BY <1>0, <1>1, <1>2, <1>3
<1>5. ASSUME NEW g \in Listed(n), n[g].prior # None
      PROVE  n[g].prior \in Listed(n) /\ n[n[g].prior].role = "prior" /\ ~n[n[g].prior].include
  <2>1. CASE g = f BY <2>1, <1>5, <1>0, <1>1, <1>3
  <2>2. CASE g # f
    <3>1. n[g].prior = d[g].prior /\ d[g].prior # None /\ d[g].prior # p
      BY <2>2, <1>5, <1>0, <1>1, <1>3
    <3>2. d[g].prior # old BY <3>1, <2>2, <1>1, <1>2 DEF old
    <3> QED BY <3>1, <3>2, <1>1, <1>2, <1>3
  <2> QED BY <2>1, <2>2
<1>6. ASSUME NEW g \in Listed(n), n[g].role = "prior"
      PROVE  \E h \in Listed(n) \ {g} : n[h].prior = g
  <2>1. CASE g = p BY <2>1, <1>0, <1>1, <1>3
  <2>2. CASE g # p
    <3>1. g # old /\ d[g].role = "prior" BY <2>2, <1>1, <1>3, <1>6
    <3>2. PICK h \in Listed(d) \ {g} : d[h].prior = g BY <3>1, <1>1, <1>2
    <3>3. h # f BY <3>1, <3>2 DEF old
    <3> QED BY <3>2, <3>3, <1>1, <1>3
  <2> QED BY <2>1, <2>2
<1>7. PairedOnce(n) BY <1>4, <1>5, <1>6 DEF PairedOnce
<1> QED BY <1>0, <1>7 DEF n

LEMMA SetIncludeRevises ==
  ASSUME NEW d \in Documents, NEW f \in Listed(d), NEW b \in BOOLEAN
  PROVE  /\ Revises(SetInclude(d, f, b), d)
         /\ PairedOnce(d) => PairedOnce(SetInclude(d, f, b))
<1> DEFINE n == SetInclude(d, f, b)
<1>0. d \in [Listed(d) -> Entries] /\ \A g \in Listed(d) : d[g] \in Entries BY Document
<1>1. /\ n = [g \in Listed(d) |-> n[g]]
      /\ \A g \in Listed(d) :
        /\ n[g] \in Entries /\ n[g].ok = d[g].ok /\ n[g].prior = d[g].prior /\ n[g].role = d[g].role
        /\ g # f => n[g].include = d[g].include
        /\ g = f /\ d[f].role = "prior" => ~n[g].include
  BY <1>0 DEF SetInclude, Entries
<1> HIDE DEF n
<1>2. Revises(n, d) BY <1>1, Revised
<1>3. PairedOnce(d) => PairedOnce(n) BY <1>1, <1>2, SamePairs DEF Revises
<1> QED BY <1>2, <1>3 DEF n

LEMMA SetClientRevises ==
  ASSUME NEW d \in Documents, NEW f \in Listed(d), NEW c \in Names \cup {None}
  PROVE  /\ Revises(SetClient(d, f, c), d)
         /\ PairedOnce(d) => PairedOnce(SetClient(d, f, c))
<1> DEFINE n == SetClient(d, f, c)
<1>0. d \in [Listed(d) -> Entries] /\ \A g \in Listed(d) : d[g] \in Entries BY Document
<1>1. /\ n = [g \in Listed(d) |-> n[g]]
      /\ \A g \in Listed(d) :
        /\ n[g] \in Entries /\ n[g].ok = d[g].ok /\ n[g].prior = d[g].prior /\ n[g].role = d[g].role
        /\ n[g].include = d[g].include
  BY <1>0 DEF SetClient, Entries
<1> HIDE DEF n
<1>2. Revises(n, d) BY <1>1, Revised
<1>3. PairedOnce(d) => PairedOnce(n) BY <1>1, <1>2, SamePairs DEF Revises
<1> QED BY <1>2, <1>3 DEF n

LEMMA SetYearRevises ==
  ASSUME NEW d \in Documents, NEW f \in Listed(d), NEW y \in Nat \cup {None}
  PROVE  /\ Revises(SetYear(d, f, y), d)
         /\ PairedOnce(d) => PairedOnce(SetYear(d, f, y))
<1> DEFINE n == SetYear(d, f, y)
<1>0. d \in [Listed(d) -> Entries] /\ \A g \in Listed(d) : d[g] \in Entries BY Document
<1>1. /\ n = [g \in Listed(d) |-> n[g]]
      /\ \A g \in Listed(d) :
        /\ n[g] \in Entries /\ n[g].ok = d[g].ok /\ n[g].prior = d[g].prior /\ n[g].role = d[g].role
        /\ n[g].include = d[g].include
  BY <1>0 DEF SetYear, Entries
<1> HIDE DEF n
<1>2. Revises(n, d) BY <1>1, Revised
<1>3. PairedOnce(d) => PairedOnce(n) BY <1>1, <1>2, SamePairs DEF Revises
<1> QED BY <1>2, <1>3 DEF n

(* The moves of a queueing: each chosen file comes before its prior year's. *)
LEMMA MovesOf ==
  ASSUME NEW d \in Documents
  PROVE  /\ Moves(d) \subseteq Files \X Files
         /\ \A m \in Moves(d) : /\ m[1] \in Ok(d) /\ m[2] \in Listed(d) /\ <<m[1], m[1]>> \in Moves(d)
                                /\ m[1] # m[2] => m[2] = d[m[1]].prior
         /\ Ready(d) => Moves(d) # {}
<1>1. /\ ToQueue(d) \subseteq Ok(d) /\ Ok(d) \subseteq Listed(d) /\ Listed(d) \subseteq Files
  BY Document DEF ToQueue
<1>2. ASSUME NEW m \in Moves(d)
      PROVE  /\ m = <<m[1], m[2]>> /\ m[1] \in ToQueue(d)
             /\ m[2] = m[1] \/ (m[2] = d[m[1]].prior /\ m[2] \in Listed(d))
  <2>1. CASE m \in {<<f, f>> : f \in ToQueue(d)} BY <2>1
  <2>2. CASE m \in {<<f, d[f].prior>> : f \in {f \in ToQueue(d) : d[f].prior \in Listed(d)}} BY <2>2
  <2> QED BY <2>1, <2>2 DEF Moves
<1>3. \A f \in ToQueue(d) : <<f, f>> \in Moves(d) BY DEF Moves
<1>4. Ready(d) => Moves(d) # {} BY <1>3 DEF Ready
<1> QED BY <1>1, <1>2, <1>3, <1>4

LEMMA Smallest ==
  ASSUME NEW T \in SUBSET Nat, T # {}
  PROVE  \E x \in T : \A y \in T : x <= y
<1> DEFINE Less == {ss \in Nat \X Nat : ss[1] < ss[2]}
<1>1. IsWellFoundedOn(Less, Nat) BY NatLessThanWellFounded, Zenon DEF OpToRel
<1>2. \A x, y \in Nat : y < x => <<y, x>> \in Less OBVIOUS
<1> HIDE DEF Less
<1>3. PICK x \in T : \A y \in T : <<y, x>> \notin Less BY <1>1, WFMin
<1>4. x \in Nat /\ \A y \in T : y \in Nat BY <1>3
<1>5. \A y \in T : ~(y < x) BY <1>2, <1>3, <1>4
<1>6. \A y \in T : x <= y BY <1>4, <1>5
<1> QED BY <1>3, <1>6

LEMMA FirstMove ==
  ASSUME NEW d \in Documents, NEW r, req[r].moves \subseteq Moves(d), req[r].moves # {}
  PROVE  /\ NextMove(r) \in req[r].moves
         /\ \A n \in req[r].moves \ {NextMove(r)} : Earlier(NextMove(r), n)
<1> DEFINE M == req[r].moves
           T == {m[1] : m \in M}
<1>1. /\ M \subseteq Files \X Files /\ Files \subseteq Nat
      /\ \A m \in M : m[1] # m[2] => m[2] = d[m[1]].prior
  BY MovesOf, Bounds
<1>2. T \in SUBSET Nat /\ T # {} BY <1>1
<1>3. PICK x \in T : \A y \in T : x <= y BY <1>2, Smallest
<1>4. \E m \in M : m[1] = x BY <1>3
<1>5. \A n \in M : n[1] \in Nat /\ x <= n[1] BY <1>1, <1>3
<1>6. \E m \in M : \A n \in M \ {m} : Earlier(m, n)
  <2>1. CASE <<x, x>> \in M
    <3>1. \A n \in M \ {<<x, x>>} : Earlier(<<x, x>>, n) BY <1>1, <1>5, <2>1 DEF Earlier
    <3> QED BY <2>1, <3>1
  <2>2. CASE <<x, x>> \notin M
    <3>1. PICK m \in M : m[1] = x BY <1>4
    <3>2. m = <<x, m[2]>> /\ m[2] # x /\ m[2] = d[x].prior BY <1>1, <2>2, <3>1
    <3>3. ASSUME NEW n \in M \ {m} PROVE x < n[1]
      <4>1. ASSUME n[1] = x PROVE FALSE
        <5>1. n = <<x, n[2]>> /\ n[2] # x /\ n[2] = d[x].prior BY <1>1, <2>2, <4>1
        <5> QED BY <5>1, <3>2
      <4> QED BY <4>1, <1>2, <1>3, <1>5
    <3> QED BY <3>1, <3>3 DEF Earlier
  <2> QED BY <2>1, <2>2
<1> QED BY <1>6 DEF NextMove

-----------------------------------------------------------------------------
(* Types. *)

EditCall(s, d)  == [NoRequest EXCEPT !.pc = "save", !.session = s, !.stage = d]
QueueCall(s, d) == [NoRequest EXCEPT !.pc = "client", !.session = s, !.stage = d, !.moves = Moves(d)]

LEMMA NewCall ==
  ASSUME NEW s \in Sessions, NEW d \in Documents
  PROVE  LET c == QueueCall(s, d) IN
         /\ c \in Calls
         /\ c.pc = "client" /\ c.session = s /\ c.stage = d /\ c.moves = Moves(d) /\ c.jobs = {}
<1>1. Moves(d) \in SUBSET (Files \X Files) BY MovesOf
<1> QED BY <1>1 DEF NoRequest, Calls, QueueCall

LEMMA NewEdit ==
  ASSUME NEW s \in Sessions, NEW d \in Documents
  PROVE  LET c == EditCall(s, d) IN
         /\ c \in Calls
         /\ c.pc = "save" /\ c.session = s /\ c.stage = d /\ c.moves = {} /\ c.jobs = {}
BY DEF NoRequest, Calls, EditCall

LEMMA OverCall ==
  LET c == [NoRequest EXCEPT !.pc = "over"] IN
  /\ c \in Calls /\ NoRequest \in Calls /\ NoRequest.pc = "new" /\ NoRequest.moves = {} /\ NoRequest.jobs = {}
  /\ c.pc = "over" /\ c.session = None /\ c.moves = {} /\ c.jobs = {} /\ c.created = {}
<1>1. <<>> \in Documents BY EmptyDocument
<1> QED BY <1>1 DEF NoRequest, Calls

LEMMA CallTyped ==
  ASSUME TypeCalls, NEW r \in Requests, NEW c \in Calls, CallHolds(c), req' = [req EXCEPT ![r] = c]
  PROVE  TypeCalls' /\ req'[r] = c /\ \A q \in Requests \ {r} : req'[q] = req[q]
BY DEF TypeCalls

\* A request goes on to its next step.
LEMMA CallGoes ==
  ASSUME TypeCalls, NEW r \in Requests,
         NEW pc \in {"answer", "blob", "enqueue", "del", "remove"}, Goto(r, pc),
         req[r].pc \notin {"new", "over"}, pc = "blob" => req[r].moves # {}
  PROVE  TypeCalls' /\ req'[r] = [req[r] EXCEPT !.pc = pc] /\ \A q \in Requests \ {r} : req'[q] = req[q]
<1> DEFINE c == [req[r] EXCEPT !.pc = pc]
<1>1. req[r] \in Calls /\ CallHolds(req[r]) /\ req \in [Requests -> Calls] BY DEF TypeCalls
<1>2. c \in Calls /\ c.pc = pc /\ c.moves = req[r].moves /\ c.stage = req[r].stage /\ c.session = req[r].session
  BY <1>1 DEF Calls
<1>3. req' = [req EXCEPT ![r] = c] BY DEF Goto
<1> HIDE DEF c
<1>4. CallHolds(c) BY <1>1, <1>2 DEF CallHolds
<1> QED BY <1>2, <1>3, <1>4, CallTyped DEF c

LEMMA NextMoveTyped ==
  ASSUME TypeCalls, NEW r \in Requests, req[r].pc \in {"client", "key", "blob"}
  PROVE  LET m == NextMove(r) IN
         /\ m \in req[r].moves /\ m \in Moves(req[r].stage) /\ m[1] \in Files /\ m[2] \in Files
         /\ m = <<m[1], m[2]>> /\ Job(r, m) \in JobIds /\ req[r].session \in Sessions
         /\ \A n \in req[r].moves \ {m} : Earlier(m, n)
<1>1. req[r] \in Calls /\ CallHolds(req[r]) BY DEF TypeCalls
<1>2. /\ req[r].stage \in Documents /\ req[r].moves \subseteq Moves(req[r].stage) /\ req[r].moves # {}
      /\ req[r].session \in Sessions /\ req[r].moves \subseteq Files \X Files
  BY <1>1 DEF Calls, CallHolds
<1>3. /\ NextMove(r) \in req[r].moves
      /\ \A n \in req[r].moves \ {NextMove(r)} : Earlier(NextMove(r), n)
  BY <1>2, FirstMove
<1> QED BY <1>2, <1>3 DEF Job, JobIds

LEMMA UploadTyped ==
  ASSUME TypeUploads, NEW s \in Sessions, NEW u \in Uploads, UploadHolds(u), upload' = [upload EXCEPT ![s] = u]
  PROVE  TypeUploads' /\ upload'[s] = u /\ \A t \in Sessions \ {s} : upload'[t] = upload[t]
BY DEF TypeUploads

LEMMA UploadRecord ==
  /\ NoUpload \in Uploads /\ UploadHolds(NoUpload) /\ NoUpload.pc = "none" /\ NoUpload.stage = <<>>
  /\ LET u == [NoUpload EXCEPT !.pc = "over"] IN
     u \in Uploads /\ UploadHolds(u) /\ u.pc = "over" /\ u.stage = <<>>
<1>1. <<>> \in Documents /\ Unpaired(<<>>) BY EmptyDocument DEF Unpaired
<1> QED BY <1>1 DEF NoUpload, Uploads, UploadHolds

LEMMA InitTypes == Init => TypeInv
<1> SUFFICES ASSUME Init PROVE TypeInv OBVIOUS
<1>1. TypeDocs BY DEF Init, TypeDocs
<1>2. TypeDisk BY DEF Init, TypeDisk, Places
<1>3. TypeUploads BY UploadRecord DEF Init, TypeUploads
<1>4. TypeCalls BY OverCall DEF Init, TypeCalls, CallHolds
<1>5. TypeTables BY DEF Init, TypeTables
<1> QED BY <1>1, <1>2, <1>3, <1>4, <1>5 DEF TypeInv

(* What no step of a group touches. *)
LEMMA Untouched ==
  /\ TypeDocs /\ UNCHANGED <<doc, view>> => TypeDocs'
  /\ TypeDisk /\ UNCHANGED disk => TypeDisk'
  /\ TypeUploads /\ UNCHANGED upload => TypeUploads'
  /\ TypeCalls /\ UNCHANGED req => TypeCalls'
  /\ TypeTables /\ UNCHANGED <<tables, sweep, revived>> => TypeTables'
BY DEF TypeDocs, TypeDisk, disk, TypeUploads, UploadHolds, TypeCalls, CallHolds, TypeTables, tables

LEMMA DocTyped ==
  ASSUME TypeDocs, NEW s \in Sessions, NEW d \in Documents \cup {None},
         \/ doc' = [doc EXCEPT ![s] = d] /\ view' \in {view, [view EXCEPT ![s] = d]}
         \/ view' = [view EXCEPT ![s] = d] /\ doc' = doc
  PROVE  TypeDocs'
BY DEF TypeDocs

\* A save.
LEMMA SaveTyped ==
  ASSUME TypeDocs, TypeTables, NEW s \in Sessions, NEW d \in Documents, Save(s, d), view' \in {view, [view EXCEPT ![s] = d]},
         UNCHANGED <<tables, sweep>>
  PROVE  TypeDocs' /\ TypeTables'
<1>1. TypeDocs' BY DocTyped DEF Save
<1>2. TypeTables' BY DEF Save, TypeTables, tables
<1> QED BY <1>1, <1>2

LEMMA GoneTyped == TypeDisk => \A s : Gone(s, key) \in [Files -> Places] /\ Gone(s, blob) \in [Files -> Places]
BY DEF TypeDisk, Gone, Places

LEMMA UploadTypes ==
  ASSUME TypeInv, NEW s \in Sessions, Upload(s)
  PROVE  TypeInv'
<1> USE DEF TypeInv
<1>0. upload \in [Sessions -> Uploads] /\ upload[s] \in Uploads /\ upload[s].stage \in Documents
  BY DEF TypeUploads, Uploads
<1>00. Unpaired(upload[s].stage) /\ (upload[s].pc \in {"blob", "staged"} => upload[s].file \in Files)
  BY DEF TypeUploads, UploadHolds
<1>1. CASE Create(s)
  <2> USE <1>1 DEF Create
  <2> DEFINE u == [upload[s] EXCEPT !.pc = "next"]
  <2>1. u \in Uploads /\ UploadHolds(u) /\ upload' = [upload EXCEPT ![s] = u]
    BY <1>0, <1>00 DEF Uploads, UploadHolds
  <2> HIDE DEF u
  <2>2. TypeUploads' BY <2>1, UploadTyped
  <2>3. TypeDocs' BY EmptyDocument, DocTyped
  <2> QED BY <2>2, <2>3, Untouched DEF UploadOnly
<1>2. ASSUME NEW f \in Files, Skip(s, f) PROVE TypeInv'
  <2> USE <1>2 DEF Skip
  <2> DEFINE n == With(upload[s].stage, f, Skipped)
             u == [upload[s] EXCEPT !.stage = n]
  <2>1. n \in Documents /\ Unpaired(n) BY <1>0, <1>00, FreshEntries, WithDocument, WithUnpaired
  <2> HIDE DEF n
  <2>2. u \in Uploads /\ UploadHolds(u) BY <1>0, <1>00, <2>1 DEF Uploads, UploadHolds
  <2>3. upload' = [upload EXCEPT ![s] = u] BY DEF n
  <2> HIDE DEF u
  <2>4. TypeUploads' BY <2>2, <2>3, UploadTyped
  <2> QED BY <2>4, Untouched DEF UploadOnly
<1>3. ASSUME NEW f \in Files, PutKey(s, f) PROVE TypeInv'
  <2> USE <1>3 DEF PutKey
  <2> DEFINE u == [upload[s] EXCEPT !.pc = "blob", !.file = f]
  <2>1. u \in Uploads /\ UploadHolds(u) /\ upload' = [upload EXCEPT ![s] = u]
    BY <1>0, <1>00 DEF Uploads, UploadHolds
  <2> HIDE DEF u
  <2>2. TypeUploads' BY <2>1, UploadTyped
  <2>3. TypeDisk' BY DEF TypeDisk, Places
  <2> QED BY <2>2, <2>3, Untouched DEF UploadOnly
<1>4. CASE PutBlob(s)
  <2> USE <1>4 DEF PutBlob
  <2> DEFINE u == [upload[s] EXCEPT !.pc = "staged"]
  <2>1. u \in Uploads /\ UploadHolds(u) /\ upload' = [upload EXCEPT ![s] = u]
    BY <1>0, <1>00 DEF Uploads, UploadHolds, Open
  <2> HIDE DEF u
  <2>2. TypeUploads' BY <2>1, UploadTyped
  <2>3. TypeDisk' BY DEF TypeDisk, Places
  <2> QED BY <2>2, <2>3, Untouched DEF UploadOnly
<1>5. CASE Staged(s)
  <2> DEFINE f == upload[s].file
             u(e) == [pc |-> "next", stage |-> With(upload[s].stage, f, e), file |-> None]
  <2>1. f \in Files BY <1>00, <1>5 DEF Staged, Open
  <2>2. Accepted(f) \in Entries /\ Skipped \in Entries BY <2>1, FreshEntries
  <2>3. \A e \in {Accepted(f), Skipped} :
          With(upload[s].stage, f, e) \in Documents /\ Unpaired(With(upload[s].stage, f, e))
    BY <1>0, <1>00, <2>1, FreshEntries, WithDocument, WithUnpaired
  <2>4. \A e \in {Accepted(f), Skipped} : u(e) \in Uploads /\ UploadHolds(u(e))
    BY <2>3 DEF Uploads, UploadHolds
  <2>5. upload' = [upload EXCEPT ![s] = u(Accepted(f))] \/ upload' = [upload EXCEPT ![s] = u(Skipped)]
    BY <1>5 DEF Staged
  <2> HIDE DEF u
  <2>6. TypeUploads' BY <2>2, <2>4, <2>5, UploadTyped
  <2>7. TypeDisk' BY <1>5, <2>1 DEF Staged, TypeDisk, disk, Places
  <2>8. UNCHANGED <<doc, view, revived>> /\ UploadOnly BY <1>5 DEF Staged
  <2> QED BY <2>6, <2>7, <2>8, Untouched DEF UploadOnly
<1>6. CASE Finalize(s) \/ UploadFails(s)
  <2> DEFINE u == [NoUpload EXCEPT !.pc = "over"]
  <2>1. u \in Uploads /\ UploadHolds(u) BY UploadRecord
  <2>2. upload' = [upload EXCEPT ![s] = u] BY <1>6 DEF Finalize, UploadFails
  <2> HIDE DEF u
  <2>3. TypeUploads' BY <2>1, <2>2, UploadTyped
  <2>4. UploadOnly /\ UNCHANGED disk BY <1>6 DEF Finalize, UploadFails
  <2>5. TypeDocs' /\ TypeTables'
    <3>1. CASE UploadFails(s) BY <3>1, Untouched DEF UploadFails, UploadOnly
    <3>2. CASE Finalize(s)
      <4>1. AutoPair(upload[s].stage) \in Documents
        BY <1>0, <1>00, AutoPairDocument
      <4> QED BY <3>2, <4>1, SaveTyped DEF Finalize, UploadOnly
    <3> QED BY <1>6, <3>1, <3>2
  <2> QED BY <2>3, <2>4, <2>5, Untouched DEF UploadOnly
<1> QED BY <1>1, <1>2, <1>3, <1>4, <1>5, <1>6 DEF Upload

(* A stored document that lists a file exists. *)
LEMMA StoredDocument ==
  ASSUME TypeDocs, NEW s \in Sessions
  PROVE  /\ Stored(s) \in Documents /\ Shown(s) \in Documents
         /\ Listed(Stored(s)) # {} => doc[s] # None /\ Stored(s) = doc[s] /\ doc[s] \in Documents
         /\ doc[s] # None => Stored(s) = doc[s] /\ doc[s] \in Documents
BY EmptyDocument DEF TypeDocs, Stored, Shown

(* Every edit is a revision of the stored document; only the choice of a prior year pairs. *)
Edit(r, s, n) ==
  /\ s \in Sessions /\ doc[s] # None /\ doc[s] \in Documents /\ Revises(n, doc[s])
  /\ PairedOnce(doc[s]) => PairedOnce(n)
  /\ Listed(Shown(s)) # {}
  /\ LoadEdit(r, s, n)

LEMMA EditRevises ==
  ASSUME TypeDocs, NEW s \in Sessions, NEW f \in Files, NEW r,
         EditPrior(r, s, f) \/ EditInclude(r, s, f) \/ EditClient(r, s, f) \/ EditYear(r, s, f)
  PROVE  \E n : Edit(r, s, n)
<1>0. Editable(s, f) BY DEF EditPrior, EditInclude, EditClient, EditYear
<1>1. f \in Listed(Stored(s)) /\ f \in Ok(Shown(s)) BY <1>0 DEF Editable
<1>2. doc[s] # None /\ doc[s] \in Documents /\ f \in Listed(doc[s]) BY <1>1, StoredDocument
<1>3. Listed(Shown(s)) # {} BY <1>1, StoredDocument, Document
<1>4. CASE EditPrior(r, s, f)
  <2>1. PICK p \in {None} \cup Offered(s) : /\ Pairable(doc[s], f, p)
                                            /\ LoadEdit(r, s, SetPrior(doc[s], f, p))
    BY <1>4 DEF EditPrior
  <2>2. p \in Ok(doc[s]) \cup {None} BY <2>1 DEF Pairable
  <2>3. Edit(r, s, SetPrior(doc[s], f, p))
    BY <1>2, <1>3, <2>1, <2>2, SetPriorRevises, SetPriorPairs DEF Edit
  <2> QED BY <2>3
<1>5. CASE EditInclude(r, s, f)
  <2>1. PICK b \in BOOLEAN : LoadEdit(r, s, SetInclude(doc[s], f, b)) BY <1>5 DEF EditInclude
  <2>2. Edit(r, s, SetInclude(doc[s], f, b)) BY <1>2, <1>3, <2>1, SetIncludeRevises DEF Edit
  <2> QED BY <2>2
<1>6. CASE EditClient(r, s, f)
  <2>1. PICK c \in Names \cup {None} : LoadEdit(r, s, SetClient(doc[s], f, c)) BY <1>6 DEF EditClient
  <2>2. Edit(r, s, SetClient(doc[s], f, c)) BY <1>2, <1>3, <2>1, SetClientRevises DEF Edit
  <2> QED BY <2>2
<1>7. CASE EditYear(r, s, f)
  <2>1. PICK y \in {DetectedYear[g] : g \in Files} \cup {None} :
               LoadEdit(r, s, SetYear(doc[s], f, y))
    BY <1>7 DEF EditYear
  <2>2. y \in Nat \cup {None} BY Bounds
  <2>3. Edit(r, s, SetYear(doc[s], f, y)) BY <1>2, <1>3, <2>1, <2>2, SetYearRevises DEF Edit
  <2> QED BY <2>3
<1> QED BY <1>4, <1>5, <1>6, <1>7

LEMMA EditTypes ==
  ASSUME TypeInv, NEW r \in Requests, NEW s \in Sessions, NEW n, Edit(r, s, n)
  PROVE  /\ TypeInv' /\ \A q \in Requests \ {r} : req'[q] = req[q]
         /\ req'[r].pc = "save" /\ req'[r].session = s /\ req'[r].stage = n
         /\ req'[r].moves = {} /\ req'[r].jobs = {}
<1> DEFINE c == EditCall(s, n)
<1>1. n \in Documents BY DEF Edit, Revises
<1>2. /\ c \in Calls /\ c.pc = "save" /\ c.session = s /\ c.stage = n /\ c.moves = {} /\ c.jobs = {}
  BY <1>1, NewEdit
<1>4. req' = [req EXCEPT ![r] = c] BY DEF Edit, LoadEdit, EditCall
<1> HIDE DEF c
<1>3. CallHolds(c) BY <1>2 DEF CallHolds
<1>5. TypeCalls' /\ req'[r] = c /\ \A q \in Requests \ {r} : req'[q] = req[q]
  BY <1>2, <1>3, <1>4, CallTyped DEF TypeInv
<1> QED BY <1>2, <1>5, Untouched DEF TypeInv, Edit, LoadEdit, RequestOnly

LEMMA LoadQueueTypes ==
  ASSUME TypeInv, NEW r \in Requests, NEW s \in Sessions, LoadQueue(r, s)
  PROVE  /\ TypeInv' /\ \A q \in Requests \ {r} : req'[q] = req[q]
         /\ doc[s] # None /\ doc[s] \in Documents /\ Listed(Shown(s)) # {}
         /\ req'[r].pc = "client" /\ req'[r].session = s /\ req'[r].stage = doc[s]
         /\ req'[r].moves = Moves(doc[s]) /\ req'[r].jobs = {}
<1> DEFINE c == QueueCall(s, doc[s])
<1>1. Ready(Stored(s)) BY DEF LoadQueue
<1>2. Listed(Stored(s)) # {} BY <1>1, StoredDocument, Document DEF Ready, ToQueue, TypeInv
<1>3. doc[s] # None /\ doc[s] \in Documents /\ Ready(doc[s]) BY <1>1, <1>2, StoredDocument DEF TypeInv
<1>4. Moves(doc[s]) # {} /\ Moves(doc[s]) \in SUBSET (Files \X Files) BY <1>3, MovesOf
<1>5. /\ c \in Calls /\ c.pc = "client" /\ c.session = s /\ c.stage = doc[s]
      /\ c.moves = Moves(doc[s]) /\ c.jobs = {}
  BY <1>3, NewCall
<1>6. req' = [req EXCEPT ![r] = c] BY DEF LoadQueue, QueueCall
<1> HIDE DEF c
<1>7. CallHolds(c) BY <1>4, <1>5 DEF CallHolds
<1>8. TypeCalls' /\ req'[r] = c /\ \A q \in Requests \ {r} : req'[q] = req[q]
  BY <1>5, <1>6, <1>7, CallTyped DEF TypeInv
<1>9. Listed(Shown(s)) # {} BY StoredDocument, Document DEF LoadQueue, ToQueue, TypeInv
<1> QED BY <1>3, <1>5, <1>8, <1>9, Untouched DEF TypeInv, LoadQueue, RequestOnly

LEMMA OverTypes ==
  ASSUME TypeCalls, NEW r \in Requests, req' = [req EXCEPT ![r] = [NoRequest EXCEPT !.pc = "over"]]
  PROVE  /\ TypeCalls' /\ \A q \in Requests \ {r} : req'[q] = req[q]
         /\ req'[r].pc = "over" /\ req'[r].moves = {} /\ req'[r].jobs = {}
<1> DEFINE c == [NoRequest EXCEPT !.pc = "over"]
<1>1. c \in Calls /\ CallHolds(c) /\ c.pc = "over" /\ c.moves = {} /\ c.jobs = {} BY OverCall DEF CallHolds
<1> HIDE DEF c
<1> QED BY <1>1, CallTyped DEF c

LEMMA SaveEditTypes ==
  ASSUME TypeInv, NEW r \in Requests, SaveEdit(r)
  PROVE  TypeInv'
<1>1. req[r] \in Calls /\ CallHolds(req[r]) /\ req[r].pc = "save" BY DEF TypeInv, TypeCalls, SaveEdit, In
<1>2. req[r].session \in Sessions /\ req[r].stage \in Documents BY <1>1 DEF Calls, CallHolds
<1>3. TypeDocs' /\ TypeTables' BY <1>2, SaveTyped DEF TypeInv, SaveEdit, RequestOnly
<1>4. TypeCalls' BY <1>1, CallGoes DEF TypeInv, SaveEdit
<1> QED BY <1>3, <1>4, Untouched DEF TypeInv, SaveEdit, RequestOnly

LEMMA ShowEditTypes ==
  ASSUME TypeInv, NEW r \in Requests, ShowEdit(r)
  PROVE  TypeInv'
<1>1. req[r] \in Calls /\ CallHolds(req[r]) /\ req[r].pc = "answer" BY DEF TypeInv, TypeCalls, ShowEdit, In
<1>2. req[r].session \in Sessions /\ req[r].stage \in Documents BY <1>1 DEF Calls, CallHolds
<1>3. TypeDocs' BY <1>2, DocTyped DEF TypeInv, ShowEdit
<1>4. TypeCalls' BY OverTypes DEF TypeInv, ShowEdit
<1> QED BY <1>3, <1>4, Untouched DEF TypeInv, ShowEdit, RequestOnly

LEMMA FindClientTypes ==
  ASSUME TypeInv, NEW r \in Requests, FindClient(r)
  PROVE  /\ TypeInv' /\ \A q \in Requests \ {r} : req'[q] = req[q]
         /\ req'[r] = [req[r] EXCEPT !.pc = "key", !.created = req'[r].created]
<1> DEFINE m == NextMove(r)
           name == req[r].stage[m[1]].client
           made == IF name \in Names \ {x[1] : x \in clients \cup req[r].created}
                   THEN req[r].created \cup {<<name, Job(r, m)>>} ELSE req[r].created
           c == [req[r] EXCEPT !.pc = "key", !.created = made]
<1>1. req[r] \in Calls /\ CallHolds(req[r]) /\ req[r].pc = "client" /\ req \in [Requests -> Calls]
  BY DEF TypeInv, TypeCalls, FindClient, In
<1>2. Job(r, m) \in JobIds BY <1>1, NextMoveTyped DEF TypeInv
<1>3. made \in SUBSET (Names \X JobIds) BY <1>1, <1>2 DEF Calls
<1>4. req' = [req EXCEPT ![r] = c] BY DEF FindClient
<1> HIDE DEF made
<1>5. /\ c \in Calls /\ c.pc = "key" /\ c.moves = req[r].moves /\ c.stage = req[r].stage
      /\ c.session = req[r].session /\ c.created = made
  BY <1>1, <1>3 DEF Calls
<1> HIDE DEF c
<1>6. CallHolds(c) BY <1>1, <1>5 DEF CallHolds
<1>7. TypeCalls' /\ req'[r] = c /\ \A q \in Requests \ {r} : req'[q] = req[q]
  BY <1>4, <1>5, <1>6, CallTyped DEF TypeInv
<1>8. TypeInv' BY <1>7, Untouched DEF TypeInv, FindClient, RequestOnly
<1> QED BY <1>5, <1>7, <1>8 DEF c

LEMMA MoveKeyTypes ==
  ASSUME TypeInv, NEW r \in Requests, MoveKey(r)
  PROVE  /\ TypeInv' /\ \A q \in Requests \ {r} : req'[q] = req[q]
         /\ req'[r] = [req[r] EXCEPT !.pc = "blob"]
<1>1. req[r] \in Calls /\ CallHolds(req[r]) /\ req[r].pc = "key" BY DEF TypeInv, TypeCalls, MoveKey, In
<1>2. Job(r, NextMove(r)) \in JobIds /\ req[r].session \in Sessions BY <1>1, NextMoveTyped DEF TypeInv
<1>3. /\ TypeCalls' /\ req'[r] = [req[r] EXCEPT !.pc = "blob"]
      /\ \A q \in Requests \ {r} : req'[q] = req[q]
  BY <1>1, CallGoes DEF TypeInv, MoveKey, CallHolds
<1>4. TypeDisk' BY <1>2 DEF TypeInv, MoveKey, TypeDisk, Places
<1>5. TypeTables' BY <1>2 DEF TypeInv, MoveKey, RequestOnly, TypeTables, tables
<1> QED BY <1>3, <1>4, <1>5, Untouched DEF TypeInv, MoveKey, RequestOnly

\* What a move of the blob leaves: the rows of the job, the moves that remain.
Row(r, m) == [job |-> Job(r, m), source |-> m[1], prior |-> None]
RowsAfter(r, m) ==
  IF m[1] = m[2] THEN req[r].jobs \cup {Row(r, m)}
  ELSE (req[r].jobs \ {Row(r, m)}) \cup {[Row(r, m) EXCEPT !.prior = m[2]]}
StepAfter(r, m) ==
  LET rest == req[r].moves \ {m} IN
  IF rest = {} THEN "commit" ELSE IF \E n \in rest : n[1] = m[1] THEN "key" ELSE "client"
CallAfter(r, m) ==
  [req[r] EXCEPT !.moves = req[r].moves \ {m}, !.jobs = RowsAfter(r, m), !.pc = StepAfter(r, m)]

LEMMA MoveBlobTypes ==
  ASSUME TypeInv, NEW r \in Requests, MoveBlob(r)
  PROVE  LET m == NextMove(r) IN
         /\ TypeInv' /\ \A q \in Requests \ {r} : req'[q] = req[q]
         /\ req'[r] = CallAfter(r, m)
         /\ req'[r].pc = StepAfter(r, m) /\ req'[r].moves = req[r].moves \ {m}
         /\ req'[r].jobs = RowsAfter(r, m)
         /\ req'[r].session = req[r].session /\ req'[r].stage = req[r].stage
<1> DEFINE m == NextMove(r)
           c == CallAfter(r, m)
<1>1. req[r] \in Calls /\ CallHolds(req[r]) /\ req[r].pc = "blob" BY DEF TypeInv, TypeCalls, MoveBlob, In
<1>2. /\ Job(r, m) \in JobIds /\ m[1] \in Files /\ m[2] \in Files /\ req[r].session \in Sessions
  BY <1>1, NextMoveTyped DEF TypeInv
<1>3. Row(r, m) \in JobRows /\ [Row(r, m) EXCEPT !.prior = m[2]] \in JobRows
  BY <1>2 DEF Row, JobRows
<1>4. RowsAfter(r, m) \in SUBSET JobRows BY <1>1, <1>3 DEF RowsAfter, Calls
<1>5. /\ StepAfter(r, m) \in {"commit", "key", "client"}
      /\ req[r].moves \ {m} = {} => StepAfter(r, m) = "commit"
  BY DEF StepAfter
<1>6. AfterMove(r) => req' = [req EXCEPT ![r] = c] BY DEF AfterMove, CallAfter, RowsAfter, StepAfter, Row
<1>7. /\ c \in Calls /\ c.pc = StepAfter(r, m) /\ c.moves = req[r].moves \ {m} /\ c.jobs = RowsAfter(r, m)
      /\ c.stage = req[r].stage /\ c.session = req[r].session
  BY <1>1, <1>4, <1>5 DEF Calls, CallAfter
<1> HIDE DEF c
<1>8. CallHolds(c) BY <1>1, <1>2, <1>5, <1>7 DEF CallHolds
<1>9. TypeCalls' /\ req'[r] = c /\ \A q \in Requests \ {r} : req'[q] = req[q]
  BY <1>6, <1>7, <1>8, CallTyped DEF TypeInv, MoveBlob
<1>10. TypeDisk' BY <1>2 DEF TypeInv, MoveBlob, TypeDisk, Places
<1>11. TypeInv' BY <1>9, <1>10, Untouched DEF TypeInv, MoveBlob, RequestOnly
<1> QED BY <1>7, <1>9, <1>11 DEF c

LEMMA BreakTypes ==
  ASSUME TypeInv, NEW r \in Requests, Break(r)
  PROVE  /\ TypeInv' /\ \A q \in Requests \ {r} : req'[q] = req[q]
         /\ req'[r].pc = "over" /\ req'[r].moves = {} /\ req'[r].jobs = {}
<1>1. /\ TypeCalls' /\ \A q \in Requests \ {r} : req'[q] = req[q]
      /\ req'[r].pc = "over" /\ req'[r].moves = {} /\ req'[r].jobs = {}
  BY OverTypes DEF TypeInv, Break
<1> QED BY <1>1, Untouched DEF TypeInv, Break, RequestOnly

LEMMA CommitTypes ==
  ASSUME TypeInv, NEW r \in Requests, Commit(r)
  PROVE  /\ TypeInv' /\ \A q \in Requests \ {r} : req'[q] = req[q]
         /\ req'[r] = [req[r] EXCEPT !.pc = "enqueue"]
<1>1. req[r] \in Calls /\ CallHolds(req[r]) /\ req[r].pc = "commit" BY DEF TypeInv, TypeCalls, Commit, In
<1>2. /\ TypeCalls' /\ req'[r] = [req[r] EXCEPT !.pc = "enqueue"]
      /\ \A q \in Requests \ {r} : req'[q] = req[q]
  BY <1>1, CallGoes DEF TypeInv, Commit
<1>3. req[r].jobs \subseteq JobRows /\ req[r].created \subseteq Names \X JobIds BY <1>1 DEF Calls
<1>4. TypeTables' BY <1>3 DEF TypeInv, Commit, RequestOnly, TypeTables
<1> QED BY <1>2, <1>4, Untouched DEF TypeInv, Commit, RequestOnly

LEMMA EnqueueTypes ==
  ASSUME TypeInv, NEW r \in Requests, Enqueue(r)
  PROVE  /\ TypeInv' /\ \A q \in Requests \ {r} : req'[q] = req[q]
         /\ req'[r] \in {req[r], [req[r] EXCEPT !.pc = "del"]}
<1>1. req[r] \in Calls /\ CallHolds(req[r]) /\ req[r].pc = "enqueue" BY DEF TypeInv, TypeCalls, Enqueue, In
<1>2. req[r].jobs \subseteq JobRows BY <1>1 DEF Calls
<1>3. CASE Goto(r, "del") /\ UNCHANGED enqueued
  <2>1. /\ TypeCalls' /\ req'[r] = [req[r] EXCEPT !.pc = "del"]
        /\ \A q \in Requests \ {r} : req'[q] = req[q]
    BY <1>1, <1>3, CallGoes DEF TypeInv
  <2>2. TypeTables' BY <1>3 DEF TypeInv, Enqueue, RequestOnly, TypeTables
  <2> QED BY <2>1, <2>2, Untouched DEF TypeInv, Enqueue, RequestOnly
<1>4. CASE UNCHANGED req /\ \E j \in req[r].jobs : enqueued' = enqueued \cup {j.job}
  <2>1. TypeTables' BY <1>2, <1>4 DEF TypeInv, Enqueue, RequestOnly, TypeTables, JobRows
  <2> QED BY <1>4, <2>1, Untouched DEF TypeInv, Enqueue, RequestOnly
<1> QED BY <1>3, <1>4 DEF Enqueue

LEMMA DeleteDocTypes ==
  ASSUME TypeInv, NEW r \in Requests, DeleteDoc(r)
  PROVE  /\ TypeInv' /\ \A q \in Requests \ {r} : req'[q] = req[q]
         /\ req'[r] = [req[r] EXCEPT !.pc = "remove"] /\ req[r].session \in Sessions
<1>1. req[r] \in Calls /\ CallHolds(req[r]) /\ req[r].pc = "del" BY DEF TypeInv, TypeCalls, DeleteDoc, In
<1>2. req[r].session \in Sessions BY <1>1 DEF CallHolds
<1>3. /\ TypeCalls' /\ req'[r] = [req[r] EXCEPT !.pc = "remove"]
      /\ \A q \in Requests \ {r} : req'[q] = req[q]
  BY <1>1, CallGoes DEF TypeInv, DeleteDoc
<1>4. TypeDocs' BY <1>2, DocTyped DEF TypeInv, DeleteDoc
<1> QED BY <1>2, <1>3, <1>4, Untouched DEF TypeInv, DeleteDoc, RequestOnly

LEMMA RemoveScopeTypes ==
  ASSUME TypeInv, NEW r \in Requests, RemoveScope(r)
  PROVE  /\ TypeInv' /\ \A q \in Requests \ {r} : req'[q] = req[q]
         /\ req'[r].pc = "over" /\ req'[r].moves = {} /\ req'[r].jobs = {} /\ req[r].session \in Sessions
<1>1. req[r] \in Calls /\ CallHolds(req[r]) /\ req[r].pc = "remove" BY DEF TypeInv, TypeCalls, RemoveScope, In
<1>2. req[r].session \in Sessions BY <1>1 DEF CallHolds
<1>3. /\ TypeCalls' /\ \A q \in Requests \ {r} : req'[q] = req[q]
      /\ req'[r].pc = "over" /\ req'[r].moves = {} /\ req'[r].jobs = {}
  BY OverTypes DEF TypeInv, RemoveScope
<1>4. TypeDocs' BY <1>2, DocTyped DEF TypeInv, RemoveScope
<1>5. TypeDisk' BY GoneTyped DEF TypeInv, RemoveScope, TypeDisk
<1> QED BY <1>2, <1>3, <1>4, <1>5, Untouched DEF TypeInv, RemoveScope, RequestOnly

LEMMA OtherTypes ==
  ASSUME TypeInv, SweepRemove \/ \E s \in Sessions : Expire(s) \/ SweepFind(s)
  PROVE  TypeInv'
<1>1. CASE SweepRemove
  <2>1. TypeDisk' BY <1>1, GoneTyped DEF TypeInv, SweepRemove, TypeDisk
  <2>2. TypeTables' BY <1>1 DEF TypeInv, SweepRemove, OtherOnly, TypeTables, tables
  <2> QED BY <1>1, <2>1, <2>2, Untouched DEF TypeInv, SweepRemove, OtherOnly
<1>2. ASSUME NEW s \in Sessions, Expire(s) PROVE TypeInv'
  <2>1. TypeDocs' BY <1>2, DocTyped DEF TypeInv, Expire, OtherOnly
  <2> QED BY <1>2, <2>1, Untouched DEF TypeInv, Expire, OtherOnly
<1>3. ASSUME NEW s \in Sessions, SweepFind(s) PROVE TypeInv'
  <2>1. TypeTables' BY <1>3 DEF TypeInv, SweepFind, OtherOnly, TypeTables, tables
  <2> QED BY <1>3, <2>1, Untouched DEF TypeInv, SweepFind, OtherOnly
<1> QED BY <1>1, <1>2, <1>3

(* The steps, an edit being a revision. *)
LEMMA Steps ==
  ASSUME TypeInv, Next
  PROVE  \/ \E s \in Sessions : Upload(s) \/ Expire(s) \/ SweepFind(s)
         \/ SweepRemove
         \/ \E r \in Requests : \/ \E s \in Sessions : LoadQueue(r, s) \/ \E n : Edit(r, s, n)
                                \/ SaveEdit(r) \/ ShowEdit(r) \/ FindClient(r) \/ MoveKey(r) \/ MoveBlob(r)
                                \/ Commit(r) \/ Enqueue(r) \/ DeleteDoc(r) \/ RemoveScope(r) \/ Break(r)
<1>1. ASSUME NEW r \in Requests, Click(r)
      PROVE  \E s \in Sessions : LoadQueue(r, s) \/ \E n : Edit(r, s, n)
  BY <1>1, EditRevises DEF Click, TypeInv
<1> QED BY <1>1 DEF Next, Serve, Sweep

LEMMA NextTypes == TypeInv /\ [Next]_vars => TypeInv'
<1> SUFFICES ASSUME TypeInv, [Next]_vars PROVE TypeInv' OBVIOUS
<1>1. CASE UNCHANGED vars BY <1>1, Untouched DEF TypeInv, vars, disk, tables
<1>2. CASE Next
  BY <1>2, Steps, UploadTypes, EditTypes, LoadQueueTypes, SaveEditTypes, ShowEditTypes, FindClientTypes,
     MoveKeyTypes, MoveBlobTypes, CommitTypes, EnqueueTypes, DeleteDocTypes, RemoveScopeTypes, BreakTypes,
     OtherTypes
<1> QED BY <1>1, <1>2

LEMMA TypesAlways == Spec => []TypeInv
BY InitTypes, NextTypes, PTL DEF Spec

LEMMA TypesMean == TypeInv => TypeOK
<1> SUFFICES ASSUME TypeInv PROVE TypeOK OBVIOUS
<1>1. \A s \in Sessions : (doc[s] # None => IsDoc(doc[s])) /\ (view[s] # None => IsDoc(view[s]))
  BY Document DEF TypeInv, TypeDocs
<1>2. \A s \in Sessions : upload[s].pc \in {"none", "next", "blob", "staged", "over"} /\ IsDoc(upload[s].stage)
  BY Document DEF TypeInv, TypeUploads, Uploads
<1>3. \A r \in Requests : req[r] \in Calls /\ IsDoc(req[r].stage)
  BY Document DEF TypeInv, TypeCalls, Calls
<1>4. \A r \in Requests : /\ req[r].pc \in {"new", "save", "answer", "client", "key", "blob", "commit",
                                            "enqueue", "del", "remove", "over"}
                          /\ req[r].session \in Sessions \cup {None}
                          /\ req[r].created \subseteq Names \X JobIds /\ req[r].jobs \subseteq JobRows
  BY <1>3 DEF Calls
<1> QED BY <1>1, <1>2, <1>3, <1>4 DEF TypeOK, TypeInv, TypeDisk, TypeTables

\* Every reachable state is well typed: of any number of sessions, files and requests.
THEOREM TypeCorrect == Spec => []TypeOK
BY TypesAlways, TypesMean, PTL

\* The steps of a request that has loaded its document leave session and document in memory alone.
GoesOn(r) ==
  /\ req[r].pc \notin {"new", "over"} /\ req'[r].pc \notin {"new", "over"}
  /\ req'[r].session = req[r].session /\ req'[r].stage = req[r].stage
  /\ req'[r].moves \subseteq req[r].moves
Ends(r) == req'[r].pc = "over" /\ req'[r].moves = {} /\ req'[r].jobs = {}

LEMMA CallSteps ==
  ASSUME TypeInv, NEW r \in Requests,
         \/ SaveEdit(r) \/ ShowEdit(r) \/ FindClient(r) \/ MoveKey(r) \/ MoveBlob(r)
         \/ Commit(r) \/ Enqueue(r) \/ DeleteDoc(r) \/ RemoveScope(r) \/ Break(r)
  PROVE  /\ GoesOn(r) \/ Ends(r)
         /\ \A q \in Requests \ {r} : req'[q] = req[q]
         /\ UNCHANGED <<upload, sweep>> /\ req[r].session \in Sessions /\ TypeInv'
         /\ req[r].pc \notin {"new", "over"}
<1>0. /\ req[r] \in Calls /\ TypeCalls /\ req \in [Requests -> Calls] /\ CallHolds(req[r])
      /\ UNCHANGED <<upload, sweep>>
  BY DEF TypeInv, TypeCalls, SaveEdit, ShowEdit, FindClient, MoveKey, MoveBlob, Commit, Enqueue, DeleteDoc,
         RemoveScope, Break, RequestOnly
<1>1. req[r].pc \notin {"new", "over"}
  BY DEF SaveEdit, ShowEdit, FindClient, MoveKey, MoveBlob, Commit, Enqueue, DeleteDoc, RemoveScope, Break, In
<1>2. req[r].session \in Sessions BY <1>0, <1>1 DEF CallHolds
<1>3. CASE SaveEdit(r)
  <2>1. TypeInv' BY <1>3, SaveEditTypes
  <2>2. req' = [req EXCEPT ![r].pc = "answer"] BY <1>3 DEF SaveEdit, Goto
  <2>3. /\ req'[r].pc = "answer" /\ req'[r].session = req[r].session /\ req'[r].stage = req[r].stage
        /\ req'[r].moves = req[r].moves /\ \A q \in Requests \ {r} : req'[q] = req[q]
    BY <1>0, <2>2 DEF Calls
  <2> QED BY <1>0, <1>1, <1>2, <2>1, <2>3 DEF GoesOn
<1>4. CASE ShowEdit(r)
  <2>1. TypeInv' BY <1>4, ShowEditTypes
  <2>2. Ends(r) /\ \A q \in Requests \ {r} : req'[q] = req[q]
    BY <1>0, <1>4, OverTypes DEF ShowEdit, Ends
  <2> QED BY <1>0, <1>1, <1>2, <2>1, <2>2
<1>5. CASE FindClient(r)
  <2>1. /\ TypeInv' /\ \A q \in Requests \ {r} : req'[q] = req[q]
        /\ req'[r] = [req[r] EXCEPT !.pc = "key", !.created = req'[r].created]
    BY <1>5, FindClientTypes
  <2>2. GoesOn(r) BY <1>0, <1>1, <2>1 DEF GoesOn, Calls
  <2> QED BY <1>0, <1>1, <1>2, <2>1, <2>2
<1>6. CASE MoveKey(r)
  <2>1. /\ TypeInv' /\ \A q \in Requests \ {r} : req'[q] = req[q]
        /\ req'[r] = [req[r] EXCEPT !.pc = "blob"]
    BY <1>6, MoveKeyTypes
  <2>2. GoesOn(r) BY <1>0, <1>1, <2>1 DEF GoesOn, Calls
  <2> QED BY <1>0, <1>1, <1>2, <2>1, <2>2
<1>7. CASE MoveBlob(r)
  <2> DEFINE m == NextMove(r)
  <2>1. /\ TypeInv' /\ \A q \in Requests \ {r} : req'[q] = req[q]
        /\ req'[r].pc = StepAfter(r, m) /\ req'[r].moves = req[r].moves \ {m}
        /\ req'[r].session = req[r].session /\ req'[r].stage = req[r].stage
    BY <1>7, MoveBlobTypes
  <2>2. StepAfter(r, m) \in {"commit", "key", "client"} BY DEF StepAfter
  <2>3. GoesOn(r) BY <1>0, <1>1, <2>1, <2>2 DEF GoesOn
  <2> QED BY <1>0, <1>1, <1>2, <2>1, <2>3
<1>8. CASE Commit(r)
  <2>1. /\ TypeInv' /\ \A q \in Requests \ {r} : req'[q] = req[q]
        /\ req'[r] = [req[r] EXCEPT !.pc = "enqueue"]
    BY <1>8, CommitTypes
  <2>2. GoesOn(r) BY <1>0, <1>1, <2>1 DEF GoesOn, Calls
  <2> QED BY <1>0, <1>1, <1>2, <2>1, <2>2
<1>9. CASE Enqueue(r)
  <2>1. /\ TypeInv' /\ \A q \in Requests \ {r} : req'[q] = req[q]
        /\ req'[r] \in {req[r], [req[r] EXCEPT !.pc = "del"]}
    BY <1>9, EnqueueTypes
  <2>2. GoesOn(r) BY <1>0, <1>1, <2>1 DEF GoesOn, Calls
  <2> QED BY <1>0, <1>1, <1>2, <2>1, <2>2
<1>10. CASE DeleteDoc(r)
  <2>1. /\ TypeInv' /\ \A q \in Requests \ {r} : req'[q] = req[q]
        /\ req'[r] = [req[r] EXCEPT !.pc = "remove"]
    BY <1>10, DeleteDocTypes
  <2>2. GoesOn(r) BY <1>0, <1>1, <2>1 DEF GoesOn, Calls
  <2> QED BY <1>0, <1>1, <1>2, <2>1, <2>2
<1>11. CASE RemoveScope(r)
  BY <1>0, <1>1, <1>2, <1>11, RemoveScopeTypes DEF Ends
<1>12. CASE Break(r)
  BY <1>0, <1>1, <1>2, <1>12, BreakTypes DEF Ends
<1> QED BY <1>3, <1>4, <1>5, <1>6, <1>7, <1>8, <1>9, <1>10, <1>11, <1>12

-----------------------------------------------------------------------------
(* Pairing. *)

LEMMA EmptyPaired == PairedOnce(<<>>)
BY EmptyDocument DEF PairedOnce

LEMMA PairingsInit == Init => Pairings
BY OverCall DEF Init, Pairings

\* A queueing of a paired document moves no file twice.
LEMMA PairedMovesOnce ==
  ASSUME NEW d \in Documents, PairedOnce(d), NEW m \in Moves(d), NEW n \in Moves(d), m[2] = n[2]
  PROVE  m = n
<1>1. Listed(d) \subseteq Files /\ None \notin Files BY Document, Bounds
<1>2. \A k \in Moves(d) : /\ k = <<k[1], k[2]>> /\ k[1] \in ToQueue(d)
                          /\ k[2] = k[1] \/ (k[2] = d[k[1]].prior /\ k[2] \in Listed(d))
  <2> SUFFICES ASSUME NEW k \in Moves(d)
               PROVE  /\ k = <<k[1], k[2]>> /\ k[1] \in ToQueue(d)
                      /\ k[2] = k[1] \/ (k[2] = d[k[1]].prior /\ k[2] \in Listed(d))
    OBVIOUS
  <2>1. CASE k \in {<<f, f>> : f \in ToQueue(d)} BY <2>1
  <2>2. CASE k \in {<<f, d[f].prior>> : f \in {f \in ToQueue(d) : d[f].prior \in Listed(d)}} BY <2>2
  <2> QED BY <2>1, <2>2 DEF Moves
<1>3. \A f \in ToQueue(d) : f \in Listed(d) /\ d[f].role = "source" BY DEF ToQueue, Ok
\* A chosen file is nobody's prior year, and a prior year has one file that names it.
<1>4. \A f, g \in ToQueue(d) : d[f].prior \in Listed(d) => d[f].prior # g BY <1>1, <1>3 DEF PairedOnce
<1>5. \A f, g \in ToQueue(d) : d[f].prior \in Listed(d) /\ d[f].prior = d[g].prior => f = g
  BY <1>1, <1>3 DEF PairedOnce
<1>6. m[1] = n[1] BY <1>2, <1>4, <1>5
<1> QED BY <1>2, <1>6

LEMMA PairingsSession ==
  ASSUME PairInv, NEW s \in Sessions, Upload(s) \/ Expire(s) \/ SweepFind(s)
  PROVE  Pairings'
<1>0. doc \in [Sessions -> Documents \cup {None}] /\ UNCHANGED req
  BY DEF PairInv, TypeInv, TypeDocs, Upload, Create, Skip, PutKey, PutBlob, Staged, Finalize, UploadFails,
         UploadOnly, Expire, SweepFind, OtherOnly
<1>1. CASE Create(s) BY <1>0, <1>1, EmptyPaired DEF PairInv, Pairings, Create
<1>2. CASE Finalize(s)
  <2>1. Unpaired(upload[s].stage) /\ upload[s].stage \in Documents
    BY DEF PairInv, TypeInv, TypeUploads, UploadHolds, Uploads
  <2>2. PairedOnce(AutoPair(upload[s].stage)) BY <2>1, AutoPairDocument
  <2> QED BY <1>0, <1>2, <2>2 DEF PairInv, Pairings, Finalize, Save
<1>3. CASE UNCHANGED doc BY <1>0, <1>3 DEF PairInv, Pairings
<1>4. CASE Expire(s) BY <1>0, <1>4 DEF PairInv, Pairings, Expire
<1> QED BY <1>1, <1>2, <1>3, <1>4 DEF Upload, Skip, PutKey, PutBlob, Staged, UploadFails, SweepFind

LEMMA PairingsRequest ==
  ASSUME PairInv, NEW r \in Requests,
         \/ \E s \in Sessions : LoadQueue(r, s) \/ \E n : Edit(r, s, n)
         \/ SaveEdit(r) \/ ShowEdit(r) \/ FindClient(r) \/ MoveKey(r) \/ MoveBlob(r)
         \/ Commit(r) \/ Enqueue(r) \/ DeleteDoc(r) \/ RemoveScope(r) \/ Break(r)
  PROVE  Pairings'
<1>0. TypeInv /\ Pairings /\ TypeDocs /\ doc \in [Sessions -> Documents \cup {None}] /\ TypeCalls
      /\ req[r] \in Calls
  BY DEF PairInv, TypeInv, TypeDocs, TypeCalls
<1>1. ASSUME NEW s \in Sessions, NEW n, Edit(r, s, n) PROVE Pairings'
  <2>1. /\ \A q \in Requests \ {r} : req'[q] = req[q]
        /\ req'[r].pc = "save" /\ req'[r].stage = n
    BY <1>0, <1>1, EditTypes
  <2>2. PairedOnce(n) BY <1>0, <1>1 DEF Edit, Pairings
  <2> QED BY <1>0, <1>1, <2>1, <2>2 DEF Pairings, Edit, LoadEdit
<1>2. ASSUME NEW s \in Sessions, LoadQueue(r, s) PROVE Pairings'
  <2>1. /\ \A q \in Requests \ {r} : req'[q] = req[q]
        /\ req'[r].pc = "client" /\ req'[r].stage = doc[s] /\ doc[s] # None
    BY <1>0, <1>2, LoadQueueTypes
  <2> QED BY <1>0, <1>2, <2>1 DEF Pairings, LoadQueue
<1>3. ASSUME \/ SaveEdit(r) \/ ShowEdit(r) \/ FindClient(r) \/ MoveKey(r) \/ MoveBlob(r)
             \/ Commit(r) \/ Enqueue(r) \/ DeleteDoc(r) \/ RemoveScope(r) \/ Break(r)
      PROVE  Pairings'
  <2>1. /\ GoesOn(r) \/ Ends(r)
        /\ \A q \in Requests \ {r} : req'[q] = req[q]
        /\ req[r].session \in Sessions /\ req[r].pc \notin {"new", "over"}
    BY <1>0, <1>3, CallSteps
  <2>2. PairedOnce(req[r].stage) BY <1>0, <2>1 DEF Pairings
  <2>3. doc' = doc \/ doc' = [doc EXCEPT ![req[r].session] = None]
          \/ doc' = [doc EXCEPT ![req[r].session] = req[r].stage]
    BY <1>3 DEF SaveEdit, Save, ShowEdit, FindClient, MoveKey, MoveBlob, Commit, Enqueue, DeleteDoc, RemoveScope,
                Break
  <2>4. \A s \in Sessions : doc'[s] # None => PairedOnce(doc'[s]) BY <1>0, <2>2, <2>3 DEF Pairings
  <2>5. IF req'[r].pc \in {"new", "over"} THEN req'[r].moves = {} ELSE PairedOnce(req'[r].stage)
    BY <2>1, <2>2 DEF GoesOn, Ends
  <2> QED BY <1>0, <2>1, <2>4, <2>5 DEF Pairings
<1> QED BY <1>1, <1>2, <1>3

LEMMA PairInit == Init => PairInv
BY InitTypes, PairingsInit DEF PairInv

LEMMA PairNext == PairInv /\ [Next]_vars => PairInv'
<1> SUFFICES ASSUME PairInv, [Next]_vars PROVE PairInv' OBVIOUS
<1>1. TypeInv' BY NextTypes DEF PairInv
<1>2. CASE UNCHANGED vars BY <1>1, <1>2 DEF PairInv, Pairings, vars
<1>3. CASE Next
  <2>1. CASE SweepRemove BY <1>1, <2>1 DEF PairInv, Pairings, SweepRemove, OtherOnly
  <2> QED BY <1>1, <1>3, <2>1, Steps, PairingsSession, PairingsRequest DEF PairInv
<1> QED BY <1>2, <1>3

\* In every document a file is the prior year of at most one other and then never queued itself,
\* and a file marked prior year is somebody's; a queueing has no PDF to move twice (updateFile,
\* autoPair, queue): however edits, uploads and queueings overwrite each other's documents.
THEOREM PairedConsistently == Spec => []PairingConsistent
<1>1. PairInv => PairingConsistent
  <2> SUFFICES ASSUME PairInv PROVE PairingConsistent OBVIOUS
  <2>1. ASSUME NEW r \in Requests PROVE MovesOnce(r)
    <3>1. /\ req[r].stage \in Documents /\ req[r].moves \subseteq Moves(req[r].stage)
          /\ req[r].moves # {} => PairedOnce(req[r].stage)
      BY DEF PairInv, Pairings, TypeInv, TypeCalls, Calls, CallHolds
    <3> QED BY <3>1, PairedMovesOnce DEF MovesOnce
  <2> QED BY <2>1 DEF PairInv, Pairings, PairingConsistent
<1>2. Spec => []PairInv BY PairInit, PairNext, PTL DEF Spec
<1> QED BY <1>1, <1>2, PTL

-----------------------------------------------------------------------------
(* Sessions apart: uploads, then requests. *)

ApartInv == TypeInv /\ Apart

\* An upload works on its own session, which nobody else does yet.
LEMMA UploadFrame ==
  ASSUME TypeInv, NEW s \in Sessions, Upload(s)
  PROVE  /\ UNCHANGED <<req, tables, sweep>>
         /\ UNCHANGED revived \/ revived' = revived \cup {s}
         /\ upload[s].pc \in {"none", "next", "blob", "staged"}
         /\ \A t \in Sessions \ {s} : upload'[t] = upload[t] /\ doc'[t] = doc[t] /\ view'[t] = view[t]
<1>0. upload \in [Sessions -> Uploads] /\ TypeDocs BY DEF TypeInv, TypeUploads
<1>1. UNCHANGED <<req, tables, sweep>> /\ (UNCHANGED revived \/ revived' = revived \cup {s})
  BY DEF Upload, Create, Skip, PutKey, PutBlob, Staged, Finalize, Save, UploadFails, UploadOnly
<1>2. upload[s].pc \in {"none", "next", "blob", "staged"}
  BY DEF Upload, Create, Skip, PutKey, PutBlob, Staged, Finalize, UploadFails, Open, NextFile
<1>3. \A t \in Sessions \ {s} : upload'[t] = upload[t]
  BY <1>0 DEF Upload, Create, Skip, PutKey, PutBlob, Staged, Finalize, UploadFails
<1>4. \A t \in Sessions \ {s} : doc'[t] = doc[t] /\ view'[t] = view[t]
  BY <1>0 DEF Upload, Create, Skip, PutKey, PutBlob, Staged, Finalize, Save, UploadFails, TypeDocs
<1> QED BY <1>1, <1>2, <1>3, <1>4

LEMMA FrameApart ==
  ASSUME NEW t \in Sessions, SessionApart(t), upload'[t] = upload[t], doc'[t] = doc[t], view'[t] = view[t]
  PROVE  SessionApart(t)'
BY DEF SessionApart, Stored, Shown

LEMMA ApartInit == Init => Apart
BY EmptyDocument, OverCall, UploadRecord DEF Init, Apart, SessionApart, CallApart, Stored, Shown

\* Before the document is written the page shows none, and what the upload lists is its own.
LEMMA UploadApart ==
  ASSUME ApartInv, NEW s \in Sessions, Upload(s)
  PROVE  Apart'
<1>0. /\ TypeInv /\ Apart /\ SessionApart(s) /\ upload \in [Sessions -> Uploads] /\ upload[s] \in Uploads
      /\ TypeDocs /\ doc \in [Sessions -> Documents \cup {None}] /\ UploadHolds(upload[s])
  BY DEF ApartInv, TypeInv, Apart, TypeUploads, TypeDocs
<1>1. \A t \in Sessions \ {s} : SessionApart(t)'
  BY <1>0, UploadFrame, FrameApart DEF Apart
<1>2. \A r \in Requests : CallApart(r)'
  <2> SUFFICES ASSUME NEW r \in Requests PROVE CallApart(r)' OBVIOUS
  <2>1. CallApart(r) /\ req'[r] = req[r] /\ CallHolds(req[r]) BY <1>0, UploadFrame DEF Apart, TypeInv, TypeCalls
  <2>2. req[r].pc \notin {"new", "over"} =>
          /\ req[r].session \in Sessions \ {s} /\ upload[req[r].session].pc = "over"
          /\ Listed(req[r].stage) \subseteq FilesOf(req[r].session)
    BY <1>0, <2>1, UploadFrame DEF CallApart, CallHolds
  <2>3. req[r].pc \notin {"new", "over"} => upload'[req[r].session].pc = "over"
    BY <1>0, <2>2, UploadFrame
  <2> QED BY <2>1, <2>2, <2>3 DEF CallApart
<1>3. SessionApart(s)'
  <2>0. /\ Listed(Stored(s)) \subseteq FilesOf(s) /\ Listed(Shown(s)) = {}
        /\ upload[s].stage \in Documents /\ Listed(upload[s].stage) \subseteq FilesOf(s)
        /\ upload[s].pc \in {"blob", "staged"} => upload[s].file \in FilesOf(s)
        /\ FilesOf(s) \subseteq Files
    BY <1>0, UploadFrame DEF SessionApart, Uploads, FilesOf
  <2>1. CASE Create(s)
    <3>1. doc'[s] = <<>> /\ Shown(s)' = Shown(s) BY <1>0, <2>1 DEF Create, Shown
    <3>2. Listed(Stored(s)') = {} BY <3>1, EmptyDocument DEF Stored
    <3>3. upload'[s].stage = upload[s].stage /\ upload'[s].pc = "next" BY <1>0, <2>1 DEF Create, Uploads
    <3> QED BY <2>0, <3>1, <3>2, <3>3 DEF SessionApart
  <2>2. ASSUME NEW f \in Files, Skip(s, f) PROVE SessionApart(s)'
    <3>1. f \in FilesOf(s) /\ Listed(With(upload[s].stage, f, Skipped)) = Listed(upload[s].stage) \cup {f}
      BY <2>0, <2>2, FreshEntries, WithDocument DEF Skip, NextFile
    <3>2. upload'[s].stage = With(upload[s].stage, f, Skipped) /\ upload'[s].pc = "next"
      BY <1>0, <2>2 DEF Skip, NextFile, Open, Uploads
    <3>3. Stored(s)' = Stored(s) /\ Shown(s)' = Shown(s) BY <2>2 DEF Skip, Stored, Shown
    <3> QED BY <2>0, <3>1, <3>2, <3>3 DEF SessionApart
  <2>3. ASSUME NEW f \in Files, PutKey(s, f) PROVE SessionApart(s)'
    <3>1. f \in FilesOf(s) BY <2>3 DEF PutKey, NextFile
    <3>2. upload'[s].stage = upload[s].stage /\ upload'[s].file = f
      BY <1>0, <2>3 DEF PutKey, Uploads
    <3>3. Stored(s)' = Stored(s) /\ Shown(s)' = Shown(s) BY <2>3 DEF PutKey, Stored, Shown
    <3> QED BY <2>0, <3>1, <3>2, <3>3 DEF SessionApart
  <2>4. CASE PutBlob(s)
    <3>1. upload'[s].stage = upload[s].stage /\ upload'[s].file = upload[s].file /\ upload[s].pc = "blob"
      BY <1>0, <2>4 DEF PutBlob, Uploads, Open
    <3>2. Stored(s)' = Stored(s) /\ Shown(s)' = Shown(s) BY <2>4 DEF PutBlob, Stored, Shown
    <3> QED BY <2>0, <3>1, <3>2 DEF SessionApart
  <2>5. CASE Staged(s)
    <3> DEFINE f == upload[s].file
    <3>1. f \in FilesOf(s) /\ f \in Files BY <2>0, <2>5 DEF Staged, Open
    <3>2. \A e \in {Accepted(f), Skipped} :
            Listed(With(upload[s].stage, f, e)) = Listed(upload[s].stage) \cup {f}
      BY <2>0, <3>1, FreshEntries, WithDocument
    <3>3. \E e \in {Accepted(f), Skipped} :
            upload'[s].stage = With(upload[s].stage, f, e) /\ upload'[s].pc = "next"
      BY <1>0, <2>5 DEF Staged
    <3>4. Stored(s)' = Stored(s) /\ Shown(s)' = Shown(s) BY <2>5 DEF Staged, Stored, Shown
    <3> HIDE DEF f
    <3> QED BY <2>0, <3>1, <3>2, <3>3, <3>4 DEF SessionApart
  <2>6. CASE Finalize(s)
    <3> DEFINE a == AutoPair(upload[s].stage)
    <3>1. Unpaired(upload[s].stage) BY <1>0 DEF UploadHolds
    <3>2. a \in Documents /\ Listed(a) = Listed(upload[s].stage) BY <2>0, <3>1, AutoPairDocument
    <3>3. a # None BY <3>2, Document
    <3>4. doc'[s] = a BY <1>0, <2>6 DEF Finalize, Save
    <3> HIDE DEF a
    <3>5. Stored(s)' = a BY <3>3, <3>4 DEF Stored
    <3>6. upload' = [upload EXCEPT ![s] = [NoUpload EXCEPT !.pc = "over"]] BY <2>6 DEF Finalize
    <3>7. upload'[s].pc = "over" /\ upload'[s].stage = <<>> BY <1>0, <3>6, UploadRecord
    <3> QED BY <2>0, <3>2, <3>5, <3>7, EmptyDocument DEF SessionApart
  <2>7. CASE UploadFails(s)
    <3>1. upload' = [upload EXCEPT ![s] = [NoUpload EXCEPT !.pc = "over"]] BY <2>7 DEF UploadFails
    <3>2. upload'[s].pc = "over" /\ upload'[s].stage = <<>> BY <1>0, <3>1, UploadRecord
    <3>3. Stored(s)' = Stored(s) BY <2>7 DEF UploadFails, Stored
    <3> QED BY <2>0, <3>2, <3>3, EmptyDocument DEF SessionApart
  <2> QED BY <2>1, <2>2, <2>3, <2>4, <2>5, <2>6, <2>7 DEF Upload
<1> QED BY <1>1, <1>2, <1>3 DEF Apart

\* A document goes, or is replaced by one of the same session.
LEMMA DocsApart ==
  ASSUME Apart, TypeDocs, UNCHANGED upload,
         \A s \in Sessions : Listed(Stored(s)') \subseteq FilesOf(s),
         \A s \in Sessions : Listed(Shown(s)') # {} => upload[s].pc = "over",
         \A r \in Requests : CallApart(r)'
  PROVE  Apart'
BY DEF Apart, SessionApart

LEMMA FrameCall ==
  ASSUME NEW r, CallApart(r), req'[r] = req[r], UNCHANGED upload
  PROVE  CallApart(r)'
BY DEF CallApart

LEMMA CallsApart ==
  ASSUME ApartInv, NEW r \in Requests,
         \/ SaveEdit(r) \/ ShowEdit(r) \/ FindClient(r) \/ MoveKey(r) \/ MoveBlob(r)
         \/ Commit(r) \/ Enqueue(r) \/ DeleteDoc(r) \/ RemoveScope(r) \/ Break(r)
  PROVE  Apart'
<1>0. /\ TypeInv /\ Apart /\ TypeDocs /\ doc \in [Sessions -> Documents \cup {None}]
      /\ view \in [Sessions -> Documents \cup {None}]
      /\ \A s \in Sessions : SessionApart(s)
      /\ CallApart(r) /\ req[r] \in Calls
  BY DEF ApartInv, TypeInv, Apart, TypeDocs, TypeCalls
<1>1. /\ GoesOn(r) \/ Ends(r)
      /\ \A q \in Requests \ {r} : req'[q] = req[q]
      /\ UNCHANGED upload /\ req[r].session \in Sessions /\ req[r].pc \notin {"new", "over"}
  BY <1>0, CallSteps
<1>2. \A q \in Requests : CallApart(q)'
  <2>1. CallApart(r)' BY <1>0, <1>1 DEF CallApart, GoesOn, Ends
  <2> QED BY <1>0, <1>1, <2>1, FrameCall DEF Apart
<1>3. /\ upload[req[r].session].pc = "over" /\ Listed(req[r].stage) \subseteq FilesOf(req[r].session)
      /\ req[r].stage \in Documents /\ req[r].stage # None
  BY <1>0, <1>1, Document DEF CallApart, Calls
<1>4. doc' = doc \/ doc' = [doc EXCEPT ![req[r].session] = None]
        \/ doc' = [doc EXCEPT ![req[r].session] = req[r].stage]
  BY DEF SaveEdit, Save, ShowEdit, FindClient, MoveKey, MoveBlob, Commit, Enqueue, DeleteDoc, RemoveScope, Break
<1>5. view' = view \/ view' = [view EXCEPT ![req[r].session] = None]
        \/ view' = [view EXCEPT ![req[r].session] = req[r].stage]
  BY DEF SaveEdit, ShowEdit, FindClient, MoveKey, MoveBlob, Commit, Enqueue, DeleteDoc, RemoveScope, Break
<1>6. ASSUME NEW s \in Sessions PROVE Listed(Stored(s)') \subseteq FilesOf(s)
  BY <1>0, <1>3, <1>4, EmptyDocument DEF Stored, SessionApart
<1>7. ASSUME NEW s \in Sessions PROVE Listed(Shown(s)') # {} => upload[s].pc = "over"
  BY <1>0, <1>3, <1>5, EmptyDocument DEF Shown, SessionApart
<1> QED BY <1>0, <1>1, <1>2, <1>6, <1>7, DocsApart

LEMMA LoadsApart ==
  ASSUME ApartInv, NEW r \in Requests, NEW s \in Sessions, LoadQueue(r, s) \/ \E n : Edit(r, s, n)
  PROVE  Apart'
<1>0. /\ TypeInv /\ Apart /\ TypeDocs /\ \A t \in Sessions : SessionApart(t)
  BY DEF ApartInv, TypeInv, Apart
<1>1. /\ \A q \in Requests \ {r} : req'[q] = req[q]
      /\ req'[r].session = s /\ Listed(req'[r].stage) = Listed(doc[s]) /\ doc[s] # None
      /\ req'[r].pc \in {"save", "client"}
      /\ Listed(Shown(s)) # {} /\ UNCHANGED <<upload, doc, view>>
  <2>1. CASE LoadQueue(r, s) BY <1>0, <2>1, LoadQueueTypes DEF LoadQueue, RequestOnly
  <2>2. ASSUME NEW n, Edit(r, s, n)
        PROVE  /\ \A q \in Requests \ {r} : req'[q] = req[q]
               /\ req'[r].session = s /\ Listed(req'[r].stage) = Listed(doc[s]) /\ doc[s] # None
               /\ req'[r].pc = "save"
               /\ Listed(Shown(s)) # {} /\ UNCHANGED <<upload, doc, view>>
    <3>1. /\ \A q \in Requests \ {r} : req'[q] = req[q]
          /\ req'[r].session = s /\ req'[r].stage = n /\ req'[r].pc = "save"
      BY <1>0, <2>2, EditTypes
    <3>2. Listed(n) = Listed(doc[s]) /\ doc[s] # None /\ Listed(Shown(s)) # {} BY <2>2 DEF Edit, Revises
    <3>3. UNCHANGED <<upload, doc, view>> BY <2>2 DEF Edit, LoadEdit, RequestOnly
    <3> QED BY <3>1, <3>2, <3>3
  <2> QED BY <2>1, <2>2
<1>2. Listed(doc[s]) \subseteq FilesOf(s) /\ upload[s].pc = "over"
  BY <1>0, <1>1 DEF SessionApart, Stored
<1>3. CallApart(r)' BY <1>1, <1>2 DEF CallApart
<1>4. \A q \in Requests : CallApart(q)' BY <1>0, <1>1, <1>3, FrameCall DEF Apart
<1> QED BY <1>0, <1>1, <1>4 DEF Apart, SessionApart, Stored, Shown

LEMMA OthersApart ==
  ASSUME ApartInv, SweepRemove \/ \E s \in Sessions : Expire(s) \/ SweepFind(s)
  PROVE  Apart'
<1>0. /\ TypeInv /\ Apart /\ TypeDocs /\ \A t \in Sessions : SessionApart(t)
      /\ doc \in [Sessions -> Documents \cup {None}]
  BY DEF ApartInv, TypeInv, Apart, TypeDocs
<1>1. UNCHANGED <<upload, req, view>> BY DEF SweepRemove, Expire, SweepFind, OtherOnly
<1>2. doc' = doc \/ \E s \in Sessions : doc' = [doc EXCEPT ![s] = None]
  BY DEF SweepRemove, Expire, SweepFind, OtherOnly
<1>3. \A s \in Sessions : Listed(Stored(s)') \subseteq FilesOf(s)
  BY <1>0, <1>2, EmptyDocument DEF Stored, SessionApart
<1>4. \A r \in Requests : CallApart(r)' BY <1>0, <1>1 DEF Apart, CallApart
<1>5. \A s \in Sessions : Listed(Shown(s)') # {} => upload[s].pc = "over"
  BY <1>0, <1>1 DEF Shown, SessionApart
<1> QED BY <1>0, <1>1, <1>3, <1>4, <1>5, DocsApart

LEMMA ApartNext == ApartInv /\ [Next]_vars => ApartInv'
<1> SUFFICES ASSUME ApartInv, [Next]_vars PROVE ApartInv' OBVIOUS
<1>1. TypeInv /\ TypeInv' BY NextTypes DEF ApartInv
<1>2. CASE UNCHANGED vars BY <1>1, <1>2 DEF ApartInv, Apart, SessionApart, CallApart, Stored, Shown, vars
<1>3. CASE Next BY <1>1, <1>3, Steps, UploadApart, CallsApart, LoadsApart, OthersApart DEF ApartInv
<1> QED BY <1>2, <1>3

-----------------------------------------------------------------------------
(* Jobs own their files. *)

LEMMA UploadDisk ==
  ASSUME ApartInv, NEW s \in Sessions, Upload(s)
  PROVE  \A f \in Files \ FilesOf(s) : key'[f] = key[f] /\ blob'[f] = blob[f]
<1>1. /\ upload[s].pc \in {"blob", "staged"} => upload[s].file \in FilesOf(s)
      /\ key \in [Files -> Places] /\ blob \in [Files -> Places]
  BY DEF ApartInv, Apart, SessionApart, TypeInv, TypeDisk
<1> QED BY <1>1 DEF Upload, Create, Skip, PutKey, PutBlob, Staged, Finalize, UploadFails, disk, Open, NextFile

\* What lies with a job of an uploaded session stays there.
LEMMA FilesKept ==
  ASSUME ApartInv, Next, NEW f \in Files, NEW p \in JobIds, upload[SessionOf[f]].pc = "over"
  PROVE  /\ key[f] = p => key'[f] = p
         /\ blob[f] = p => blob'[f] = p
         /\ Has(f, p) => Has(f, p)'
         /\ upload'[SessionOf[f]].pc = "over"
<1>0. /\ TypeInv /\ SessionOf[f] \in Sessions /\ p # Staging
      /\ key \in [Files -> Places] /\ blob \in [Files -> Places]
  BY Bounds DEF ApartInv, TypeInv, TypeDisk
<1> SUFFICES /\ (key[f] = p => key'[f] = p) /\ (blob[f] = p => blob'[f] = p)
             /\ upload'[SessionOf[f]].pc = "over"
  BY DEF Has
<1>1. ASSUME NEW s \in Sessions, Upload(s)
      PROVE  key'[f] = key[f] /\ blob'[f] = blob[f] /\ upload'[SessionOf[f]].pc = "over"
  <2>1. SessionOf[f] # s BY <1>0, <1>1, UploadFrame
  <2> QED BY <1>0, <1>1, <2>1, UploadDisk, UploadFrame DEF FilesOf
<1>2. ASSUME NEW r \in Requests,
             \/ \E s \in Sessions : LoadQueue(r, s) \/ \E n : Edit(r, s, n)
             \/ SaveEdit(r) \/ ShowEdit(r) \/ FindClient(r)
             \/ Commit(r) \/ Enqueue(r) \/ DeleteDoc(r) \/ Break(r)
      PROVE  UNCHANGED <<upload, disk>>
  BY <1>2 DEF LoadQueue, Edit, LoadEdit, SaveEdit, ShowEdit, FindClient, Commit, Enqueue, DeleteDoc, Break,
              RequestOnly
<1>3. ASSUME NEW r \in Requests, MoveKey(r)
      PROVE  (key[f] = p => key'[f] = p) /\ UNCHANGED <<upload, blob>>
  BY <1>0, <1>3 DEF MoveKey, RequestOnly
<1>4. ASSUME NEW r \in Requests, MoveBlob(r)
      PROVE  (blob[f] = p => blob'[f] = p) /\ UNCHANGED <<upload, key>>
  BY <1>0, <1>4 DEF MoveBlob, RequestOnly
<1>5. ASSUME SweepRemove \/ \E r \in Requests : RemoveScope(r)
      PROVE  (key[f] = p => key'[f] = p) /\ (blob[f] = p => blob'[f] = p) /\ UNCHANGED upload
  BY <1>0, <1>5 DEF SweepRemove, RemoveScope, Gone, RequestOnly
<1>6. ASSUME NEW s \in Sessions, Expire(s) \/ SweepFind(s) PROVE UNCHANGED <<upload, disk>>
  BY <1>6 DEF Expire, SweepFind
<1> QED BY <1>0, <1>1, <1>2, <1>3, <1>4, <1>5, <1>6, Steps DEF disk

LEMMA OwnsKept ==
  ASSUME ApartInv, Next, NEW j \in JobRows, Owns(j)
  PROVE  Owns(j)'
<1>1. \A f \in FileList(j) : f \in Files /\ j.job \in JobIds BY DEF FileList, JobRows
<1>2. \A f \in FileList(j) : Has(f, j.job) /\ upload[SessionOf[f]].pc = "over" BY DEF Owns
<1> QED BY <1>1, <1>2, FilesKept DEF Owns

\* The files a request moves are of an uploaded session.
LEMMA MovesUploaded ==
  ASSUME ApartInv, NEW r \in Requests, NEW m \in req[r].moves
  PROVE  /\ m[1] \in Files /\ m[2] \in Files /\ m = <<m[1], m[2]>> /\ <<r, m[1]>> \in JobIds
         /\ m[1] \in FilesOf(req[r].session) /\ m[2] \in FilesOf(req[r].session)
         /\ req[r].session \in Sessions
         /\ upload[SessionOf[m[1]]].pc = "over" /\ upload[SessionOf[m[2]]].pc = "over"
<1>1. req[r] \in Calls /\ CallHolds(req[r]) /\ CallApart(r) BY DEF ApartInv, Apart, TypeInv, TypeCalls
<1>2. /\ req[r].pc \notin {"new", "over"} /\ upload[req[r].session].pc = "over" /\ req[r].stage \in Documents
      /\ Listed(req[r].stage) \subseteq FilesOf(req[r].session) /\ m \in Moves(req[r].stage)
      /\ req[r].session \in Sessions
  BY <1>1 DEF CallApart, CallHolds, Calls
<1>3. /\ m[1] \in Listed(req[r].stage) /\ m[2] \in Listed(req[r].stage) /\ m \in Files \X Files
  BY <1>2, MovesOf, Document
<1> QED BY <1>2, <1>3 DEF FilesOf, JobIds

\* What a request has moved stays with its jobs, whatever step is taken.
LEMMA MovedKept ==
  ASSUME ApartInv, Next, NEW r \in Requests, CallOwns(r)
  PROVE  /\ \A m \in req[r].moves : <<m[1], m[1]>> \in req[r].moves \/ Has(m[1], <<r, m[1]>>)'
         /\ \A j \in req[r].jobs : Owns(j)'
<1>1. ASSUME NEW m \in req[r].moves, <<m[1], m[1]>> \notin req[r].moves PROVE Has(m[1], <<r, m[1]>>)'
  <2>1. Has(m[1], <<r, m[1]>>) BY <1>1 DEF CallOwns
  <2>2. m[1] \in Files /\ <<r, m[1]>> \in JobIds /\ upload[SessionOf[m[1]]].pc = "over"
    BY <1>1, MovesUploaded
  <2> QED BY <2>1, <2>2, FilesKept
<1>2. req[r].jobs \subseteq JobRows BY DEF ApartInv, TypeInv, TypeCalls, Calls
<1>3. \A j \in req[r].jobs : Owns(j)' BY <1>2, OwnsKept DEF CallOwns
<1> QED BY <1>1, <1>3

LEMMA CallOwnsKept ==
  ASSUME OwnInv, Next, NEW r \in Requests, TypeInv',
         req'[r].moves = req[r].moves, req'[r].jobs = req[r].jobs,
         req'[r].pc = "blob" => req[r].pc = "blob"
  PROVE  CallOwns(r)'
<1>0. ApartInv /\ CallOwns(r) /\ TypeCalls /\ req[r] \in Calls
  BY DEF OwnInv, ApartInv, Owned, TypeInv, TypeCalls
<1>1. ASSUME req'[r].pc = "blob" PROVE key'[NextMove(r)'[2]] = Job(r, NextMove(r)')
  <2> DEFINE m == NextMove(r)
  <2>1. NextMove(r)' = m BY DEF NextMove
  <2>2. key[m[2]] = Job(r, m) /\ m \in req[r].moves /\ Job(r, m) \in JobIds
    BY <1>0, <1>1, NextMoveTyped DEF CallOwns
  <2> HIDE DEF m
  <2>3. m[2] \in Files /\ upload[SessionOf[m[2]]].pc = "over" BY <1>0, <2>2, MovesUploaded
  <2> QED BY <1>0, <2>1, <2>2, <2>3, FilesKept
<1>2. \A m \in req[r].moves : <<m[1], m[1]>> \in req[r].moves \/ Has(m[1], <<r, m[1]>>)'
  BY <1>0, MovedKept
<1>3. \A j \in req[r].jobs : Owns(j)' BY <1>0, MovedKept
<1> QED BY <1>1, <1>2, <1>3 DEF CallOwns, Job

LEMMA MoveKeyOwns ==
  ASSUME OwnInv, NEW r \in Requests, MoveKey(r), Next
  PROVE  CallOwns(r)'
<1>0. /\ ApartInv /\ CallOwns(r) /\ TypeInv /\ TypeCalls /\ req[r] \in Calls /\ req[r].pc = "key"
      /\ key \in [Files -> Places]
  BY DEF OwnInv, ApartInv, Owned, TypeInv, TypeCalls, MoveKey, In, TypeDisk
<1>1. req'[r] = [req[r] EXCEPT !.pc = "blob"] BY <1>0, MoveKeyTypes
<1>2. req'[r].moves = req[r].moves /\ req'[r].jobs = req[r].jobs BY <1>0, <1>1 DEF Calls
<1>3. NextMove(r)' = NextMove(r) BY <1>2 DEF NextMove
<1>4. NextMove(r)[2] \in Files BY <1>0, NextMoveTyped
<1>5. key'[NextMove(r)[2]] = Job(r, NextMove(r)) BY <1>0, <1>4 DEF MoveKey
<1>6. \A m \in req[r].moves : <<m[1], m[1]>> \in req[r].moves \/ Has(m[1], <<r, m[1]>>)'
  BY <1>0, MovedKept
<1>7. \A j \in req[r].jobs : Owns(j)' BY <1>0, MovedKept
<1> QED BY <1>2, <1>3, <1>5, <1>6, <1>7 DEF CallOwns, Job

LEMMA MoveBlobOwns ==
  ASSUME OwnInv, NEW r \in Requests, MoveBlob(r), Next
  PROVE  CallOwns(r)'
<1> SUFFICES ASSUME NEW m, m = NextMove(r) PROVE CallOwns(r)' OBVIOUS
<1> DEFINE job == <<r, m[1]>>
<1>0. /\ ApartInv /\ CallOwns(r) /\ TypeInv /\ TypeCalls /\ req[r] \in Calls /\ req[r].pc = "blob"
      /\ blob \in [Files -> Places]
  BY DEF OwnInv, ApartInv, Owned, TypeInv, TypeCalls, MoveBlob, In, TypeDisk
<1>1. /\ req'[r].pc = StepAfter(r, m) /\ req'[r].moves = req[r].moves \ {m} /\ req'[r].jobs = RowsAfter(r, m)
  BY <1>0, MoveBlobTypes
<1>2. /\ m \in req[r].moves /\ m[1] \in Files /\ m[2] \in Files /\ m = <<m[1], m[2]>>
      /\ \A n \in req[r].moves \ {m} : Earlier(m, n)
  BY <1>0, NextMoveTyped
<1>3. /\ upload[SessionOf[m[1]]].pc = "over" /\ upload[SessionOf[m[2]]].pc = "over" /\ job \in JobIds
  BY <1>0, <1>2, MovesUploaded
<1>4. key[m[2]] = job BY <1>0 DEF CallOwns, Job
<1>5. Has(m[2], job)'
  <2>1. blob'[m[2]] = job BY <1>0, <1>2 DEF MoveBlob, Job
  <2>2. key'[m[2]] = job BY <1>4 DEF MoveBlob
  <2> QED BY <2>1, <2>2 DEF Has
<1>6. upload'[SessionOf[m[1]]].pc = "over" /\ upload'[SessionOf[m[2]]].pc = "over"
  BY <1>0, <1>2, <1>3, FilesKept
<1>7. m[1] # m[2] => Has(m[1], job)'
  <2> SUFFICES ASSUME m[1] # m[2] PROVE Has(m[1], job)' OBVIOUS
  <2>1. <<m[1], m[1]>> \notin req[r].moves
    <3> SUFFICES ASSUME <<m[1], m[1]>> \in req[r].moves PROVE FALSE OBVIOUS
    <3>1. Earlier(m, <<m[1], m[1]>>) BY <1>2
    <3>2. m[1] \in Nat BY <1>2, Bounds
    <3> QED BY <3>1, <3>2 DEF Earlier
  <2>2. Has(m[1], job) BY <1>0, <1>2, <2>1 DEF CallOwns
  <2> QED BY <1>0, <1>2, <1>3, <2>2, FilesKept
<1>8. \A n \in req[r].moves \ {m} : <<n[1], n[1]>> \in req[r].moves \ {m} \/ Has(n[1], <<r, n[1]>>)'
  <2> SUFFICES ASSUME NEW n \in req[r].moves \ {m}, <<n[1], n[1]>> \notin req[r].moves \ {m}
               PROVE  Has(n[1], <<r, n[1]>>)'
    OBVIOUS
  <2>1. CASE <<n[1], n[1]>> = m
    <3>1. m[1] = n[1] /\ m[2] = n[1] BY <2>1
    <3> QED BY <3>1, <1>5
  <2>2. CASE <<n[1], n[1]>> # m
    <3>1. Has(n[1], <<r, n[1]>>) BY <1>0, <2>2 DEF CallOwns
    <3> QED BY <1>0, <3>1, MovesUploaded, FilesKept
  <2> QED BY <2>1, <2>2
<1>9. \A j \in req[r].jobs : Owns(j)' BY <1>0, MovedKept
<1>10. ASSUME m[1] = m[2] PROVE Owns(Row(r, m))'
  <2>1. FileList(Row(r, m)) \subseteq {m[1]} /\ Row(r, m).job = job BY DEF FileList, Row, Job
  <2> QED BY <1>5, <1>6, <1>10, <2>1 DEF Owns
<1>11. ASSUME m[1] # m[2] PROVE Owns([Row(r, m) EXCEPT !.prior = m[2]])'
  <2> DEFINE j == [Row(r, m) EXCEPT !.prior = m[2]]
  <2>1. FileList(j) \subseteq {m[1], m[2]} /\ j.job = job BY DEF FileList, Row, Job
  <2> HIDE DEF j
  <2>2. Owns(j)' BY <1>5, <1>6, <1>7, <1>11, <2>1 DEF Owns
  <2> QED BY <2>2 DEF j
<1>12. \A j \in RowsAfter(r, m) : Owns(j)' BY <1>9, <1>10, <1>11 DEF RowsAfter
<1>13. req'[r].pc # "blob" BY <1>1 DEF StepAfter
<1> QED BY <1>1, <1>8, <1>12, <1>13 DEF CallOwns

LEMMA OwnInit == Init => OwnInv
<1> SUFFICES ASSUME Init PROVE OwnInv OBVIOUS
<1>1. TypeInv /\ Apart BY InitTypes, ApartInit
<1>2. Owned BY OverCall DEF Init, Owned, CallOwns
<1> QED BY <1>1, <1>2 DEF OwnInv

LEMMA CallsOwn ==
  ASSUME OwnInv, Next, TypeInv', NEW r \in Requests,
         \/ \E s \in Sessions : LoadQueue(r, s) \/ \E n : Edit(r, s, n)
         \/ SaveEdit(r) \/ ShowEdit(r) \/ FindClient(r) \/ MoveKey(r) \/ MoveBlob(r)
         \/ Commit(r) \/ Enqueue(r) \/ DeleteDoc(r) \/ RemoveScope(r) \/ Break(r)
  PROVE  CallOwns(r)' /\ \A q \in Requests \ {r} : req'[q] = req[q]
<1>0. TypeInv /\ req[r] \in Calls /\ TypeCalls /\ req \in [Requests -> Calls]
  BY DEF OwnInv, TypeInv, TypeCalls
<1>1. ASSUME NEW s \in Sessions, LoadQueue(r, s) PROVE CallOwns(r)' /\ \A q \in Requests \ {r} : req'[q] = req[q]
  <2>1. /\ req'[r].moves = Moves(doc[s]) /\ doc[s] \in Documents /\ req'[r].jobs = {} /\ req'[r].pc = "client"
        /\ \A q \in Requests \ {r} : req'[q] = req[q]
    BY <1>0, <1>1, LoadQueueTypes
  <2> QED BY <2>1, MovesOf DEF CallOwns
<1>2. ASSUME NEW s \in Sessions, NEW n, Edit(r, s, n)
      PROVE  CallOwns(r)' /\ \A q \in Requests \ {r} : req'[q] = req[q]
  BY <1>0, <1>2, EditTypes DEF CallOwns
<1>3. CASE SaveEdit(r) \/ Commit(r) \/ DeleteDoc(r)
  <2>1. \E pc \in {"answer", "enqueue", "remove"} : req' = [req EXCEPT ![r].pc = pc]
    BY <1>3 DEF SaveEdit, Commit, DeleteDoc, Goto
  <2>2. /\ req'[r].moves = req[r].moves /\ req'[r].jobs = req[r].jobs /\ req'[r].pc # "blob"
        /\ \A q \in Requests \ {r} : req'[q] = req[q]
    BY <1>0, <2>1 DEF Calls
  <2> QED BY <2>2, CallOwnsKept
<1>4. CASE ShowEdit(r) BY <1>0, <1>4, OverTypes DEF ShowEdit, CallOwns
<1>5. CASE FindClient(r)
  <2>1. /\ req'[r].moves = req[r].moves /\ req'[r].jobs = req[r].jobs /\ req'[r].pc # "blob"
        /\ \A q \in Requests \ {r} : req'[q] = req[q]
    <3>1. /\ \A q \in Requests \ {r} : req'[q] = req[q]
          /\ req'[r] = [req[r] EXCEPT !.pc = "key", !.created = req'[r].created]
      BY <1>0, <1>5, FindClientTypes
    <3> QED BY <1>0, <3>1 DEF Calls
  <2> QED BY <2>1, CallOwnsKept
<1>6. CASE MoveKey(r) BY <1>0, <1>6, MoveKeyTypes, MoveKeyOwns
<1>7. CASE MoveBlob(r) BY <1>0, <1>7, MoveBlobTypes, MoveBlobOwns
<1>8. CASE Enqueue(r)
  <2>1. /\ req'[r].moves = req[r].moves /\ req'[r].jobs = req[r].jobs /\ (req'[r].pc = "blob" => req[r].pc = "blob")
        /\ \A q \in Requests \ {r} : req'[q] = req[q]
    BY <1>0, <1>8, EnqueueTypes DEF Calls
  <2> QED BY <2>1, CallOwnsKept
<1>9. CASE RemoveScope(r) BY <1>0, <1>9, RemoveScopeTypes DEF CallOwns
<1>10. CASE Break(r) BY <1>0, <1>10, BreakTypes DEF CallOwns
<1> QED BY <1>1, <1>2, <1>3, <1>4, <1>5, <1>6, <1>7, <1>8, <1>9, <1>10

LEMMA OwnNext == OwnInv /\ [Next]_vars => OwnInv'
<1> SUFFICES ASSUME OwnInv, [Next]_vars PROVE OwnInv' OBVIOUS
<1>0. ApartInv /\ Owned /\ TypeInv BY DEF OwnInv, ApartInv
<1>1. TypeInv' /\ Apart' BY <1>0, ApartNext DEF ApartInv
<1>2. CASE UNCHANGED vars
  <2>1. Owned' BY <1>0, <1>2 DEF Owned, CallOwns, Owns, Has, NextMove, Job, vars
  <2> QED BY <1>1, <2>1 DEF OwnInv
<1>3. CASE Next
  <2>1. \A r \in Requests : req'[r] = req[r] => CallOwns(r)' BY <1>0, <1>1, <1>3, CallOwnsKept DEF OwnInv
  <2>2. \A r \in Requests : CallOwns(r)'
    <3>1. CASE UNCHANGED req BY <2>1, <3>1
    <3>2. ASSUME NEW r \in Requests,
                 \/ \E s \in Sessions : LoadQueue(r, s) \/ \E n : Edit(r, s, n)
                 \/ SaveEdit(r) \/ ShowEdit(r) \/ FindClient(r) \/ MoveKey(r) \/ MoveBlob(r)
                 \/ Commit(r) \/ Enqueue(r) \/ DeleteDoc(r) \/ RemoveScope(r) \/ Break(r)
          PROVE  \A q \in Requests : CallOwns(q)'
      BY <1>1, <1>3, <2>1, <3>2, CallsOwn
    <3>3. \/ UNCHANGED req
          \/ \E r \in Requests : \/ \E s \in Sessions : LoadQueue(r, s) \/ \E n : Edit(r, s, n)
                                 \/ SaveEdit(r) \/ ShowEdit(r) \/ FindClient(r) \/ MoveKey(r) \/ MoveBlob(r)
                                 \/ Commit(r) \/ Enqueue(r) \/ DeleteDoc(r) \/ RemoveScope(r) \/ Break(r)
      BY <1>0, <1>3, Steps, UploadFrame DEF Expire, SweepFind, SweepRemove, OtherOnly
    <3> QED BY <3>1, <3>2, <3>3
  <2>3. \A j \in jobs' : Owns(j)'
    <3>0. jobs \subseteq JobRows /\ req \in [Requests -> Calls]
          /\ \A r \in Requests : req[r].jobs \subseteq JobRows
      BY <1>0 DEF TypeInv, TypeTables, TypeCalls, Calls
    <3>1. jobs' = jobs \/ \E r \in Requests : jobs' = jobs \cup req[r].jobs
      BY <1>0, <1>3, Steps, UploadFrame
      DEF Expire, SweepFind, SweepRemove, OtherOnly, tables, LoadQueue, Edit, LoadEdit, SaveEdit, ShowEdit,
          FindClient, MoveKey, MoveBlob, Commit, Enqueue, DeleteDoc, RemoveScope, Break
    <3>2. \A j \in jobs' : j \in JobRows /\ Owns(j) BY <1>0, <3>0, <3>1 DEF Owned, CallOwns
    <3> QED BY <1>0, <1>3, <3>2, OwnsKept
  <2> QED BY <1>1, <2>2, <2>3 DEF OwnInv, Owned
<1> QED BY <1>2, <1>3

\* A job that exists has its PDFs, whole and for itself (queue, storage.move): however often its
\* session was queued, swept, edited or given up halfway, and however many requests raced.
THEOREM JobsHaveFiles == Spec => []JobHasFiles
<1>1. OwnInv => JobHasFiles BY DEF OwnInv, Owned, Owns, Has, JobHasFiles
<1>2. Spec => []OwnInv BY OwnInit, OwnNext, PTL DEF Spec
<1> QED BY <1>1, <1>2, PTL

-----------------------------------------------------------------------------
(* What is listed is stored. *)

LEMMA StoreInit == Init => StoreInv
<1> SUFFICES ASSUME Init PROVE StoreInv OBVIOUS
<1>1. TypeInv /\ Apart BY InitTypes, ApartInit
<1>2. ASSUME NEW s \in Sessions PROVE SessionStored(s)
  <2>1. /\ upload[s].pc = "none" /\ doc[s] = None /\ sweep # s /\ s \notin revived
        /\ Listed(Stored(s)) = {} /\ Listed(upload[s].stage) = {}
    BY UploadRecord, EmptyDocument, Bounds DEF Init, Stored
  <2>2. \A f \in FilesOf(s) : Has(f, None) BY DEF Init, FilesOf, Has
  <2> QED BY <2>1, <2>2 DEF SessionStored, Lost
<1>3. ASSUME NEW r \in Requests PROVE CallStored(r)
  BY OverCall DEF Init, CallStored
<1> QED BY <1>1, <1>2, <1>3 DEF StoreInv, StoredAll

LEMMA StoreParts ==
  ASSUME StoreInv
  PROVE  /\ ApartInv /\ TypeInv /\ StoredAll
         /\ doc \in [Sessions -> Documents \cup {None}]
         /\ upload \in [Sessions -> Uploads] /\ req \in [Requests -> Calls]
         /\ key \in [Files -> Places] /\ blob \in [Files -> Places] /\ sweep \in Sessions \cup {None}
         /\ \A s \in Sessions : /\ FilesOf(s) \subseteq Files /\ SessionApart(s) /\ SessionStored(s)
                                /\ upload[s] \in Uploads /\ UploadHolds(upload[s])
                                /\ upload[s].stage \in Documents /\ Stored(s) \in Documents
                                /\ Ok(upload[s].stage) \subseteq FilesOf(s)
                                /\ Ok(Stored(s)) \subseteq FilesOf(s)
         /\ \A r \in Requests : CallApart(r) /\ CallHolds(req[r]) /\ CallStored(r) /\ req[r].stage \in Documents
<1>1. /\ ApartInv /\ TypeInv /\ StoredAll
      /\ doc \in [Sessions -> Documents \cup {None}]
      /\ upload \in [Sessions -> Uploads] /\ req \in [Requests -> Calls]
      /\ key \in [Files -> Places] /\ blob \in [Files -> Places] /\ sweep \in Sessions \cup {None}
  BY DEF StoreInv, ApartInv, TypeInv, TypeDocs, TypeUploads, TypeCalls, TypeDisk, TypeTables
<1>2. \A s \in Sessions : /\ FilesOf(s) \subseteq Files /\ SessionApart(s) /\ SessionStored(s)
                          /\ upload[s] \in Uploads /\ UploadHolds(upload[s])
                          /\ upload[s].stage \in Documents /\ Stored(s) \in Documents
  BY <1>1, StoredDocument DEF ApartInv, Apart, StoredAll, TypeInv, TypeUploads, Uploads, FilesOf
<1>3. \A s \in Sessions : Ok(upload[s].stage) \subseteq FilesOf(s) /\ Ok(Stored(s)) \subseteq FilesOf(s)
  BY <1>2, Document DEF SessionApart
<1>4. \A r \in Requests : CallApart(r) /\ CallHolds(req[r]) /\ CallStored(r) /\ req[r].stage \in Documents
  BY <1>1 DEF ApartInv, Apart, StoredAll, TypeInv, TypeCalls, Calls
<1> QED BY <1>1, <1>2, <1>3, <1>4

\* The places a file may be in are not taken back while requests go on.
LEMMA PlacesGrow ==
  ASSUME NEW s \in Sessions, \A r \in Requests : req[r].pc # "new" => req'[r].pc # "new"
  PROVE  StagedPlaces(s) \subseteq StagedPlaces(s)'
BY DEF StagedPlaces, In, FilesOf

\* What happens to a session: what is lost stays lost, what is kept is kept.
FilesGo(s) ==
  \A f \in FilesOf(s) : /\ key[f] \in StagedPlaces(s) => key'[f] \in StagedPlaces(s)'
                        /\ blob[f] \in StagedPlaces(s) => blob'[f] \in StagedPlaces(s)'
Goes(s) == (Lost(s) => Lost(s)') /\ (~Lost(s)' => FilesGo(s))

\* A session that a step leaves alone.
LEMMA SessionKept ==
  ASSUME StoreInv, NEW s \in Sessions, upload'[s] = upload[s], doc'[s] = doc[s],
         \A f \in FilesOf(s) : key'[f] = key[f] /\ blob'[f] = blob[f],
         s \in revived' <=> s \in revived, sweep' = s => sweep = s,
         \A r \in Requests : req[r].pc # "new" => req'[r].pc # "new"
  PROVE  SessionStored(s)' /\ Goes(s)
<1>1. Stored(s)' = Stored(s) /\ Lost(s)' = Lost(s) BY DEF Stored, Lost
<1>2. /\ SessionStored(s) /\ Ok(upload[s].stage) \subseteq FilesOf(s) /\ Ok(Stored(s)) \subseteq FilesOf(s)
      /\ upload[s].pc \in {"blob", "staged"} => upload[s].file \in FilesOf(s)
  BY StoreParts DEF SessionApart
<1>3. StagedPlaces(s) \subseteq StagedPlaces(s)' BY PlacesGrow
<1> QED BY <1>1, <1>2, <1>3 DEF SessionStored, Has, Kept, Goes, FilesGo

\* A session that is uploaded.
LEMMA SessionGoes ==
  ASSUME StoreInv, NEW s \in Sessions, upload[s].pc = "over", upload'[s] = upload[s], Goes(s),
         ~Lost(s)' => sweep' # s /\ \A f \in Ok(Stored(s))' : f \in Ok(Stored(s)) \/ Kept(s, f)'
  PROVE  SessionStored(s)'
<1>1. SessionStored(s) /\ Ok(Stored(s)) \subseteq FilesOf(s) BY StoreParts
<1>2. Ok(upload[s].stage) = {} BY <1>1 DEF SessionStored, Ok
<1> QED BY <1>1, <1>2 DEF SessionStored, Goes, FilesGo, Kept

\* A session that is lost.
LEMMA SessionLost ==
  ASSUME StoreInv, NEW s \in Sessions, upload[s].pc # "none", upload'[s] = upload[s], Lost(s)',
         Listed(Stored(s))' \subseteq Listed(Stored(s))
  PROVE  SessionStored(s)' /\ Goes(s)
<1>1. SessionStored(s) BY StoreParts
<1> QED BY <1>1 DEF SessionStored, Goes

\* A request that a step leaves alone.
LEMMA CallKept ==
  ASSUME StoreInv, NEW r \in Requests, req'[r] = req[r],
         req[r].pc \notin {"new", "over"} => Goes(req[r].session)
  PROVE  CallStored(r)'
<1>1. CallStored(r) /\ CallApart(r) /\ req[r].stage \in Documents BY StoreParts
<1>2. req[r].pc \notin {"new", "over"} => Ok(req[r].stage) \subseteq FilesOf(req[r].session)
  BY <1>1, Document DEF CallApart
<1> QED BY <1>1, <1>2 DEF CallStored, Goes, FilesGo, Kept

LEMMA UploadStored ==
  ASSUME StoreInv, NEW s \in Sessions, Upload(s)
  PROVE  StoredAll'
<1>0. ApartInv /\ TypeInv BY StoreParts
<1>1. /\ UNCHANGED <<req, tables, sweep>> /\ upload[s].pc \in {"none", "next", "blob", "staged"}
      /\ UNCHANGED revived \/ revived' = revived \cup {s}
      /\ \A t \in Sessions \ {s} : upload'[t] = upload[t] /\ doc'[t] = doc[t] /\ view'[t] = view[t]
      /\ \A f \in Files \ FilesOf(s) : key'[f] = key[f] /\ blob'[f] = blob[f]
  BY <1>0, UploadFrame, UploadDisk
<1>2. \A t \in Sessions \ {s} : FilesOf(t) \subseteq Files \ FilesOf(s) BY DEF FilesOf
<1>3. \A t \in Sessions \ {s} : SessionStored(t)' /\ Goes(t) BY <1>1, <1>2, SessionKept
<1>4. ASSUME NEW r \in Requests PROVE CallStored(r)'
  <2>1. req[r].pc \notin {"new", "over"} => req[r].session \in Sessions \ {s}
    BY <1>1, StoreParts DEF CallApart, CallHolds
  <2> QED BY <1>1, <1>3, <2>1, CallKept
<1>5. SessionStored(s)'
  <2>0. /\ Listed(Stored(s)) = {} /\ Ok(Stored(s)) = {}
        /\ upload[s].pc \in {"blob", "staged"} => /\ upload[s].file \notin Listed(upload[s].stage)
                                                  /\ upload[s].file \in FilesOf(s)
        /\ ~Lost(s) =>
             /\ sweep # s
             /\ \A f \in Ok(upload[s].stage) : Kept(s, f)
             /\ upload[s].pc \in {"blob", "staged"} => key[upload[s].file] \in StagedPlaces(s)
             /\ upload[s].pc = "staged" => blob[upload[s].file] \in StagedPlaces(s)
        /\ Ok(upload[s].stage) \subseteq FilesOf(s) /\ FilesOf(s) \subseteq Files
        /\ upload \in [Sessions -> Uploads] /\ upload[s] \in Uploads /\ upload[s].stage \in Documents
        /\ doc \in [Sessions -> Documents \cup {None}]
        /\ key \in [Files -> Places] /\ blob \in [Files -> Places]
    BY <1>1, StoreParts DEF SessionStored, SessionApart, Ok
  <2>00. Ok(upload[s].stage) \subseteq Listed(upload[s].stage) BY DEF Ok
  <2>01. StagedPlaces(s)' = StagedPlaces(s) /\ Staging \in StagedPlaces(s)
    BY <1>1 DEF StagedPlaces, In, FilesOf
  <2>1. CASE Create(s)
    <3>1. doc'[s] = <<>> /\ <<>> # None BY <2>0, <2>1, EmptyDocument, Document DEF Create
    <3>2. Listed(Stored(s)') = {} /\ Ok(Stored(s)') = {} BY <3>1, EmptyDocument DEF Stored
    <3>3. upload'[s].stage = upload[s].stage /\ upload'[s].pc = "next" BY <2>0, <2>1 DEF Create, Uploads
    <3>4. UNCHANGED <<key, blob>> /\ sweep # s /\ Ok(upload[s].stage) = {}
      BY <2>1, StoreParts DEF Create, disk, Open, SessionStored, Ok
    <3> QED BY <1>1, <2>0, <2>01, <3>1, <3>2, <3>3, <3>4 DEF SessionStored, Kept
  <2>2. ASSUME NEW f \in Files, Skip(s, f) PROVE SessionStored(s)'
    <3>1. Ok(With(upload[s].stage, f, Skipped)) \subseteq Ok(upload[s].stage)
      BY <2>0, <2>2, FreshEntries, WithOk
    <3>2. upload'[s].stage = With(upload[s].stage, f, Skipped) /\ upload'[s].pc = "next" /\ upload[s].pc = "next"
      BY <2>0, <2>2 DEF Skip, NextFile, Open, Uploads
    <3>3. UNCHANGED <<key, blob, doc>> /\ Stored(s)' = Stored(s) /\ Lost(s)' = Lost(s)
      BY <2>2 DEF Skip, disk, Stored, Lost
    <3> QED BY <1>1, <2>0, <2>01, <3>1, <3>2, <3>3 DEF SessionStored, Kept
  <2>3. ASSUME NEW f \in Files, PutKey(s, f) PROVE SessionStored(s)'
    <3>1. f \in FilesOf(s) \ Listed(upload[s].stage) /\ upload[s].pc = "next" BY <2>3 DEF PutKey, NextFile, Open
    <3>2. upload'[s].stage = upload[s].stage /\ upload'[s].file = f /\ upload'[s].pc = "blob"
      BY <2>0, <2>3 DEF PutKey, Uploads
    <3>3. /\ UNCHANGED <<blob, doc>> /\ key' = [key EXCEPT ![f] = Staging] /\ Stored(s)' = Stored(s)
          /\ Lost(s)' = Lost(s)
      BY <2>3 DEF PutKey, Stored, Lost
    <3>4. \A g \in FilesOf(s) : g # f => key'[g] = key[g] BY <2>0, <3>3
    <3>5. key'[f] = Staging BY <2>0, <3>3
    <3> QED BY <1>1, <2>0, <2>00, <2>01, <3>1, <3>2, <3>3, <3>4, <3>5 DEF SessionStored, Kept
  <2>4. CASE PutBlob(s)
    <3>1. /\ upload'[s].stage = upload[s].stage /\ upload'[s].file = upload[s].file /\ upload'[s].pc = "staged"
          /\ upload[s].pc = "blob"
      BY <2>0, <2>4 DEF PutBlob, Uploads, Open
    <3>2. /\ UNCHANGED <<key, doc>> /\ blob' = [blob EXCEPT ![upload[s].file] = Staging]
          /\ Stored(s)' = Stored(s) /\ Lost(s)' = Lost(s)
      BY <2>4 DEF PutBlob, Stored, Lost
    <3>3. \A g \in FilesOf(s) : g # upload[s].file => blob'[g] = blob[g] BY <2>0, <3>2
    <3>4. blob'[upload[s].file] = Staging BY <2>0, <3>1, <3>2
    <3> QED BY <1>1, <2>0, <2>00, <2>01, <3>1, <3>2, <3>3, <3>4 DEF SessionStored, Kept
  <2>5. CASE Staged(s)
    <3> SUFFICES ASSUME NEW f, f = upload[s].file PROVE SessionStored(s)' OBVIOUS
    <3>0. /\ upload[s].pc = "staged" /\ f \in FilesOf(s) /\ f \in Files /\ f \notin Listed(upload[s].stage)
          /\ ~Lost(s) => Kept(s, f)
      BY <2>0, <2>5 DEF Staged, Open, Kept
    <3>1. UNCHANGED doc /\ Stored(s)' = Stored(s) /\ Lost(s)' = Lost(s) BY <2>5 DEF Staged, Stored, Lost
    <3>2. CASE /\ upload' = [upload EXCEPT ![s] = [pc |-> "next", stage |-> With(@.stage, f, Accepted(f)),
                                                  file |-> None]]
               /\ UNCHANGED disk
      <4>1. upload'[s].stage = With(upload[s].stage, f, Accepted(f)) /\ upload'[s].pc = "next"
        BY <2>0, <3>2
      <4>2. Ok(upload'[s].stage) \subseteq Ok(upload[s].stage) \cup {f}
        BY <2>0, <3>0, <4>1, FreshEntries, WithOk
      <4> QED BY <1>1, <2>0, <2>01, <3>0, <3>1, <3>2, <4>1, <4>2 DEF SessionStored, Kept, disk
    <3>3. CASE /\ upload' = [upload EXCEPT ![s] = [pc |-> "next", stage |-> With(@.stage, f, Skipped),
                                                  file |-> None]]
               /\ key' = [key EXCEPT ![f] = None] /\ blob' = [blob EXCEPT ![f] = None]
      <4>1. upload'[s].stage = With(upload[s].stage, f, Skipped) /\ upload'[s].pc = "next"
        BY <2>0, <3>3
      <4>2. Ok(upload'[s].stage) \subseteq Ok(upload[s].stage)
        BY <2>0, <3>0, <4>1, FreshEntries, WithOk
      <4>3. \A g \in Ok(upload[s].stage) : key'[g] = key[g] /\ blob'[g] = blob[g]
        BY <2>0, <2>00, <3>0, <3>3
      <4> QED BY <1>1, <2>0, <2>01, <3>0, <3>1, <4>1, <4>2, <4>3 DEF SessionStored, Kept
    <3> QED BY <2>5, <3>2, <3>3 DEF Staged
  <2>6. CASE Finalize(s)
    <3> DEFINE a == AutoPair(upload[s].stage)
    <3>1. Unpaired(upload[s].stage) BY StoreParts DEF UploadHolds
    <3>2. a \in Documents /\ Ok(a) = Ok(upload[s].stage) BY <2>0, <3>1, AutoPairDocument
    <3>3. a # None BY <3>2, Document
    <3>4. doc'[s] = a /\ (Lost(s) => Lost(s)')
      BY <2>0, <2>6, StoreParts DEF Finalize, Save, Lost
    <3>5. UNCHANGED <<key, blob>> BY <2>6 DEF Finalize, disk
    <3> HIDE DEF a
    <3>6. Stored(s)' = a BY <3>3, <3>4 DEF Stored
    <3>7. upload' = [upload EXCEPT ![s] = [NoUpload EXCEPT !.pc = "over"]] BY <2>6 DEF Finalize
    <3>8. upload'[s].pc = "over" /\ upload'[s].stage = <<>> BY <2>0, <3>7, UploadRecord
    <3> QED BY <1>1, <2>0, <2>01, <3>2, <3>4, <3>5, <3>6, <3>8, EmptyDocument DEF SessionStored, Kept
  <2>7. CASE UploadFails(s)
    <3>1. upload' = [upload EXCEPT ![s] = [NoUpload EXCEPT !.pc = "over"]] BY <2>7 DEF UploadFails
    <3>2. upload'[s].pc = "over" /\ upload'[s].stage = <<>> BY <2>0, <3>1, UploadRecord
    <3>3. Stored(s)' = Stored(s) /\ Lost(s)' = Lost(s) BY <2>7 DEF UploadFails, Stored, Lost
    <3> QED BY <1>1, <2>0, <3>2, <3>3, EmptyDocument DEF SessionStored
  <2> QED BY <2>1, <2>2, <2>3, <2>4, <2>5, <2>6, <2>7 DEF Upload
<1> QED BY <1>3, <1>4, <1>5 DEF StoredAll

LEMMA LoadStored ==
  ASSUME StoreInv, NEW r \in Requests, NEW s \in Sessions, LoadQueue(r, s) \/ \E n : Edit(r, s, n)
  PROVE  StoredAll'
<1>0. ApartInv /\ TypeInv /\ SessionStored(s) BY StoreParts
<1>1. /\ \A q \in Requests \ {r} : req'[q] = req[q]
      /\ req'[r].session = s /\ Ok(req'[r].stage) = Ok(doc[s]) /\ doc[s] # None
      /\ req'[r].pc \in {"save", "client"}
      /\ UNCHANGED <<upload, doc, disk, sweep, revived>>
  <2>1. CASE LoadQueue(r, s) BY <1>0, <2>1, LoadQueueTypes DEF LoadQueue, RequestOnly
  <2>2. ASSUME NEW n, Edit(r, s, n)
        PROVE  /\ \A q \in Requests \ {r} : req'[q] = req[q]
               /\ req'[r].session = s /\ Ok(req'[r].stage) = Ok(doc[s]) /\ doc[s] # None
               /\ req'[r].pc = "save"
               /\ UNCHANGED <<upload, doc, disk, sweep, revived>>
    <3>1. /\ \A q \in Requests \ {r} : req'[q] = req[q]
          /\ req'[r].session = s /\ req'[r].stage = n /\ req'[r].pc = "save"
      BY <1>0, <2>2, EditTypes
    <3>2. Ok(n) = Ok(doc[s]) /\ doc[s] # None BY <2>2 DEF Edit, Revises
    <3>3. UNCHANGED <<upload, doc, disk, sweep, revived>> BY <2>2 DEF Edit, LoadEdit, RequestOnly
    <3> QED BY <3>1, <3>2, <3>3
  <2> QED BY <2>1, <2>2
<1>2. UNCHANGED <<key, blob>> BY <1>1 DEF disk
<1>3. \A t \in Sessions : SessionStored(t)' /\ Goes(t) BY <1>1, <1>2, SessionKept
<1>4. ASSUME NEW q \in Requests \ {r} PROVE CallStored(q)'
  <2>1. req[q].pc \notin {"new", "over"} => req[q].session \in Sessions BY StoreParts DEF CallHolds
  <2> QED BY <1>1, <1>3, <2>1, CallKept
<1>5. CallStored(r)'
  <2>1. Stored(s)' = doc[s] /\ req'[r].pc # "remove" BY <1>1 DEF Stored
  <2> QED BY <1>1, <1>3, <2>1 DEF CallStored, SessionStored
<1> QED BY <1>3, <1>4, <1>5 DEF StoredAll

LEMMA CallsStored ==
  ASSUME StoreInv, NEW r \in Requests,
         \/ SaveEdit(r) \/ ShowEdit(r) \/ FindClient(r) \/ MoveKey(r) \/ MoveBlob(r)
         \/ Commit(r) \/ Enqueue(r) \/ DeleteDoc(r) \/ RemoveScope(r) \/ Break(r)
  PROVE  StoredAll'
<1> SUFFICES ASSUME NEW t, t = req[r].session PROVE StoredAll' OBVIOUS
<1>0. /\ ApartInv /\ TypeInv /\ CallStored(r) /\ CallApart(r) /\ req[r] \in Calls /\ req \in [Requests -> Calls]
      /\ doc \in [Sessions -> Documents \cup {None}]
      /\ key \in [Files -> Places] /\ blob \in [Files -> Places]
      /\ req[r].stage \in Documents
  BY StoreParts
<1>1. /\ GoesOn(r) \/ Ends(r)
      /\ \A q \in Requests \ {r} : req'[q] = req[q]
      /\ UNCHANGED <<upload, sweep>> /\ t \in Sessions
      /\ upload[t].pc = "over" /\ req[r].pc \notin {"new", "over"}
      /\ Ok(req[r].stage) \subseteq FilesOf(t)
  BY <1>0, CallSteps, Document DEF CallApart
<1>2. \A q \in Requests : req[q].pc # "new" => req'[q].pc # "new" BY <1>1 DEF GoesOn, Ends
<1>3. StagedPlaces(t) \subseteq StagedPlaces(t)' BY <1>1, <1>2, PlacesGrow
\* Files of other sessions stay, and those of this one stay, move to a job or are removed when lost.
<1>4. /\ \A f \in Files \ FilesOf(t) : key'[f] = key[f] /\ blob'[f] = blob[f]
      /\ ~Lost(t) => FilesGo(t)
  <2>1. CASE UNCHANGED disk BY <1>3, <2>1 DEF disk, FilesGo, FilesOf
  <2>2. CASE MoveKey(r) \/ MoveBlob(r)
    <3>0. req[r].pc \in {"key", "blob"} BY <2>2 DEF MoveKey, MoveBlob, In
    <3>1. NextMove(r) \in req[r].moves BY <1>0, <3>0, NextMoveTyped DEF TypeInv
    <3>2. /\ NextMove(r)[1] \in FilesOf(t) /\ NextMove(r)[2] \in FilesOf(t) BY <1>0, <3>1, MovesUploaded
    <3>3. Job(r, NextMove(r)) \in StagedPlaces(t)
      <4>1. Job(r, NextMove(r)) \in {q \in Requests : ~In(q, "new")} \X FilesOf(t)
        BY <1>1, <3>2 DEF Job, In
      <4> QED BY <4>1 DEF StagedPlaces
    <3>4. \A f \in Files : /\ key'[f] = key[f] \/ (f = NextMove(r)[2] /\ key'[f] = Job(r, NextMove(r)))
                           /\ blob'[f] = blob[f] \/ (f = NextMove(r)[2] /\ blob'[f] = Job(r, NextMove(r)))
      BY <1>0, <2>2 DEF MoveKey, MoveBlob
    <3> QED BY <1>3, <3>2, <3>3, <3>4 DEF FilesGo, FilesOf
  <2>3. CASE RemoveScope(r)
    <3>1. \A f \in Files \ FilesOf(t) : key'[f] = key[f] /\ blob'[f] = blob[f]
      BY <1>0, <2>3 DEF RemoveScope, Gone, FilesOf
    <3>2. Lost(t) BY <1>0, <1>1, <2>3 DEF RemoveScope, In, CallStored
    <3> QED BY <3>1, <3>2
  <2> QED BY <2>1, <2>2, <2>3 DEF SaveEdit, ShowEdit, FindClient, Commit, Enqueue, DeleteDoc, Break
\* The document stays, goes, or is written over.
<1>5. /\ \A s \in Sessions \ {t} : doc'[s] = doc[s] /\ (s \in revived' <=> s \in revived)
      /\ \/ UNCHANGED <<doc, revived>>
         \/ doc'[t] = None
         \/ SaveEdit(r) /\ doc'[t] = req[r].stage
      /\ revived \subseteq revived'
      /\ doc[t] = None /\ doc'[t] # None => t \in revived'
  <2>1. CASE SaveEdit(r) BY <1>0, <1>1, <2>1 DEF SaveEdit, Save
  <2>2. CASE DeleteDoc(r) BY <1>0, <1>1, <2>2 DEF DeleteDoc
  <2>3. CASE UNCHANGED <<doc, revived>> BY <2>3
  <2> QED BY <2>1, <2>2, <2>3 DEF ShowEdit, FindClient, MoveKey, MoveBlob, Commit, Enqueue, RemoveScope, Break
<1>6. Lost(t) => Lost(t)' BY <1>5 DEF Lost
<1>7. Goes(t) BY <1>4, <1>6 DEF Goes
<1>8. ASSUME NEW s \in Sessions \ {t} PROVE SessionStored(s)' /\ Goes(s)
  <2>1. FilesOf(s) \subseteq Files \ FilesOf(t) BY DEF FilesOf
  <2> QED BY <1>1, <1>2, <1>4, <1>5, <2>1, SessionKept
<1>9. SessionStored(t)'
  <2>1. SessionStored(t) BY <1>1, StoreParts
  <2>2. ASSUME ~Lost(t)' PROVE sweep' # t /\ \A f \in Ok(Stored(t))' : f \in Ok(Stored(t)) \/ Kept(t, f)'
    <3>1. ~Lost(t) /\ sweep # t BY <1>6, <2>1, <2>2 DEF SessionStored
    <3>2. CASE UNCHANGED <<doc, revived>> BY <1>1, <3>1, <3>2 DEF Stored
    <3>3. CASE doc'[t] = None BY <2>2, <3>3 DEF Lost
    <3>4. CASE SaveEdit(r) /\ doc'[t] = req[r].stage
      <4>1. Stored(t)' = req[r].stage BY <1>0, <3>4, Document DEF Stored
      <4>2. \A f \in Ok(req[r].stage) : Kept(t, f) BY <1>0, <1>1, <3>1 DEF CallStored
      <4>3. \A f \in Ok(req[r].stage) : Kept(t, f)' BY <1>1, <1>4, <3>1, <4>2 DEF FilesGo, Kept
      <4> QED BY <1>1, <3>1, <4>1, <4>3
    <3> QED BY <1>5, <3>2, <3>3, <3>4
  <2> QED BY <1>1, <1>7, <2>2, SessionGoes
<1>10. ASSUME NEW q \in Requests \ {r} PROVE CallStored(q)'
  <2>1. req[q].pc \notin {"new", "over"} => req[q].session \in Sessions BY StoreParts DEF CallHolds
  <2> QED BY <1>1, <1>7, <1>8, <2>1, CallKept
<1>11. CallStored(r)'
  <2>1. CASE Ends(r) BY <2>1 DEF Ends, CallStored
  <2>2. CASE GoesOn(r)
    <3>1. req'[r].session = t /\ req'[r].stage = req[r].stage BY <2>2 DEF GoesOn
    <3>2. ASSUME ~Lost(t)' PROVE req'[r].pc # "remove" /\ \A f \in Ok(req[r].stage) : Kept(t, f)'
      <4>1. ~Lost(t) BY <1>6, <3>2
      <4>2. \A f \in Ok(req[r].stage) : Kept(t, f)'
        BY <1>0, <1>1, <1>4, <4>1 DEF CallStored, FilesGo, Kept
      <4>3. req[r].pc # "remove" BY <1>0, <1>1, <4>1 DEF CallStored
      <4>4. CASE DeleteDoc(r) BY <1>0, <1>1, <3>2, <4>4 DEF DeleteDoc, Lost
      <4>5. CASE req'[r].pc # "remove" BY <4>2, <4>5
      <4>6. \/ DeleteDoc(r) \/ req'[r].pc # "remove"
        <5>1. CASE SaveEdit(r) \/ MoveKey(r) \/ Commit(r)
          <6>1. \E pc \in {"answer", "blob", "enqueue"} : req' = [req EXCEPT ![r].pc = pc]
            BY <5>1 DEF SaveEdit, MoveKey, Commit, Goto
          <6> QED BY <1>0, <6>1 DEF Calls
        <5>2. CASE ShowEdit(r) \/ RemoveScope(r) \/ Break(r)
          BY <1>0, <5>2, OverTypes DEF ShowEdit, RemoveScope, Break, TypeInv
        <5>3. CASE FindClient(r) BY <1>0, <5>3, FindClientTypes DEF Calls
        <5>4. CASE MoveBlob(r) BY <1>0, <5>4, MoveBlobTypes DEF StepAfter
        <5>5. CASE Enqueue(r) BY <1>0, <4>3, <5>5, EnqueueTypes DEF Calls
        <5> QED BY <5>1, <5>2, <5>3, <5>4, <5>5
      <4> QED BY <4>4, <4>5, <4>6
    <3> QED BY <3>1, <3>2 DEF CallStored
  <2> QED BY <1>1, <2>1, <2>2
<1> QED BY <1>8, <1>9, <1>10, <1>11 DEF StoredAll

\* An hour ends, whatever is at work: from then on nothing is promised.
LEMMA ExpireStored ==
  ASSUME StoreInv, NEW s \in Sessions, Expire(s)
  PROVE  StoredAll'
<1>0. doc \in [Sessions -> Documents \cup {None}] BY StoreParts
<1>1. /\ doc[s] # None /\ doc' = [doc EXCEPT ![s] = None]
      /\ UNCHANGED <<key, blob, upload, sweep, req, revived>>
  BY DEF Expire, OtherOnly, disk
<1>2. \A t \in Sessions \ {s} : SessionStored(t)' /\ Goes(t) BY <1>0, <1>1, SessionKept
<1>3. SessionStored(s)' /\ Goes(s)
  <2>1. Lost(s)' /\ Listed(Stored(s))' = {} BY <1>0, <1>1, EmptyDocument DEF Stored, Lost
  <2>2. upload[s].pc # "none" BY <1>1, StoreParts DEF SessionStored
  <2> QED BY <1>1, <2>1, <2>2, SessionLost
<1>4. ASSUME NEW r \in Requests PROVE CallStored(r)'
  <2>1. req[r].pc \notin {"new", "over"} => req[r].session \in Sessions BY StoreParts DEF CallHolds
  <2> QED BY <1>1, <1>2, <1>3, <2>1, CallKept
<1> QED BY <1>2, <1>3, <1>4 DEF StoredAll

\* The sweep takes up a session without document, also one that something is at work on.
LEMMA SweepFindStored ==
  ASSUME StoreInv, NEW s \in Sessions, SweepFind(s)
  PROVE  StoredAll'
<1>1. InStaging(s) /\ doc[s] = None /\ sweep' = s /\ UNCHANGED <<doc, key, blob, upload, req, revived>>
  BY DEF SweepFind, OtherOnly, disk
<1>2. \A t \in Sessions \ {s} : SessionStored(t)' /\ Goes(t) BY <1>1, SessionKept
<1>3. SessionStored(s)' /\ Goes(s)
  <2>1. SessionStored(s) BY StoreParts
  <2>2. upload[s].pc # "none" BY <1>1, <2>1, Bounds DEF SessionStored, InStaging, Has
  <2>3. Lost(s)' /\ Stored(s)' = Stored(s) BY <1>1 DEF Stored, Lost
  <2> QED BY <1>1, <2>2, <2>3, SessionLost
<1>4. ASSUME NEW r \in Requests PROVE CallStored(r)'
  <2>1. req[r].pc \notin {"new", "over"} => req[r].session \in Sessions BY StoreParts DEF CallHolds
  <2> QED BY <1>1, <1>2, <1>3, <2>1, CallKept
<1> QED BY <1>2, <1>3, <1>4 DEF StoredAll

\* It removes the files of a session of which nothing is promised.
LEMMA SweepRemoveStored ==
  ASSUME StoreInv, SweepRemove
  PROVE  StoredAll'
<1> SUFFICES ASSUME NEW s, s = sweep PROVE StoredAll' OBVIOUS
<1>0. /\ s \in Sessions /\ key \in [Files -> Places] /\ blob \in [Files -> Places]
  BY StoreParts DEF SweepRemove
<1>1. /\ key' = Gone(s, key) /\ blob' = Gone(s, blob) /\ sweep' = None
      /\ UNCHANGED <<doc, upload, req, revived>>
  BY DEF SweepRemove, OtherOnly
<1>2. \A t \in Sessions \ {s} : \A f \in FilesOf(t) : key'[f] = key[f] /\ blob'[f] = blob[f]
  BY <1>0, <1>1 DEF Gone, FilesOf
<1>3. \A t \in Sessions \ {s} : SessionStored(t)' /\ Goes(t) BY <1>0, <1>1, <1>2, SessionKept, Bounds
<1>4. SessionStored(s)' /\ Goes(s)
  <2>1. SessionStored(s) BY <1>0, StoreParts
  <2>2. upload[s].pc # "none" /\ Lost(s) BY <2>1 DEF SessionStored
  <2>3. Lost(s)' /\ Stored(s)' = Stored(s) BY <1>1, <2>2 DEF Stored, Lost
  <2> QED BY <1>0, <1>1, <2>2, <2>3, SessionLost
<1>5. ASSUME NEW r \in Requests PROVE CallStored(r)'
  <2>1. req[r].pc \notin {"new", "over"} => req[r].session \in Sessions BY StoreParts DEF CallHolds
  <2> QED BY <1>1, <1>3, <1>4, <2>1, CallKept
<1> QED BY <1>3, <1>4, <1>5 DEF StoredAll

LEMMA StoreNext == StoreInv /\ [Next]_vars => StoreInv'
<1> SUFFICES ASSUME StoreInv, [Next]_vars PROVE StoreInv' OBVIOUS
<1>0. ApartInv /\ TypeInv BY StoreParts
<1>1. TypeInv' /\ Apart' BY <1>0, ApartNext DEF ApartInv
<1>2. CASE UNCHANGED vars
  <2>1. UNCHANGED <<doc, key, blob, upload, req, sweep, revived>> BY <1>2 DEF vars
  <2>2. \A s \in Sessions : SessionStored(s)' /\ Goes(s) BY <2>1, SessionKept
  <2>3. ASSUME NEW r \in Requests PROVE CallStored(r)'
    <3>1. req[r].pc \notin {"new", "over"} => req[r].session \in Sessions BY StoreParts DEF CallHolds
    <3> QED BY <2>1, <2>2, <3>1, CallKept
  <2> QED BY <1>1, <2>2, <2>3 DEF StoreInv, StoredAll
<1>3. CASE Next
  <2>1. StoredAll'
    BY <1>0, <1>3, Steps, UploadStored, LoadStored, CallsStored, ExpireStored, SweepFindStored, SweepRemoveStored
  <2> QED BY <1>1, <2>1 DEF StoreInv
<1> QED BY <1>2, <1>3

\* Every PDF that a document lists is, key and blob, in staging or where a queueing of the session
\* has taken it (addFile, move, sweepExpired, removeScope), unless a late save brought the document
\* back: with sessions that expire, sweeps, broken uploads and failed queueings at any time.
THEOREM ListedIsStored == Spec => []StagedIsStored
<1>1. StoreInv => StagedIsStored
  BY StoreParts DEF SessionStored, Stored, Kept, Lost, StagedIsStored
<1>2. Spec => []StoreInv BY StoreInit, StoreNext, PTL DEF Spec
<1> QED BY <1>1, <1>2, PTL
=============================================================================
