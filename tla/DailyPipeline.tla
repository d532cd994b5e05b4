---------------------------- MODULE DailyPipeline ----------------------------
(***************************************************************************)
(* The older daily run.  It reads the boards and the mailbox, keeps one    *)
(* copy of every posting, decides on it, stores the postings one by one    *)
(* and pushes those that are surfaced and were not stored before.  A mail  *)
(* is marked as read while the boards are still being asked; a posting is  *)
(* seen once it is stored.  Neither waits for the push.                    *)
(***************************************************************************)
EXTENDS WorkspaceFiles, FiniteSets, Sequences, SequencesExt

CONSTANTS
  Copy,            \* the copies of postings: [posting, source, ats, paid, length, gates, doubtful]
  Mails,           \* the mails: [copy], None for one that is no offer
  Employer,        \* the employer of each posting
  EmployerCap, TopN,  \* CONFIG.digest.per_company_cap, top_n_per_group
  Outlets,         \* CONFIG.digest.channels, in order
  Configured,           \* the outlets that are configured
  Passes,          \* run processes
  Cuts,            \* the limits a run may be given, None for no limit
  MaxPasses, MaxMishaps  \* bounds: runs; dry runs, failed sends, crashes, cuts

VARIABLES
  jobs,            \* the jobs table: the verdict stored with each posting
  uids,            \* email_uids: the mails marked as read
  pass,            \* what each run holds
  passes, mishaps,
  debut,           \* history: the verdict each posting was first stored with
  told,            \* history: how often each outlet was told of a posting
  excused,         \* history: the postings a mishap or a cap explains
  overlapping         \* history: runs begun while another was under way

pipeVars == <<jobs, uids, pass, passes, mishaps, debut, told, excused, overlapping>>

Found == {Copy[k].posting : k \in DOMAIN Copy}

ASSUME PostingsInOrder == IsFiniteSet(DOMAIN Copy) /\ Found \subseteq Nat
ASSUME MailsInOrder == Mails \in Seq(DOMAIN Copy \union {None})
ASSUME OutletsInOrder == Outlets \in Seq(ToSet(Outlets)) /\ Configured \subseteq ToSet(Outlets)
ASSUME PassesAreFew == IsFiniteSet(Passes)
ASSUME CutsAreNumbers == Cuts \subseteq Nat \union {None}

NoPass == [at |-> "idle", dry |-> FALSE, cut |-> None, mail |-> <<>>, offers |-> <<>>,
           kept |-> <<>>, fresh |-> {}, unseen |-> FALSE, shown |-> {}, queue |-> <<>>]

PipeInit ==
  /\ jobs = [p \in Found |-> None] /\ debut = jobs
  /\ uids = {} /\ excused = {}
  /\ pass = [r \in Passes |-> NoPass]
  /\ passes = 0 /\ mishaps = 0 /\ overlapping = 0
  /\ told = [p \in Found |-> [c \in Configured |-> 0]]

----------------------------------------------------------------------------
(* One copy of a posting.                                                  *)

(* _richness: a board of the employer's own, pay, a longer text, and then  *)
(* the content itself, here the number of the copy.                        *)
Richer(k, l) ==
  LET a == Copy[k]  b == Copy[l] IN
  IF a.ats # b.ats THEN a.ats
  ELSE IF a.paid # b.paid THEN a.paid
  ELSE IF a.length # b.length THEN a.length > b.length
  ELSE k > l

KeepRicher(kept, k) ==
  [copy |-> IF Richer(kept.copy, k) THEN kept.copy ELSE k,
   seen |-> kept.seen \union {Copy[k].source}]

(* dedupe: one record after the other, in the order they arrive.           *)
AddRecord(entries, k) ==
  LET same == {e \in entries : Copy[e.copy].posting = Copy[k].posting}
  IN IF same = {} THEN entries \union {[copy |-> k, seen |-> {Copy[k].source}]}
     ELSE (entries \ same) \union {KeepRicher(e, k) : e \in same}

Dedupe(raw) ==
  LET upTo[n \in 0..Len(raw)] == IF n = 0 THEN {} ELSE AddRecord(upTo[n - 1], raw[n])
  IN upTo[Len(raw)]

(* evaluate_jobs and _decide_verdict.  "hard" is an excluded topic, scored *)
(* only for a listing that passed the gates on the text.                   *)
GateOrder == <<"scam", "quality", "location", "hard", "pay", "ineligible", "trust", "fit">>

Failed(gates) ==
  IF gates \intersect {"quality", "location", "ineligible"} = {} THEN gates
  ELSE (gates \ {"hard"}) \union {"fit"}

Verdict(gates) ==
  LET failed == {i \in DOMAIN GateOrder : GateOrder[i] \in Failed(gates)} IN
  IF failed = {} THEN "surfaced"
  ELSE GateOrder[CHOOSE i \in failed : \A j \in failed : i <= j]

ASSUME NoneIsNoVerdict == None # "surfaced" /\ \A i \in DOMAIN GateOrder : None # GateOrder[i]

----------------------------------------------------------------------------
(* A run.                                                                  *)
OfPass(r) ==
  {Copy[k].posting : k \in ToSet(pass[r].offers)} \union
  {Copy[pass[r].kept[i].copy].posting : i \in DOMAIN pass[r].kept} \union
  pass[r].fresh \union pass[r].shown

Mishap(n, postings) ==
  /\ mishaps + n <= MaxMishaps
  /\ mishaps' = mishaps + n
  /\ excused' = IF n = 0 THEN excused ELSE excused \union postings

BeginPass(r) ==
  /\ pass[r].at = "idle" /\ passes < MaxPasses
  /\ passes' = passes + 1
  /\ \E dry \in BOOLEAN, cut \in Cuts :
       pass' = [pass EXCEPT ![r] = [NoPass EXCEPT
         !.at = "fetch", !.dry = dry, !.cut = cut, !.mail = [m \in DOMAIN Mails |-> m]]]
  /\ overlapping' = overlapping + Cardinality({q \in Passes : pass[q].at # "idle"})
  /\ UNCHANGED <<jobs, uids, mishaps, debut, told, excused>>

(* EmailOffersSource._fetch_sync: read, keep the offer, mark the mail.     *)
ReadMail(r) ==
  /\ pass[r].at = "fetch" /\ pass[r].mail # <<>>
  /\ LET m == Head(pass[r].mail)
         offer == IF m \in uids \/ Mails[m] = None THEN <<>> ELSE <<Mails[m]>>
     IN /\ uids' = uids \union {m}
        /\ pass' = [pass EXCEPT ![r].mail = Tail(@), ![r].offers = @ \o offer]
  /\ UNCHANGED <<jobs, passes, mishaps, debut, told, excused, overlapping>>

(* Source.fetch turns an exception into no mail at all.                    *)
MailBreaks(r) ==
  /\ pass[r].at = "fetch" /\ pass[r].mail # <<>>
  /\ pass' = [pass EXCEPT ![r].mail = <<>>, ![r].offers = <<>>]
  /\ Mishap(1, OfPass(r))
  /\ UNCHANGED <<jobs, uids, passes, debut, told, overlapping>>

(* Some of what the boards list, after or before the mail; the limit cuts  *)
(* the mail; the language model may find a doubtful posting a scam.        *)
Boarded == {k \in DOMAIN Copy : k \notin ToSet(Mails)}

Cut(cut, offers) == IF cut = None \/ Len(offers) <= cut THEN offers ELSE SubSeq(offers, 1, cut)

(* Each entry at the place its ID has among theirs.                        *)
PlaceIn(kept, e) ==
  Cardinality({d \in kept : Copy[d.copy].posting <= Copy[e.copy].posting})

InIdOrder(kept) ==
  [i \in 1..Cardinality(kept) |-> CHOOSE e \in kept : PlaceIn(kept, e) = i]

Evaluate(r) ==
  /\ pass[r].at = "fetch" /\ pass[r].mail = <<>>
  /\ \E listed \in SUBSET Boarded : \E boards \in SetToSeqs(listed), scams \in SUBSET Found :
       LET mail == Cut(pass[r].cut, pass[r].offers)
           kept == Dedupe(mail \o boards)
           gates(k) == Copy[k].gates \union
             IF Copy[k].doubtful /\ Copy[k].posting \in scams THEN {"scam"} ELSE {}
       IN /\ scams \subseteq {Copy[e.copy].posting : e \in {e \in kept : Copy[e.copy].doubtful}}
          /\ pass' = [pass EXCEPT ![r].at = "look", ![r].offers = <<>>,
               ![r].kept = [i \in 1..Cardinality(kept) |->
                 LET e == InIdOrder(kept)[i] IN
                 [copy |-> e.copy, seen |-> e.seen, verdict |-> Verdict(gates(e.copy))]]]
          /\ Mishap(IF mail = pass[r].offers THEN 0 ELSE 1, OfPass(r))
  /\ UNCHANGED <<jobs, uids, passes, debut, told, overlapping>>

InHand(r) == Head(pass[r].kept)
Subject(r) == Copy[InHand(r).copy].posting

Unseen(p) == jobs[p] = None

(* Fault: the posting is looked up after it was stored.                    *)
LookTooLate(r) ==
  /\ pass[r].at = "look" /\ pass[r].kept # <<>>
  /\ pass' = [pass EXCEPT ![r].at = "upsert", ![r].unseen = FALSE]
  /\ UNCHANGED <<jobs, uids, passes, mishaps, debut, told, excused, overlapping>>

Look(r) ==
  /\ pass[r].at = "look" /\ pass[r].kept # <<>>
  /\ pass' = [pass EXCEPT ![r].at = "upsert", ![r].unseen = Unseen(Subject(r))]
  /\ UNCHANGED <<jobs, uids, passes, mishaps, debut, told, excused, overlapping>>

Upsert(r) ==
  /\ pass[r].at = "upsert"
  /\ LET v == InHand(r).verdict  p == Subject(r) IN
     /\ jobs' = [jobs EXCEPT ![p] = v]
     /\ debut' = IF debut[p] = None THEN [debut EXCEPT ![p] = v] ELSE debut
     /\ pass' = [pass EXCEPT ![r].at = "look", ![r].kept = Tail(@), ![r].fresh =
          IF v = "surfaced" /\ pass[r].unseen THEN @ \union {p} ELSE @]
  /\ UNCHANGED <<uids, passes, mishaps, told, excused, overlapping>>

(* build_digest: a posting is shown unless those shown before it use up    *)
(* its employer's cap or the group's.                                      *)
FitsDigest(fresh) ==
  LET fits[p \in fresh] ==
        LET shown == {q \in fresh : q < p /\ fits[q]}
        IN /\ Cardinality({q \in shown : Employer[q] = Employer[p]}) < EmployerCap
           /\ Cardinality(shown) < TopN
  IN {p \in fresh : fits[p]}

(* The digest is written to its file; a dry run, and a run with nothing    *)
(* new and no alert, end here.                                             *)
ComposeDigest(r) ==
  /\ pass[r].at = "look" /\ pass[r].kept = <<>>
  /\ \E alerts \in BOOLEAN :
       LET fresh == pass[r].fresh
           shown == FitsDigest(fresh)
           quiet == fresh = {} /\ ~alerts
       IN /\ pass' = [pass EXCEPT ![r] =
               IF pass[r].dry \/ quiet THEN NoPass
               ELSE [@ EXCEPT !.at = "push", !.shown = shown, !.fresh = {}, !.queue = Outlets]]
          /\ IF pass[r].dry /\ fresh # {} THEN Mishap(1, fresh)
             ELSE mishaps' = mishaps /\ excused' = excused \union (fresh \ shown)
  /\ UNCHANGED <<jobs, uids, passes, debut, told, overlapping>>

SkipOutlet(r) ==
  /\ pass[r].at = "push" /\ pass[r].queue # <<>> /\ Head(pass[r].queue) \notin Configured
  /\ pass' = [pass EXCEPT ![r].queue = Tail(@)]
  /\ UNCHANGED <<jobs, uids, passes, mishaps, debut, told, excused, overlapping>>

(* Of a message sent in chunks some may arrive before the failure.         *)
PushDigest(r) ==
  /\ pass[r].at = "push" /\ pass[r].queue # <<>> /\ Head(pass[r].queue) \in Configured
  /\ \E arrived \in SUBSET pass[r].shown, ok \in BOOLEAN :
       /\ ok => arrived = pass[r].shown
       /\ told' = [p \in Found |->
            IF p \in arrived THEN [told[p] EXCEPT ![Head(pass[r].queue)] = @ + 1] ELSE told[p]]
       /\ Mishap(IF ok THEN 0 ELSE 1, pass[r].shown)
  /\ pass' = [pass EXCEPT ![r].queue = Tail(@)]
  /\ UNCHANGED <<jobs, uids, passes, debut, overlapping>>

EndPass(r) ==
  /\ pass[r].at = "push" /\ pass[r].queue = <<>>
  /\ pass' = [pass EXCEPT ![r] = NoPass]
  /\ UNCHANGED <<jobs, uids, passes, mishaps, debut, told, excused, overlapping>>

PassCrash(r) ==
  /\ pass[r].at # "idle"
  /\ pass' = [pass EXCEPT ![r] = NoPass]
  /\ Mishap(1, OfPass(r))
  /\ UNCHANGED <<jobs, uids, passes, debut, told, overlapping>>

PipeNext ==
  \E r \in Passes :
    \/ BeginPass(r) \/ ReadMail(r) \/ MailBreaks(r) \/ Evaluate(r) \/ Look(r) \/ Upsert(r)
    \/ ComposeDigest(r) \/ SkipOutlet(r) \/ PushDigest(r) \/ EndPass(r) \/ PassCrash(r)

PipeSpec == PipeInit /\ [][PipeNext]_pipeVars

----------------------------------------------------------------------------
(* Nothing is lost without a reason: an offer whose mail was marked, and a *)
(* posting that was surfaced when first stored, is with a run, or was told *)
(* (the offer: stored), or belonged to a dry run, a failed send, a crash,  *)
(* a broken mailbox, a limit or a full digest.  No outlet is told twice of *)
(* a posting but for overlapping runs.                                     *)
ToldOnceOrExplained ==
  LET held == (UNION {OfPass(r) : r \in Passes}) \union excused IN
  /\ \A m \in uids : Mails[m] # None =>
       LET p == Copy[Mails[m]].posting IN jobs[p] # None \/ p \in held
  /\ \A p \in Found \ held : debut[p] = "surfaced" => \A c \in Configured : told[p][c] > 0
  /\ \A p \in Found, c \in Configured : told[p][c] <= 1 + overlapping
=============================================================================
