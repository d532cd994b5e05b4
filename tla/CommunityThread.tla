---------------------------- MODULE CommunityThread ---------------------------
(***************************************************************************)
(* v41/community.py: a request for work in a public forum topic, read page *)
(* by page while its author and others go on posting and editing, and      *)
(* projected into a vacancy: who asks, whether the request was closed, and *)
(* which of the amounts named belong to the buyer's current terms.         *)
(*                                                                         *)
(* A post is known by its number, its author, the time it was written and  *)
(* last edited, and by what its text says: it asks for paid work, offers   *)
(* services, declines to pay, closes or reopens the request (or both at    *)
(* once: "mixed"), declares another scope or budget, names an amount, or   *)
(* none of these.  The topic's first post makes the request.               *)
(***************************************************************************)
EXTENDS WorkspaceFiles, FiniteSets, Sequences, FiniteSetsExt

CONSTANTS
  Openers,      \* the first posts a topic can begin with
  Writers,      \* who posts later: the author, others, the forum itself
  Sayings,      \* what a later post or an edit can say
  FirstPage,    \* posts on the topic's own page
  MorePosts,    \* posts asked for by one further request
  PostBudget,   \* community_max_posts
  PageBudget,   \* community_max_pages
  LastMoment,   \* bound: the clock
  MaxPosts,     \* bound: posts of the topic
  MaxEdits      \* bound: edits of posts

VARIABLES
  topic,     \* the forum's posts, by number
  moment,    \* the clock
  edits,     \* edits so far
  reading,   \* the read under way
  capture    \* the observation the last read left

threadVars == <<topic, moment, edits, reading, capture>>

-----------------------------------------------------------------------------
\* The time is unknown when it lies after the run's time of observation.
KnownTime(post, asOf) == post.at <= asOf
EditedAt(post, asOf) == IF post.edited # None /\ post.edited <= asOf /\ post.edited >= post.at
                        THEN post.edited ELSE None

Intent(post) == IF post.says = "hidden" THEN "unknown"
                ELSE IF post.says = "offer" THEN "seller"
                ELSE IF post.says = "ask" THEN "buyer"
                ELSE "discussion"

\* The buyer's posts among those fetched.
Own(got) == {n \in DOMAIN got : got[n].by = got[1].by}

LastThat(got, says) == LET those == {n \in Own(got) : got[n].says \in says}
                       IN  IF those = {} THEN None ELSE got[Max(those)].says

ThreadIntent(got) ==
  IF Intent(got[1]) = "buyer" /\ LastThat(got, {"free", "ask"}) = "free"
  THEN "discussion" ELSE Intent(got[1])

\* A word of closing stands until a word of reopening, or of both.
SaysClosed(got) == LastThat(got, {"closed", "reopened", "mixed"}) = "closed"

\* Everything the topic listed was fetched, readable and dated.
Complete(got, listed, asOf) ==
  /\ DOMAIN got = listed
  /\ \A n \in DOMAIN got : got[n].says # "hidden" /\ KnownTime(got[n], asOf)
  /\ ThreadIntent(got) = "buyer" => LastThat(got, {"mixed"}) = None

\* Fault: what was closed stays closed, however little was read.
VacancyAsRead(got, listed, asOf) ==
  IF SaysClosed(got) THEN "explicitly_closed" ELSE "unknown"

\* A part read may lack a later reopening.
Vacancy(got, listed, asOf) ==
  IF Complete(got, listed, asOf) /\ ThreadIntent(got) = "buyer" /\ SaysClosed(got)
  THEN "explicitly_closed" ELSE "unknown"

-----------------------------------------------------------------------------
(* _buyer_revisions: the posts whose amounts are of the current terms.     *)

Declares(post) == post.says \in {"scope", "budget"}
Declared(got) == {n \in Own(got) \ {1} : Declares(got[n])}
Amounts == {"budget", "amount"}

\* No declaration is dated before one it would replace.
DatesInOrder(got) ==
  \A m, n \in {1} \cup Declared(got) : m < n => got[m].at <= got[n].at

\* The posts the latest declaration leaves: all there are without one.
LatestTerms(got) ==
  LET latest == Max(Declared(got))
  IN  IF Declared(got) = {} THEN Own(got)
      ELSE IF got[latest].says = "budget" THEN {latest} ELSE {}

\* An amount beside them was edited after the declaration, so that it may be
\* the newer one.
EditedSince(got, asOf) ==
  /\ Declared(got) # {}
  /\ \E n \in Own(got) \ LatestTerms(got) :
       /\ got[n].says \in Amounts
       /\ EditedAt(got[n], asOf) # None
       /\ EditedAt(got[n], asOf) > got[Max(Declared(got))].at

\* Fault: an edit is taken for no change.
TermsWhateverEdited(got, listed, asOf) ==
  IF ~Complete(got, listed, asOf) \/ ~DatesInOrder(got) THEN None ELSE LatestTerms(got)

\* The posts of the current terms, or None where their order is not known.
CurrentTerms(got, listed, asOf) ==
  IF ~Complete(got, listed, asOf) \/ ~DatesInOrder(got) \/ EditedSince(got, asOf)
  THEN None ELSE LatestTerms(got)

\* project_thread and thread_outcome of what a read has fetched.
Projection(got, listed, asOf, error) ==
  [got |-> got, intent |-> ThreadIntent(got), vacancy |-> Vacancy(got, listed, asOf),
   terms |-> IF ThreadIntent(got) = "buyer" THEN CurrentTerms(got, listed, asOf) ELSE None,
   state |-> IF Complete(got, listed, asOf) /\ ~error THEN "complete" ELSE "partial",
   wasClosed |-> reading.wasClosed \/ SaysClosed(topic), steady |-> reading.steady]

-----------------------------------------------------------------------------
(* The read: one request at a time, the forum going on in between.         *)

NotReading == [on |-> FALSE, asOf |-> 0, got |-> <<>>, listed |-> {}, pages |-> 0,
               wasClosed |-> FALSE, steady |-> TRUE]

ThreadInit ==
  /\ \E opener \in Openers :
       topic = <<[by |-> "author", says |-> opener, at |-> 0, edited |-> None]>>
  /\ moment = 0 /\ edits = 0
  /\ reading = NotReading
  /\ capture = None

BeginRead ==
  /\ ~reading.on
  /\ reading' = [NotReading EXCEPT !.on = TRUE, !.asOf = moment]
  /\ UNCHANGED <<topic, moment, edits, capture>>

Missing == reading.listed \ DOMAIN reading.got

\* The posts the next request is for: the topic's own page first, which also
\* lists them all, then as many of the missing as the budget leaves.
Asked ==
  LET from == IF reading.pages = 0 THEN DOMAIN topic ELSE Missing
      most == IF reading.pages = 0 THEN FirstPage ELSE MorePosts
      room == PostBudget - Cardinality(DOMAIN reading.got)
      few == Min({most, room})
  IN  {n \in from : Cardinality({m \in from : m <= n}) <= few}

\* The read ends when nothing is missing or a budget is spent.
FetchPage ==
  LET listed == IF reading.pages = 0 THEN DOMAIN topic ELSE reading.listed
      got == [n \in DOMAIN reading.got \cup Asked |->
                IF n \in Asked THEN topic[n] ELSE reading.got[n]]
      over == \/ listed = DOMAIN got \/ Cardinality(DOMAIN got) >= PostBudget
              \/ reading.pages + 1 = PageBudget
      closed == SaysClosed(topic) \/ (reading.pages > 0 /\ reading.wasClosed)
  IN  /\ reading.on
      /\ IF over
         THEN /\ capture' = Projection(got, listed, reading.asOf, FALSE)
              /\ reading' = NotReading
         ELSE /\ reading' = [reading EXCEPT !.got = got, !.listed = listed,
                                            !.pages = @ + 1, !.wasClosed = closed]
              /\ UNCHANGED capture
      /\ UNCHANGED <<topic, moment, edits>>

\* A request fails or is refused: what was read before it is kept.
FetchFails ==
  /\ reading.on
  /\ capture' = IF reading.pages = 0 THEN None
                ELSE Projection(reading.got, reading.listed, reading.asOf, TRUE)
  /\ reading' = NotReading
  /\ UNCHANGED <<topic, moment, edits>>

-----------------------------------------------------------------------------
(* The forum.                                                              *)

\* A post is added; one moved in from another topic brings an earlier date.
AddPost(by, says, at) ==
  LET posts == Append(topic, [by |-> by, says |-> says, at |-> at, edited |-> None]) IN
  /\ Len(topic) < MaxPosts
  /\ topic' = posts
  /\ reading' = [reading EXCEPT !.wasClosed = @ \/ (reading.pages > 0 /\ SaysClosed(posts))]
  /\ UNCHANGED <<moment, edits, capture>>

EditPost(n, says) ==
  LET posts == [topic EXCEPT ![n].says = says, ![n].edited = moment] IN
  /\ edits < MaxEdits
  /\ says # topic[n].says
  /\ topic' = posts
  /\ edits' = edits + 1
  /\ reading' = [reading EXCEPT !.wasClosed = @ \/ (reading.pages > 0 /\ SaysClosed(posts)),
                                !.steady = ~reading.on]
  /\ UNCHANGED <<moment, capture>>

PassTime ==
  /\ moment < LastMoment
  /\ moment' = moment + 1
  /\ UNCHANGED <<topic, edits, reading, capture>>

\* A read keeps nothing of an earlier one: a behaviour ends with its capture.
ThreadNext ==
  /\ capture = None
  /\ \/ BeginRead
     \/ FetchPage
     \/ FetchFails
     \/ \E by \in Writers, says \in Sayings, at \in 0..moment : AddPost(by, says, at)
     \/ \E n \in DOMAIN topic, says \in Sayings : EditPost(n, says)
     \/ PassTime

ThreadSpec == ThreadInit /\ [][ThreadNext]_threadVars

-----------------------------------------------------------------------------
(* Properties.                                                             *)

\* A request reported closed was closed at some moment of the read, although
\* the pages were read one after the other and a budget or a failure may have
\* ended it early (community.py:382, "Partial capture may omit a later
\* reopening").  A post edited between two pages can make up a picture that
\* never was, so the reads meant are those no edit fell into.
ClosedWasSaid ==
  capture # None /\ capture.steady /\ capture.vacancy = "explicitly_closed" => capture.wasClosed

\* An amount taken as the buyer's current terms is older than no declared
\* change of them, and no other amount of the buyer's was edited after the
\* change it came with (community.py:140, 462, _bind_current_terms).  The edits
\* meant are all there were when the read ended, of reads that none fell into:
\* an edit later than the time the run observes at is read as undated.
CurrentAmountIsNewest ==
  capture # None /\ capture.terms # None =>
    LET got == capture.got IN
    \A n \in capture.terms : got[n].says \in Amounts =>
      \A m \in Own(got) \ {n} :
        /\ Declares(got[m]) /\ m > 1 => got[m].at <= got[n].at /\ Declares(got[n])
        /\ n > 1 /\ Declares(got[n]) /\ capture.steady /\ got[m].says \in Amounts =>
             got[m].edited = None \/ got[m].edited <= got[n].at

\* The state and the terms read off a thread are ones it had.
ReadingIsFair == ClosedWasSaid /\ CurrentAmountIsNewest
=============================================================================
