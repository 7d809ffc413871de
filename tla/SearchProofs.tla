---------------------------- MODULE SearchProofs ----------------------------
(***************************************************************************)
(* What Search keeps for every number of sources, queries and threads: its *)
(* five invariants, from the inductive invariant IInv.                     *)
(***************************************************************************)
EXTENDS Search, TLAPS

\* A fetch that is out was started for this query or for an older generation.
WorkersAreDated ==
    \A w \in workers :
        /\ w.gen > 0 /\ w.gen <= gen /\ w.roster <= roster
        /\ w.gen = gen => w.terms = query /\ w.roster = visible

\* So is the mail; what was asked after the roster moved waits for a pump that drops it.
MailIsDated ==
    \A i \in Sources :
        LET m == fetch[i].mail
        IN  /\ m.gen <= gen
            /\ m.ok => m.answer.terms \in Terms
            /\ m.ok /\ m.gen = gen =>
                 m.answer.terms = query /\ (visible = roster => m.answer.roster = visible)

\* An answer that was recorded is about the query and the roster of the store.
AnswersAreCurrent ==
    \A i \in Sources :
        src[i].status = "Answered" =>
            /\ src[i].answer.terms \in Terms /\ src[i].answer.terms = query
            /\ src[i].answer.roster = visible

\* The shelves follow the answers.
ItemsAreShelved ==
    visible = roster /\ (\E i \in live : HasItems(src[i])) => shelves # {}

Clocks ==
    /\ visible <= roster
    /\ query # Blank => gen > 0
    /\ query = Blank => shelves = {}

\* The inductive invariant.
IInv ==
    /\ TypeOK /\ Clocks
    /\ WorkersAreDated /\ MailIsDated /\ AnswersAreCurrent /\ ItemsAreShelved
    /\ ShownIsAsked /\ AnswerIsKept /\ ClaimIsOwed /\ NoResultsIsFinal

-----------------------------------------------------------------------------
(* The pieces of a step. *)

\* The empty answer and the empty fetch have their types.
LEMMA EmptyTypes ==
    /\ NoAnswer \in Answers /\ NoMail \in Mails
    /\ EMPTY \in Source /\ IDLE \in Claim
BY SearchAssumption DEF NoAnswer, NoMail, EMPTY, IDLE, Answers, Mails, Source, Claim

\* Taking a source's mail leaves a source; it is answered afterwards if it was, or if the mail
\* was a fresh answer, and in no other case.
LEMMA RecordedEffect ==
    ASSUME NEW s \in Source, NEW m \in Mails, NEW g
    PROVE  LET n == Recorded(s, m, g)
           IN  /\ n \in Source
               /\ n.status = "Answered" =>
                    \/ s.status = "Answered" /\ n.answer = s.answer
                    \/ Fresh(m, g) /\ m.ok /\ n.answer = m.answer
               /\ s.status = "Answered" => n.status = "Answered"
               /\ Fresh(m, g) /\ m.ok => n.status = "Answered"
               /\ ~Fresh(m, g) => n.status = s.status /\ n.answer = s.answer
<1> DEFINE c == [s EXCEPT !.cd = Cooled(@)]
<1>1. Cooled(s.cd) \in 0 .. RetryFrames
  BY SearchAssumption DEF Cooled, Source
<1>2. c \in Source /\ c.status = s.status /\ c.answer = s.answer
  BY <1>1 DEF Source
<1>3. CASE ~Fresh(m, g)
  BY <1>2, <1>3 DEF Recorded
<1>4. CASE Fresh(m, g)
  <2>1. Recorded(s, m, g) = record(c, m)
    BY <1>4 DEF Recorded
  <2> HIDE DEF c
  <2>2. CASE m.ok
    <3>1. record(c, m) = [c EXCEPT !.status = "Answered", !.answer = m.answer]
      BY <2>2 DEF record
    <3> QED  BY <1>2, <1>4, <2>1, <2>2, <3>1 DEF Source, Mails
  <2>3. CASE ~m.ok /\ c.status # "Answered"
    <3>1. record(c, m) = [c EXCEPT !.status = "Failed", !.cd = RetryFrames]
      BY <2>3 DEF record
    <3>2. RetryFrames \in 0 .. RetryFrames
      BY SearchAssumption
    <3>3. record(c, m) \in Source /\ record(c, m).status = "Failed"
      BY <1>2, <3>1, <3>2 DEF Source
    <3> QED  BY <1>2, <1>4, <2>1, <2>3, <3>3
  <2>4. CASE ~m.ok /\ c.status = "Answered"
    <3>1. record(c, m) = c
      BY <2>4 DEF record
    <3> QED  BY <1>2, <1>4, <2>1, <2>4, <3>1
  <2> QED  BY <2>2, <2>3, <2>4
<1> QED  BY <1>3, <1>4


\* The type invariant holds initially, with the rest of IInv.
LEMMA InitIInv == Init => IInv
<1> SUFFICES ASSUME Init PROVE IInv
  OBVIOUS
<1>1. TypeOK
  BY EmptyTypes DEF Init, TypeOK
<1>2. Clocks /\ WorkersAreDated
  BY DEF Init, Clocks, WorkersAreDated
<1>3. MailIsDated /\ ClaimIsOwed
  BY DEF Init, MailIsDated, ClaimIsOwed, IDLE, NoMail
<1>4. AnswersAreCurrent /\ ItemsAreShelved
  BY DEF Init, AnswersAreCurrent, ItemsAreShelved, HasItems, EMPTY
<1>5. ShownIsAsked /\ AnswerIsKept /\ NoResultsIsFinal
  BY DEF Init, ShownIsAsked, AnswerIsKept, NoResultsIsFinal
<1> QED  BY <1>1, <1>2, <1>3, <1>4, <1>5 DEF IInv

\* A step that starts a generation and publishes nothing keeps IInv.
LEMMA SupersedeKeepsIInv ==
    ASSUME IInv, NEW f \in Nat, supersede(f),
           query' \in Terms \cup {Blank},
           shelves' = {}, state' \in {"Idle", "Searching"},
           visible' \in {visible, roster}, settle' \in Nat, armed' \in BOOLEAN,
           workers' \subseteq workers, UNCHANGED << roster, live, sections >>
    PROVE  IInv'
<1> USE DEF IInv
<1>1. gen' = gen + 1 /\ gen \in Nat /\ favs' = f /\ told' = {}
  BY DEF supersede, TypeOK
<1>2. src' = [i \in Sources |-> EMPTY] /\ fetch' = [i \in Sources |-> IDLE]
  BY DEF supersede, Cleared
<1>3. TypeOK'
  BY <1>1, <1>2, EmptyTypes DEF TypeOK
<1>4. Clocks'
  BY <1>1 DEF Clocks, TypeOK
<1>5. WorkersAreDated'
  BY <1>1 DEF WorkersAreDated, TypeOK
<1>6. MailIsDated' /\ ClaimIsOwed'
  BY <1>1, <1>2 DEF MailIsDated, ClaimIsOwed, IDLE, NoMail
<1>7. AnswersAreCurrent' /\ ItemsAreShelved'
  BY <1>2 DEF AnswersAreCurrent, ItemsAreShelved, HasItems, EMPTY, TypeOK
<1>8. ShownIsAsked' /\ AnswerIsKept' /\ NoResultsIsFinal'
  BY <1>1 DEF ShownIsAsked, AnswerIsKept, NoResultsIsFinal
<1> QED  BY <1>3, <1>4, <1>5, <1>6, <1>7, <1>8

\* set_query supersedes the question.
LEMMA SetQueryKeepsIInv ==
    ASSUME IInv, NEW t \in Terms \cup {Blank}, set_query(t)
    PROVE  IInv'
<1>1. sections \in Nat
  BY DEF IInv, TypeOK
<1> QED  BY <1>1, SupersedeKeepsIInv DEF set_query

\* A profile switch supersedes everything.
LEMMA ResetKeepsIInv ==
    ASSUME IInv, reset
    PROVE  IInv'
BY SupersedeKeepsIInv DEF reset

\* A change of the roster alone: the store does not know yet.
LEMMA RosterKeepsIInv ==
    ASSUME IInv, RosterChanges
    PROVE  IInv'
<1> USE DEF IInv, RosterChanges, store
<1>1. roster' = roster + 1 /\ roster \in Nat /\ visible' = visible /\ visible <= roster
  BY DEF TypeOK, Clocks
<1>2. TypeOK' /\ Clocks' /\ WorkersAreDated'
  BY <1>1 DEF TypeOK, Clocks, WorkersAreDated
<1>3. visible' # roster'
  BY <1>1 DEF TypeOK
<1>4. MailIsDated' /\ AnswersAreCurrent' /\ ItemsAreShelved'
  BY <1>3 DEF MailIsDated, AnswersAreCurrent, ItemsAreShelved
<1>5. ShownIsAsked' /\ AnswerIsKept' /\ ClaimIsOwed' /\ NoResultsIsFinal'
  BY <1>3 DEF ShownIsAsked, AnswerIsKept, ClaimIsOwed, NoResultsIsFinal
<1> QED  BY <1>2, <1>4, <1>5

\* The favourites change; the pump finds out later.
LEMMA SectionsKeepIInv ==
    ASSUME IInv, SectionsChange
    PROVE  IInv'
<1> USE DEF IInv, SectionsChange, store
<1>1. TypeOK' /\ Clocks' /\ WorkersAreDated'
  BY DEF TypeOK, Clocks, WorkersAreDated
<1>2. MailIsDated' /\ AnswersAreCurrent' /\ ItemsAreShelved'
  BY DEF MailIsDated, AnswersAreCurrent, ItemsAreShelved, HasItems
<1>3. ShownIsAsked' /\ AnswerIsKept' /\ ClaimIsOwed' /\ NoResultsIsFinal'
  BY DEF ShownIsAsked, AnswerIsKept, ClaimIsOwed, NoResultsIsFinal
<1> QED  BY <1>1, <1>2, <1>3


\* A worker posts: the mailbox keeps the better of the two.
LEMMA LandKeepsIInv ==
    ASSUME IInv, NEW w \in workers, land(w)
    PROVE  IInv'
<1> USE DEF IInv
<1> PICK ok \in BOOLEAN, items \in BOOLEAN, r \in w.roster .. roster :
      LET a == [terms |-> w.terms, roster |-> r, items |-> items]
          m == [gen |-> w.gen, ok |-> ok, answer |-> IF ok THEN a ELSE NoAnswer]
          old == fetch[w.at].mail
      IN  /\ fetch' = [fetch EXCEPT ![w.at].mail = IF old = NoMail \/ Beats(old, m) THEN m ELSE old]
          /\ workers' = workers \ {w}
          /\ told' = IF ok /\ w.gen = gen THEN told \cup {w.at} ELSE told
          /\ UNCHANGED << store, gen, roster, live, sections >>
  BY DEF land
<1> DEFINE a == [terms |-> w.terms, roster |-> r, items |-> items]
           m == [gen |-> w.gen, ok |-> ok, answer |-> IF ok THEN a ELSE NoAnswer]
           old == fetch[w.at].mail
           new == IF old = NoMail \/ Beats(old, m) THEN m ELSE old
<1>1. /\ w.at \in Sources /\ w.gen \in Nat /\ w.terms \in Terms /\ w.roster \in Nat
      /\ w.gen > 0 /\ w.gen <= gen /\ gen \in Nat /\ roster \in Nat /\ visible \in Nat
      /\ w.gen = gen => w.terms = query /\ w.roster = visible
  BY DEF TypeOK, WorkersAreDated
<1>2. UNCHANGED << query, visible, favs, settle, armed, src, shelves, state,
                   gen, roster, live, sections >>
  BY DEF store
<1>3. a \in Answers /\ m \in Mails
  BY <1>1, EmptyTypes DEF Answers, Mails
<1>4. old \in Mails /\ fetch \in [Sources -> Claim]
  BY <1>1 DEF TypeOK, Claim
<1>5. /\ fetch' \in [Sources -> Claim]
      /\ fetch'[w.at].mail = new /\ fetch'[w.at].busy = fetch[w.at].busy
      /\ \A i \in Sources : i # w.at => fetch'[i] = fetch[i]
  BY <1>1, <1>3, <1>4 DEF Claim
<1>6. m.gen = w.gen /\ m.ok = ok /\ (ok => m.answer = a) /\ m # NoMail
  BY <1>1 DEF NoMail
<1> HIDE DEF m
<1>7. TypeOK'
  BY <1>1, <1>2, <1>5 DEF TypeOK
<1>8. Clocks' /\ WorkersAreDated' /\ AnswersAreCurrent' /\ ItemsAreShelved'
      /\ ShownIsAsked' /\ NoResultsIsFinal'
  BY <1>2 DEF Clocks, WorkersAreDated, AnswersAreCurrent, ItemsAreShelved, ShownIsAsked,
              NoResultsIsFinal, HasItems
<1>9. MailIsDated'
  <2>1. /\ m.gen <= gen /\ (m.ok => m.answer.terms \in Terms)
        /\ m.ok /\ m.gen = gen =>
             m.answer.terms = query /\ (visible = roster => m.answer.roster = visible)
    BY <1>1, <1>6
  <2> QED  BY <1>1, <1>2, <1>5, <2>1 DEF MailIsDated
<1>10. AnswerIsKept'
  <2> SUFFICES ASSUME NEW i \in told'
               PROVE  \/ src[i].status = "Answered"
                      \/ fetch'[i].mail.gen = gen /\ fetch'[i].mail.ok
    BY <1>2 DEF AnswerIsKept
  <2>1. CASE i # w.at
    BY <1>1, <1>5, <2>1 DEF AnswerIsKept, TypeOK
  <2>2. CASE i = w.at /\ i \in told
    BY <1>1, <1>4, <1>5, <1>6, <2>2 DEF AnswerIsKept, Beats, Mails, NoMail
  <2>3. CASE i = w.at /\ i \notin told
    <3>1. ok /\ w.gen = gen
      BY <2>3
    <3>2. old.gen <= gen /\ old.gen \in Nat /\ old.ok \in BOOLEAN
      BY <1>1, <1>4 DEF MailIsDated, Mails
    <3> QED  BY <1>1, <1>5, <1>6, <2>3, <3>1, <3>2 DEF Beats
  <2> QED  BY <2>1, <2>2, <2>3
<1>11. ClaimIsOwed'
  <2> SUFFICES ASSUME NEW i \in Sources, fetch'[i].busy
               PROVE  fetch'[i].mail # NoMail \/ \E x \in workers' : x.at = i
    BY DEF ClaimIsOwed
  <2>1. CASE i = w.at
    BY <1>5, <1>6, <2>1
  <2>2. CASE i # w.at
    BY <1>5, <2>2 DEF ClaimIsOwed
  <2> QED  BY <2>1, <2>2
<1> QED  BY <1>7, <1>8, <1>9, <1>10, <1>11


\* A frame: fresh answers are recorded, what they leave is published, and every source that
\* is owed a fetch and gets a thread is claimed.
LEMMA PumpKeepsIInv ==
    ASSUME IInv, pump
    PROVE  IInv'
<1> USE DEF IInv
<1> DEFINE moved == visible # roster
           refav == (IF moved THEN 0 ELSE favs) # sections /\ query # Blank
           again == moved \/ refav
           g == gen + (IF moved THEN 1 ELSE 0) + (IF refav THEN 1 ELSE 0)
           held == (IF refav THEN 0 ELSE settle) + 1
           waiting == (armed \/ refav) /\ held < SettleFrames
           src0 == IF again THEN [i \in Sources |-> EMPTY] ELSE src
           fetch0 == IF again THEN [i \in Sources |-> Cleared(fetch[i])] ELSE fetch
           src1 == [i \in Sources |-> IF i \in live THEN Recorded(src0[i], fetch0[i].mail, g)
                                      ELSE src0[i]]
           fetch1 == [i \in Sources |-> IF i \in live THEN Taken(fetch0[i]) ELSE fetch0[i]]
           wants == { i \in live : maybe_spawn(src1[i], fetch1[i], waiting) }
           landed == \E i \in live : Fresh(fetch0[i].mail, g)
<1>1. PICK started \in SUBSET wants :
        /\ fetch' = [i \in Sources |-> Claimed(fetch1[i], wants, started, i)]
        /\ workers' = workers \cup { NewWorker(i, g) : i \in started }
  BY DEF pump
<1>2. /\ visible' = roster /\ favs' = sections /\ gen' = g
      /\ settle' = IF armed \/ refav THEN held ELSE settle
      /\ armed' = waiting
      /\ src' = src1
      /\ shelves' = IF landed THEN merge(src1, live, sections) ELSE IF again THEN {} ELSE shelves
      /\ state' = state_from(src1, live)
      /\ told' = IF again THEN {} ELSE told
      /\ UNCHANGED << query, roster, live, sections >>
  BY DEF pump
<1>3. /\ gen \in Nat /\ g \in Nat /\ g >= gen /\ (again => g > gen) /\ (~again => g = gen)
      /\ roster \in Nat /\ visible \in Nat /\ live \subseteq Sources /\ (~again => visible = roster)
  BY DEF TypeOK
<1>4. src0 \in [Sources -> Source] /\ fetch0 \in [Sources -> Claim]
  BY EmptyTypes DEF TypeOK, Cleared
\* What the old mail, or none of it, says at the new generation.
<1>5. \A i \in Sources :
        LET m == fetch0[i].mail
        IN  /\ m \in Mails /\ m.gen <= g /\ (m.ok => m.answer.terms \in Terms)
            /\ m.ok /\ m.gen = g => m.answer.terms = query /\ m.answer.roster = roster
  <2>1. CASE again
    BY <1>3, <2>1, EmptyTypes DEF Cleared, IDLE, NoMail
  <2>2. CASE ~again
    BY <1>3, <1>4, <2>2 DEF MailIsDated, Claim
  <2> QED  BY <2>1, <2>2
\* So do the sources.
<1>6. \A i \in Sources :
        src0[i].status = "Answered" =>
          /\ src0[i].answer.terms \in Terms /\ src0[i].answer.terms = query
          /\ src0[i].answer.roster = roster
  <2>1. CASE again
    BY <2>1 DEF EMPTY
  <2>2. CASE ~again
    BY <1>3, <2>2 DEF AnswersAreCurrent
  <2> QED  BY <2>1, <2>2
<1> HIDE DEF g, src0, fetch0, again, waiting
<1>7. \A i \in Sources :
        /\ src1[i] \in Source
        /\ src1[i].status = "Answered" =>
             \/ src0[i].status = "Answered" /\ src1[i].answer = src0[i].answer
             \/ /\ i \in live /\ Fresh(fetch0[i].mail, g) /\ fetch0[i].mail.ok
                /\ src1[i].answer = fetch0[i].mail.answer
        /\ src0[i].status = "Answered" => src1[i].status = "Answered"
        /\ i \in live /\ Fresh(fetch0[i].mail, g) /\ fetch0[i].mail.ok => src1[i].status = "Answered"
        /\ ~(i \in live /\ Fresh(fetch0[i].mail, g)) =>
             src1[i].status = src0[i].status /\ src1[i].answer = src0[i].answer
  <2> TAKE i \in Sources
  <2>1. src0[i] \in Source /\ fetch0[i].mail \in Mails
    BY <1>4, <1>5
  <2>2. CASE i \in live
    BY <2>1, <2>2, RecordedEffect
  <2>3. CASE i \notin live
    BY <2>1, <2>3
  <2> QED  BY <2>2, <2>3
<1>8. AnswersAreCurrent'
  <2> SUFFICES ASSUME NEW i \in Sources, src1[i].status = "Answered"
               PROVE  /\ src1[i].answer.terms \in Terms /\ src1[i].answer.terms = query
                      /\ src1[i].answer.roster = roster
    BY <1>2 DEF AnswersAreCurrent
  <2> QED  BY <1>5, <1>6, <1>7 DEF Fresh
<1>9. /\ src1 \in [Sources -> Source]
      /\ \A i \in Sources : src1[i].status = "Answered" =>
           /\ src1[i].answer \in Answers /\ src1[i].answer.terms = query
           /\ src1[i].answer.terms \in Terms /\ src1[i].answer.roster = roster
  BY <1>2, <1>7, <1>8 DEF AnswersAreCurrent, Source
<1> HIDE DEF src1
<1>10. /\ merge(src1, live, sections) \subseteq [terms : Terms, roster : Nat, favs : Nat]
       /\ \A a \in merge(src1, live, sections) :
             a.terms = query /\ a.roster = roster /\ a.favs = sections
       /\ (\E i \in live : HasItems(src1[i])) <=> merge(src1, live, sections) # {}
  <2>1. sections \in Nat /\ roster \in Nat
    BY DEF TypeOK
  <2>2. \A i \in live : HasItems(src1[i]) =>
          /\ src1[i].answer.terms \in Terms /\ src1[i].answer.terms = query
          /\ src1[i].answer.roster = roster
    BY <1>3, <1>9 DEF HasItems
  <2>3. \A a \in merge(src1, live, sections) : \E i \in live :
          /\ HasItems(src1[i])
          /\ a = [terms |-> src1[i].answer.terms, roster |-> src1[i].answer.roster,
                  favs |-> sections]
    BY DEF merge
  <2>4. \A i \in live : HasItems(src1[i]) =>
          [terms |-> src1[i].answer.terms, roster |-> src1[i].answer.roster, favs |-> sections]
            \in merge(src1, live, sections)
    BY DEF merge
  <2> HIDE DEF landed
  <2>5. \A a \in merge(src1, live, sections) :
          /\ a \in [terms : Terms, roster : Nat, favs : Nat]
          /\ a.terms = query /\ a.roster = roster /\ a.favs = sections
    BY <2>1, <2>2, <2>3
  <2>6. (\E i \in live : HasItems(src1[i])) <=> merge(src1, live, sections) # {}
    BY <2>3, <2>4
  <2> QED  BY <2>5, <2>6
<1>11. ShownIsAsked' /\ (query' = Blank => shelves' = {})
       /\ shelves' \subseteq [terms : Terms \cup {Blank}, roster : Nat, favs : Nat]
  <2>1. CASE landed
    BY <1>2, <1>10, <2>1, SearchAssumption DEF ShownIsAsked
  <2>2. CASE ~landed /\ again
    BY <1>2, <2>2 DEF ShownIsAsked
  <2>3. CASE ~landed /\ ~again
    BY <1>2, <1>3, <2>3 DEF again, ShownIsAsked, TypeOK, Clocks
  <2> QED  BY <2>1, <2>2, <2>3
<1>12. ItemsAreShelved'
  <2> SUFFICES ASSUME NEW i \in live, HasItems(src1[i])
               PROVE  shelves' # {}
    BY <1>2 DEF ItemsAreShelved
  <2>1. CASE landed
    BY <1>2, <1>10, <2>1
  <2>2. CASE ~landed
    <3>1. HasItems(src0[i])
      BY <1>3, <1>7, <2>2 DEF HasItems
    <3>2. ~again /\ HasItems(src[i])
      BY <1>3, <3>1 DEF src0, HasItems, EMPTY
    <3> QED  BY <1>2, <1>3, <2>2, <3>2 DEF ItemsAreShelved
  <2> QED  BY <2>1, <2>2
<1>13. NoResultsIsFinal'
  <2> SUFFICES ASSUME state_from(src1, live) = "Ready", shelves' = {}, NEW i \in live,
                      src1[i].status = "Pending"
               PROVE  FALSE
    BY <1>2 DEF NoResultsIsFinal
  <2>1. \E j \in live : HasItems(src1[j])
    BY DEF state_from
  <2> QED  BY <1>2, <1>12, <2>1 DEF ItemsAreShelved
<1>14. AnswerIsKept'
  <2> SUFFICES ASSUME ~again, NEW i \in told
               PROVE  \/ src1[i].status = "Answered"
                      \/ fetch'[i].mail.gen = g /\ fetch'[i].mail.ok
    BY <1>2 DEF AnswerIsKept
  <2>1. i \in Sources /\ src0[i] = src[i] /\ fetch0[i] = fetch[i] /\ g = gen
    BY <1>3 DEF TypeOK, src0, fetch0
  <2>2. CASE src[i].status = "Answered"
    BY <1>7, <2>1, <2>2
  <2>3. CASE fetch[i].mail.gen = gen /\ fetch[i].mail.ok
    <3>1. Fresh(fetch0[i].mail, g) /\ fetch0[i].mail.ok
      BY <2>1, <2>3 DEF Fresh, NoMail
    <3>2. CASE i \in live
      BY <1>7, <2>1, <3>1, <3>2
    <3>3. CASE i \notin live
      BY <1>1, <1>4, <2>1, <2>3, <3>3 DEF Claimed, Claim
    <3> QED  BY <3>2, <3>3
  <2> QED  BY <2>2, <2>3 DEF AnswerIsKept
\* What is left in the mailboxes, and who holds a claim.
<1>15. \A i \in Sources :
         /\ fetch'[i] \in Claim
         /\ fetch'[i].mail \in {fetch0[i].mail, NoMail}
         /\ fetch'[i].busy => \/ i \in started
                              \/ fetch0[i].busy /\ fetch'[i].mail = fetch0[i].mail
  <2> TAKE i \in Sources
  <2>1. /\ fetch1[i] \in Claim
        /\ fetch1[i].mail \in {fetch0[i].mail, NoMail}
        /\ fetch1[i].busy => fetch0[i].busy /\ fetch1[i].mail = fetch0[i].mail
    BY <1>4, EmptyTypes DEF Taken, IDLE
  <2> HIDE DEF fetch1
  <2>2. fetch'[i] = IF i \in started THEN [fetch1[i] EXCEPT !.busy = TRUE] ELSE fetch1[i]
    BY <1>1 DEF Claimed
  <2> QED  BY <2>1, <2>2 DEF Claim
<1>16. MailIsDated'
  BY <1>2, <1>3, <1>5, <1>15 DEF MailIsDated, NoMail
<1>17. ClaimIsOwed'
  <2> SUFFICES ASSUME NEW i \in Sources, fetch'[i].busy
               PROVE  fetch'[i].mail # NoMail \/ \E w \in workers' : w.at = i
    BY DEF ClaimIsOwed
  <2>1. CASE i \in started
    <3>1. NewWorker(i, g) \in workers'
      BY <1>1, <2>1
    <3>2. NewWorker(i, g).at = i
      BY DEF NewWorker, Worker
    <3> QED  BY <3>1, <3>2
  <2>2. CASE fetch0[i].busy /\ fetch'[i].mail = fetch0[i].mail
    <3>1. fetch0[i] = fetch[i]
      BY <2>2 DEF fetch0, Cleared, IDLE
    <3> QED  BY <1>1, <2>2, <3>1 DEF ClaimIsOwed
  <2> QED  BY <1>15, <2>1, <2>2
<1>18. \A w \in workers' :
         \/ w \in workers
         \/ /\ w.at \in Sources /\ w.gen = g /\ w.terms = query /\ w.roster = roster
            /\ query \in Terms
  <2> SUFFICES ASSUME NEW i \in started, NEW w, w = NewWorker(i, g)
               PROVE  /\ w.at \in Sources /\ w.gen = g /\ w.terms = query /\ w.roster = roster
                      /\ query \in Terms
    BY <1>1
  <2>1. query # Blank /\ i \in Sources
    BY <1>3 DEF maybe_spawn
  <2> QED  BY <2>1 DEF NewWorker, Worker, TypeOK
<1>19. Clocks' /\ WorkersAreDated'
  <2>1. Clocks'
    BY <1>2, <1>3, <1>11 DEF Clocks
  <2>2. WorkersAreDated'
    <3> SUFFICES ASSUME NEW w \in workers'
                 PROVE  /\ w.gen > 0 /\ w.gen <= g /\ w.roster <= roster
                        /\ w.gen = g => w.terms = query /\ w.roster = roster
      BY <1>2 DEF WorkersAreDated
    <3>1. CASE w \in workers
      BY <1>3, <3>1 DEF WorkersAreDated, TypeOK
    <3>2. CASE w.gen = g /\ w.terms = query /\ w.roster = roster /\ query \in Terms
      BY <1>3, <3>2, SearchAssumption DEF Clocks
    <3> QED  BY <1>18, <3>1, <3>2
  <2> QED  BY <2>1, <2>2
<1>20. TypeOK'
  <2>1. settle' \in Nat /\ armed' \in BOOLEAN
    BY <1>2 DEF TypeOK, waiting
  <2>2. state' \in {"Idle", "Searching", "Ready", "Failed"}
    BY <1>2 DEF state_from
  <2>3. fetch' \in [Sources -> Claim]
    BY <1>1, <1>15
  <2>4. \A w \in workers' :
          w.at \in Sources /\ w.gen \in Nat /\ w.terms \in Terms /\ w.roster \in Nat
    BY <1>3, <1>18 DEF TypeOK
  <2>5. /\ query' \in Terms \cup {Blank} /\ gen' \in Nat /\ visible' \in Nat /\ favs' \in Nat
        /\ roster' \in Nat /\ sections' \in Nat /\ live' \subseteq Sources /\ told' \subseteq Sources
    BY <1>2, <1>3 DEF TypeOK
  <2> QED  BY <1>2, <1>9, <1>11, <2>1, <2>2, <2>3, <2>4, <2>5 DEF TypeOK
<1> QED  BY <1>8, <1>11, <1>12, <1>13, <1>14, <1>16, <1>17, <1>19, <1>20

-----------------------------------------------------------------------------
(* The theorems. *)

\* Every step of the search store preserves the invariant.
LEMMA NextKeepsIInv == IInv /\ [Next]_vars => IInv'
<1> SUFFICES ASSUME IInv, [Next]_vars PROVE IInv'
  OBVIOUS
<1>1. CASE \E t \in Terms \cup {Blank} : set_query(t)
  BY <1>1, SetQueryKeepsIInv
<1>2. CASE reset
  BY <1>2, ResetKeepsIInv
<1>3. CASE pump
  BY <1>3, PumpKeepsIInv
<1>4. CASE \E w \in workers : land(w)
  BY <1>4, LandKeepsIInv
<1>5. CASE RosterChanges
  BY <1>5, RosterKeepsIInv
<1>6. CASE SectionsChange
  BY <1>6, SectionsKeepIInv
<1>7. CASE UNCHANGED vars
  BY <1>7 DEF vars, IInv, TypeOK, Clocks, WorkersAreDated, MailIsDated, AnswersAreCurrent,
              ItemsAreShelved, ShownIsAsked, AnswerIsKept, ClaimIsOwed, NoResultsIsFinal, HasItems
<1> QED  BY <1>1, <1>2, <1>3, <1>4, <1>5, <1>6, <1>7 DEF Next

\* The inductive invariant holds in every reachable state of the search store.
THEOREM SearchInvariant == Spec => []IInv
BY InitIInv, NextKeepsIInv, PTL DEF Spec

\* The type invariant: no countdown of a source runs below zero (pump).
THEOREM SearchTypes == Spec => []TypeOK
<1>1. IInv => TypeOK
  BY DEF IInv
<1> QED  BY <1>1, SearchInvariant, PTL

\* The shelves answer the query, the roster and the favourites of the store, whatever
\* superseded workers post and in whatever order (pump, supersede).
THEOREM OnlyAskedIsShown == Spec => []ShownIsAsked
<1>1. IInv => ShownIsAsked
  BY DEF IInv
<1> QED  BY <1>1, SearchInvariant, PTL

\* No answer to the query on the screen is lost to a duplicate fetch (land, record).
THEOREM AnswersSurviveDuplicates == Spec => []AnswerIsKept
<1>1. IInv => AnswerIsKept
  BY DEF IInv
<1> QED  BY <1>1, SearchInvariant, PTL

\* A held claim is always owed mail: supersedes, stale landings and refused threads never
\* leave a source shut out (Fetch, maybe_spawn).
THEOREM ClaimsAreOwed == Spec => []ClaimIsOwed
<1>1. IInv => ClaimIsOwed
  BY DEF IInv
<1> QED  BY <1>1, SearchInvariant, PTL

\* "No results" is said only when every live source has had its say (state_from, rebuild).
THEOREM NoResultsMeansNone == Spec => []NoResultsIsFinal
<1>1. IInv => NoResultsIsFinal
  BY DEF IInv
<1> QED  BY <1>1, SearchInvariant, PTL

\* The store's safety in one: the types, the claims and the verdict of the screen (maybe_spawn,
\* state_from).
THEOREM SearchIsSafe == Spec => []SearchSafe
<1>1. TypeOK /\ ClaimIsOwed /\ NoResultsIsFinal => SearchSafe
  BY DEF SearchSafe
<1> QED  BY <1>1, SearchTypes, ClaimsAreOwed, NoResultsMeansNone, PTL

=============================================================================
