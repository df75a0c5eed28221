------------------------- MODULE OfficialTagsProofs -------------------------
(***************************************************************************)
(* Theorems about OfficialTags, for any requests, tags, lists of tags,     *)
(* numbers of attempts and of indexes, and whatever may fail.              *)
(***************************************************************************)
EXTENDS OfficialTags, TLAPS

LEMMA HeadAndTail ==
  ASSUME NEW s \in Seq(Tags), s # <<>>
  PROVE  Head(s) \in Tags /\ Tail(s) \in Seq(Tags)
OBVIOUS

\* The tag a request deals with.
LEMMA TagType ==
  ASSUME TInv, NEW r \in Requests, ~At(r, "idle")
  PROVE  Tag(r) \in Tags /\ Tail(left[r]) \in Seq(Tags)
BY HeadAndTail DEF TInv, TypeOK, AtWork, Tag

-----------------------------------------------------------------------------
(* The parts of a step that several actions share. *)

LEMMA NextTagTInv ==
  ASSUME TInv, NEW r \in Requests, ~At(r, "idle"), NextTag(r),
         UNCHANGED <<token, published, cache, pending>>
  PROVE  TInv'
<1>1. Tail(left[r]) \in Seq(Tags)
  BY TagType
<1>2. TypeOK'
  BY <1>1, RetriesAssumption, IndexAssumption
     DEF TInv, TypeOK, NextTag, To, Stages, Token, Indexes
<1>3. AtWork'
  BY <1>1, RetriesAssumption DEF TInv, TypeOK, AtWork, NextTag, To, At, InLoop, Stages
<1> QED
  BY <1>2, <1>3 DEF TInv

LEMMA AttemptFailedTInv ==
  ASSUME TInv, NEW r \in Requests, stage[r] \in InLoop, AttemptFailed(r),
         NEW R, Disturbed(R), token' \in Token, UNCHANGED <<published, cache, pending>>
  PROVE  TInv'
<1>1. tries[r] + 1 \in 0 .. MaxRetries
  BY RetriesAssumption DEF TInv, TypeOK, AtWork
<1>2. TypeOK'
  BY <1>1 DEF TInv, TypeOK, AttemptFailed, Disturbed, To, Stages, Token
<1>3. AtWork'
  BY <1>1, RetriesAssumption
     DEF TInv, TypeOK, AtWork, AttemptFailed, To, At, InLoop, Stages
<1> QED
  BY <1>2, <1>3 DEF TInv

-----------------------------------------------------------------------------
(* Types. *)

LEMMA InitTInv == Init => TInv
BY RetriesAssumption, IndexAssumption
   DEF Init, TInv, TypeOK, AtWork, At, InLoop, Stages, Token, Indexes

LEMMA StepTInv == TInv /\ [Next]_vars => TInv'
<1> SUFFICES ASSUME TInv, [Next]_vars PROVE TInv'
  OBVIOUS
<1>0. TypeOK /\ AtWork
  BY DEF TInv
<1>1. ASSUME NEW r \in Requests, Start(r) PROVE TInv'
  <2>1. PICK l \in TagLists : left' = [left EXCEPT ![r] = l]
    BY <1>1 DEF Start
  <2>2. l \in Seq(Tags) /\ l # <<>>
    BY ListsAssumption
  <2>3. TypeOK'
    BY <1>0, <1>1, <2>1, <2>2 DEF Start, TypeOK, To, Stages
  <2>4. AtWork'
    BY <1>0, <1>1, <2>1, <2>2, RetriesAssumption
       DEF Start, TypeOK, AtWork, To, At, InLoop, Stages
  <2> QED
    BY <2>3, <2>4 DEF TInv
<1>2. ASSUME NEW r \in Requests, Ask(r) PROVE TInv'
  <2>1. TypeOK'
    BY <1>0, <1>2 DEF Ask, TypeOK, To, Stages, Token, Disturbed
  <2>2. AtWork'
    BY <1>0, <1>2 DEF Ask, TypeOK, AtWork, To, At, InLoop, Stages
  <2> QED
    BY <2>1, <2>2 DEF TInv
<1>3. ASSUME NEW r \in Requests, AskPanics(r) PROVE TInv'
  <2>1. TypeOK'
    BY <1>0, <1>3, RetriesAssumption DEF AskPanics, TypeOK, To, Stages
  <2>2. AtWork'
    BY <1>0, <1>3 DEF AskPanics, TypeOK, AtWork, To, At, InLoop, Stages
  <2> QED
    BY <2>1, <2>2 DEF TInv
<1>4. ASSUME NEW r \in Requests, AskUnknown(r) PROVE TInv'
  <2>1. PICK R : Disturbed(R)
    BY <1>4 DEF AskUnknown
  <2> QED
    BY <1>0, <1>4, <2>1, AttemptFailedTInv DEF AskUnknown, TypeOK, At, InLoop
<1>5. ASSUME NEW r \in Requests, Listed(r) PROVE TInv'
  <2>1. TypeOK'
    BY <1>0, <1>5 DEF Listed, TypeOK, To, Stages, Token
  <2>2. AtWork'
    BY <1>0, <1>5 DEF Listed, TypeOK, AtWork, To, At, InLoop, Stages
  <2> QED
    BY <2>1, <2>2 DEF TInv
<1>6. ASSUME NEW r \in Requests, Refused(r) PROVE TInv'
  <2>1. TypeOK'
    BY <1>0, <1>6 DEF Refused, TypeOK, To, Stages
  <2>2. AtWork'
    BY <1>0, <1>6 DEF Refused, TypeOK, AtWork, To, At, InLoop, Stages
  <2> QED
    BY <2>1, <2>2 DEF TInv
<1>7. ASSUME NEW r \in Requests, AskFails(r) PROVE TInv'
  BY <1>0, <1>7, AttemptFailedTInv DEF AskFails, TypeOK, At, InLoop
<1>8. ASSUME NEW r \in Requests, Refresh(r) PROVE TInv'
  <2>1. Tag(r) \in Token
    BY <1>8, TagType DEF Refresh, At, Token
  <2>2. TypeOK'
    BY <1>0, <1>8, <2>1 DEF Refresh, TypeOK, To, Stages, Token, Disturbed
  <2>3. AtWork'
    BY <1>0, <1>8 DEF Refresh, TypeOK, AtWork, To, At, InLoop, Stages
  <2> QED
    BY <2>2, <2>3 DEF TInv
<1>9. ASSUME NEW r \in Requests, RefreshFails(r) PROVE TInv'
  BY <1>0, <1>9, AttemptFailedTInv DEF RefreshFails, TypeOK, At, InLoop
<1>10. ASSUME NEW r \in Requests, Assign(r) PROVE TInv'
  <2>1. token' \in Token
    BY <1>0, <1>10 DEF Assign, TypeOK
  <2> QED
    BY <1>10, <2>1, AttemptFailedTInv DEF Assign, At, InLoop
<1>11. ASSUME NEW r \in Requests, Skip(r) \/ ListCharts(r) PROVE TInv'
  BY <1>11, NextTagTInv DEF Skip, ListCharts, At
<1>12. ASSUME NEW r \in Requests, Load(r) PROVE TInv'
  <2>1. TypeOK'
    <3>1. PICK oldest \in Underway \cup {published} : floor' = [floor EXCEPT ![r] = oldest]
      BY <1>12 DEF Load
    <3>2. Underway \cup {published} \subseteq Indexes
      BY <1>0 DEF TypeOK, AtWork, Underway
    <3> QED
      BY <1>0, <1>12, <3>1, <3>2 DEF Load, TypeOK, To, Stages
  <2>2. AtWork'
    BY <1>0, <1>12, NoneAssumption DEF Load, TypeOK, AtWork, To, At, InLoop, Stages, Indexes
  <2> QED
    BY <2>1, <2>2 DEF TInv
<1>13. ASSUME NEW r \in Requests, Store(r) PROVE TInv'
  <2>1. TypeOK'
    BY <1>0, <1>13 DEF Store, TypeOK, To, Stages
  <2>2. AtWork'
    BY <1>0, <1>13 DEF Store, TypeOK, AtWork, To, At, InLoop, Stages
  <2> QED
    BY <2>1, <2>2 DEF TInv
<1>14. ASSUME NEW r \in Requests, Patch(r) \/ SyncFails(r) PROVE TInv'
  <2>1. TypeOK'
    BY <1>0, <1>14 DEF Patch, SyncFails, TypeOK, To, Stages
  <2>2. AtWork'
    BY <1>0, <1>14 DEF Patch, SyncFails, TypeOK, AtWork, To, At, InLoop, Stages
  <2> QED
    BY <2>1, <2>2 DEF TInv
<1>15. CASE PublishIndex
  BY <1>0, <1>15, IndexAssumption DEF TInv, PublishIndex, TypeOK, AtWork, At, InLoop, Indexes, request
<1>16. CASE Expire
  <2>1. \A t \in Token : Aged(t) \in Token
    BY DEF Aged, Token
  <2>2. TypeOK'
    BY <1>0, <1>16, <2>1 DEF Expire, TypeOK, Disturbed
  <2> QED
    BY <1>0, <1>16, <2>2 DEF TInv, Expire, AtWork, At, InLoop
<1>17. CASE BackgroundLoad
  BY <1>0, <1>17 DEF TInv, BackgroundLoad, TypeOK, AtWork, At, InLoop, request
<1>18. CASE BackgroundStore
  BY <1>0, <1>18 DEF TInv, BackgroundStore, TypeOK, AtWork, At, InLoop, request
<1>19. CASE UNCHANGED vars
  BY <1>0, <1>19 DEF TInv, vars, TypeOK, AtWork, At, InLoop
<1> QED
  BY <1>1, <1>2, <1>3, <1>4, <1>5, <1>6, <1>7, <1>8, <1>9, <1>10, <1>11, <1>12, <1>13,
     <1>14, <1>15, <1>16, <1>17, <1>18, <1>19 DEF Next, Handler

LEMMA TypeInvariance == Spec => []TInv
  BY InitTInv, StepTInv, PTL DEF Spec

(***************************************************************************)
(* Every variable stays in its range, whatever requests arrive and fail:   *)
(* no tag is tried more often than MaxRetries.                             *)
(***************************************************************************)
THEOREM TagTypes == Spec => []TypeOK
<1>1. TInv => TypeOK
  BY DEF TInv
<1> QED
  BY <1>1, TypeInvariance, PTL

-----------------------------------------------------------------------------
(* Answers are not older than their synchronisation. *)

Answering == {"store", "patch", "list"}

\* Steps that store no index and let no answer depend on another one.
LEMMA IndexesAlone ==
  ASSUME AnswerInv, TInv', UNCHANGED <<published, cache, pending>>,
         \A q \in Requests :
           \/ stage'[q] \notin Answering
           \/ /\ stage'[q] = stage[q] \/ (stage[q] = "patch" /\ stage'[q] = "list")
              /\ seen'[q] = seen[q]
              /\ floor'[q] = floor[q]
  PROVE  AnswerInv'
<1>0. Fresh /\ AnswerNotOlder
  BY DEF AnswerInv
<1>1. Fresh'
  <2>1. \A r \in Requests : (stage[r] \in Answering => NewEnough(floor[r]))
    BY <1>0 DEF Fresh, Answering
  <2>2. \A r \in Requests : stage'[r] \in Answering => NewEnough(floor[r])'
    BY <2>1 DEF NewEnough, Answering, At
  <2> QED
    BY <1>0, <2>2 DEF Fresh, Answering, At
<1>2. AnswerNotOlder'
  BY <1>0 DEF AnswerNotOlder, Answering
<1> QED
  BY <1>1, <1>2 DEF AnswerInv

LEMMA InitAnswer == Init => AnswerInv
BY InitTInv DEF Init, AnswerInv, Fresh, AnswerNotOlder, At

LEMMA StepAnswer == AnswerInv /\ [Next]_vars => AnswerInv'
<1> SUFFICES ASSUME AnswerInv, [Next]_vars PROVE AnswerInv'
  OBVIOUS
<1>0. TypeOK /\ AtWork /\ Fresh /\ AnswerNotOlder
  BY DEF AnswerInv, TInv
<1>t. TInv'
  BY StepTInv DEF AnswerInv
<1>t1. TypeOK' /\ AtWork'
  BY <1>t DEF TInv
<1>1. ASSUME NEW r \in Requests,
             Start(r) \/ Ask(r) \/ AskPanics(r) \/ Listed(r) \/ Refused(r) \/ Refresh(r)
      PROVE  AnswerInv'
  BY <1>0, <1>t, <1>1, IndexesAlone
     DEF Start, Ask, AskPanics, Listed, Refused, Refresh, At, To, Answering, TypeOK
<1>2. ASSUME NEW r \in Requests, AskUnknown(r) \/ AskFails(r) \/ RefreshFails(r) \/ Assign(r)
      PROVE  AnswerInv'
  BY <1>0, <1>t, <1>2, IndexesAlone
     DEF AskUnknown, AskFails, RefreshFails, Assign, AttemptFailed, To, Answering, TypeOK
<1>3. ASSUME NEW r \in Requests, Skip(r) \/ ListCharts(r) PROVE AnswerInv'
  BY <1>0, <1>t, <1>3, IndexesAlone DEF Skip, ListCharts, NextTag, To, Answering, TypeOK
<1>4. ASSUME NEW r \in Requests, Patch(r) \/ SyncFails(r) PROVE AnswerInv'
  BY <1>0, <1>t, <1>4, IndexesAlone DEF Patch, SyncFails, To, At, Answering, TypeOK
<1>5. CASE Expire \/ UNCHANGED vars
  BY <1>0, <1>t, <1>5, IndexesAlone DEF Expire, vars
<1>6. ASSUME NEW r \in Requests, Load(r) PROVE AnswerInv'
  <2>1. PICK oldest \in Underway \cup {published} :
          /\ \A i \in Underway \cup {published} : oldest <= i
          /\ floor' = [floor EXCEPT ![r] = oldest]
    BY <1>6 DEF Load
  <2>2. /\ seen' = [seen EXCEPT ![r] = published]
        /\ stage' = [stage EXCEPT ![r] = "store"]
        /\ UNCHANGED <<published, cache, pending>>
        /\ stage[r] = "load"
    BY <1>6 DEF Load, To, At
  <2>3. \A q \in Requests : At(q, "store") => oldest <= seen[q]
    BY <2>1 DEF Underway
  <2>4. oldest <= published /\ (pending # None => oldest <= pending)
    BY <2>1 DEF Underway
  <2>5. Underway \cup {published} \subseteq Int
    BY <1>0 DEF TypeOK, AtWork, Underway, Indexes
  <2>6. \A q \in Requests : stage'[q] \in Answering => NewEnough(floor[q])'
    <3> SUFFICES ASSUME NEW q \in Requests, stage'[q] \in Answering
                 PROVE  NewEnough(floor[q])'
      OBVIOUS
    <3>1. CASE q = r
      BY <1>0, <2>1, <2>2, <2>3, <2>4, <3>1 DEF NewEnough, At, TypeOK
    <3>2. CASE q # r
      <4>1. NewEnough(floor[q])
        BY <1>0, <2>2, <3>2 DEF Fresh, Answering, TypeOK
      <4>2. floor'[q] = floor[q]
        BY <1>0, <2>1, <3>2 DEF TypeOK
      <4> QED
        BY <1>0, <2>2, <4>1, <4>2 DEF NewEnough, At, TypeOK
    <3> QED
      BY <3>1, <3>2
  <2>7. Fresh'
    BY <1>0, <2>2, <2>6 DEF Fresh, At, TypeOK, Answering, Indexes
  <2>8. AnswerNotOlder'
    BY <1>0, <2>1, <2>2 DEF AnswerNotOlder, TypeOK
  <2> QED
    BY <1>t, <2>7, <2>8 DEF AnswerInv
<1>7. ASSUME NEW r \in Requests, Store(r) PROVE AnswerInv'
  <2>1. /\ stage[r] = "store"
        /\ stage' = [stage EXCEPT ![r] = "patch"]
        /\ cache' = seen[r]
        /\ seen' = [seen EXCEPT ![r] = None]
        /\ UNCHANGED <<published, pending, floor>>
    BY <1>7 DEF Store, To, At
  <2>2. seen[r] # None
    BY <1>0, <2>1 DEF AtWork, At
  <2>3. \A q \in Requests : stage'[q] \in Answering => NewEnough(floor[q])
    BY <1>0, <2>1 DEF Fresh, Answering, TypeOK
  <2>4. \A q \in Requests : stage'[q] \in Answering => NewEnough(floor[q])'
    BY <1>0, <2>1, <2>3 DEF NewEnough, At, TypeOK
  <2>5. Fresh'
    BY <1>0, <2>1, <2>4 DEF Fresh, At, Answering, TypeOK
  <2>6. AnswerNotOlder'
    BY <1>0, <2>1, <2>2, <2>3 DEF AnswerNotOlder, NewEnough, Answering, At, TypeOK
  <2> QED
    BY <1>t, <2>5, <2>6 DEF AnswerInv
<1>8. CASE PublishIndex
  <2>1. Fresh'
    BY <1>0, <1>8, NoneAssumption
       DEF PublishIndex, Fresh, NewEnough, At, request, TypeOK, AtWork, Indexes
  <2>2. AnswerNotOlder'
    BY <1>0, <1>8 DEF PublishIndex, AnswerNotOlder, request
  <2> QED
    BY <1>t, <2>1, <2>2 DEF AnswerInv
<1>9. CASE BackgroundLoad
  <2>1. Fresh'
    BY <1>0, <1>9 DEF BackgroundLoad, Fresh, NewEnough, At, request, TypeOK, Indexes
  <2>2. AnswerNotOlder'
    BY <1>0, <1>9 DEF BackgroundLoad, AnswerNotOlder, request
  <2> QED
    BY <1>t, <2>1, <2>2 DEF AnswerInv
<1>10. CASE BackgroundStore
  <2>1. Fresh'
    BY <1>0, <1>10 DEF BackgroundStore, Fresh, NewEnough, At, request
  <2>2. AnswerNotOlder'
    BY <1>0, <1>10 DEF BackgroundStore, AnswerNotOlder, Fresh, NewEnough, request
  <2> QED
    BY <1>t, <2>1, <2>2 DEF AnswerInv
<1> QED
  BY <1>1, <1>2, <1>3, <1>4, <1>5, <1>6, <1>7, <1>8, <1>9, <1>10 DEF Next, Handler

(***************************************************************************)
(* However many synchronisations overlap, an answer is no older than what  *)
(* was loaded, or about to be stored, when its own synchronisation loaded. *)
(***************************************************************************)
THEOREM AnswersNotOlder == Spec => []AnswerNotOlder
<1>1. AnswerInv => AnswerNotOlder
  BY DEF AnswerInv
<1> QED
  BY <1>1, InitAnswer, StepAnswer, PTL DEF Spec

-----------------------------------------------------------------------------
(* One refusal is enough. *)

LEMMA InitToken == Init => TokenInv
BY InitTInv DEF Init, TokenInv, OneRefusal, At

\* Steps of one request that leave the others, and the token, alone.
LEMMA OthersAlone ==
  ASSUME TokenInv, NEW r \in Requests, token' = token,
         \A q \in Requests \ {r} :
           /\ stage'[q] = stage[q] /\ left'[q] = left[q] /\ tries'[q] = tries[q]
           /\ held'[q] = held[q] /\ calm'[q] = calm[q]
  PROVE  \A q \in Requests \ {r} : calm'[q] =>
           /\ At(q, "ask")' => tries'[q] = 0 \/ (tries'[q] = 1 /\ token' = Tag(q)')
           /\ At(q, "sent")' => tries'[q] = 0 \/ (tries'[q] = 1 /\ held'[q] = Tag(q)')
           /\ At(q, "refresh")' => tries'[q] = 0
           /\ At(q, "assign")' => tries'[q] = 0 /\ held'[q] = Tag(q)'
           /\ ~At(q, "exhausted")'
BY DEF TokenInv, OneRefusal, At, Tag

LEMMA StepToken ==
  ASSUME MaxRetries >= 2, Key = Display
  PROVE  TokenInv /\ [Next]_vars => TokenInv'
<1> SUFFICES ASSUME TokenInv, [Next]_vars PROVE TokenInv'
  OBVIOUS
<1>0. TInv /\ TypeOK /\ AtWork /\ OneRefusal
  BY DEF TokenInv, TInv
<1>t. TInv'
  BY <1>0, StepTInv
<1> SUFFICES OneRefusal'
  BY <1>t DEF TokenInv
<1>1. ASSUME NEW r \in Requests, Start(r) PROVE OneRefusal'
  <2>1. stage'[r] = "ask" /\ tries'[r] = 0
    BY <1>0, <1>1 DEF Start, To, TypeOK, AtWork
  <2> QED
    BY <1>0, <1>1, <2>1, OthersAlone DEF Start, To, OneRefusal, At, TypeOK
<1>2. ASSUME NEW r \in Requests, Ask(r) PROVE OneRefusal'
  <2>1. stage'[r] = "sent" /\ tries'[r] = tries[r] /\ left'[r] = left[r] /\ stage[r] = "ask"
    BY <1>0, <1>2 DEF Ask, To, At, TypeOK
  <2>2. calm'[r] => calm[r] /\ held'[r] = token
    BY <1>0, <1>2 DEF Ask, Disturbed, TypeOK
  <2>3. \A q \in Requests \ {r} : calm'[q] = calm[q]
    BY <1>0, <1>2 DEF Ask, Disturbed, TypeOK
  <2>4. calm'[r] => tries'[r] = 0 \/ (tries'[r] = 1 /\ held'[r] = Tag(r)')
    BY <1>0, <2>1, <2>2 DEF OneRefusal, At, Tag
  <2> QED
    <3>1. \A q \in Requests \ {r} :
            /\ stage'[q] = stage[q] /\ left'[q] = left[q] /\ tries'[q] = tries[q]
            /\ held'[q] = held[q] /\ calm'[q] = calm[q]
      BY <1>0, <1>2, <2>3 DEF Ask, To, TypeOK
    <3>2. token' = token
      BY <1>2 DEF Ask
    <3> QED
      BY <2>1, <2>4, <3>1, <3>2, OthersAlone DEF OneRefusal, At
<1>3. ASSUME NEW r \in Requests, AskPanics(r) PROVE OneRefusal'
  BY <1>0, <1>3, OthersAlone DEF AskPanics, To, OneRefusal, At, TypeOK
<1>4. ASSUME NEW r \in Requests, AskUnknown(r) \/ AskFails(r) \/ RefreshFails(r)
      PROVE  OneRefusal'
  <2>1. Disturbed({r}) /\ AttemptFailed(r) /\ token' = token
    <3>1. ~Cached(Key) => cache = None
      BY DEF Cached
    <3>2. CASE AskUnknown(r)
      BY <3>1, <3>2 DEF AskUnknown
    <3>3. CASE AskFails(r) \/ RefreshFails(r)
      BY <3>3 DEF AskFails, RefreshFails
    <3> QED
      BY <1>4, <3>2, <3>3
  <2>2. calm'[r] = FALSE /\ \A q \in Requests \ {r} : calm'[q] = calm[q]
    BY <1>0, <2>1 DEF Disturbed, TypeOK
  <2>3. \A q \in Requests \ {r} : /\ stage'[q] = stage[q] /\ tries'[q] = tries[q]
                                  /\ held'[q] = held[q] /\ left'[q] = left[q]
    BY <1>0, <2>1 DEF AttemptFailed, To, TypeOK
  <2> QED
    BY <2>1, <2>2, <2>3, OthersAlone DEF OneRefusal, At
<1>5. ASSUME NEW r \in Requests, Listed(r) \/ Patch(r) \/ Load(r) \/ Store(r) \/ SyncFails(r)
      PROVE  OneRefusal'
  <2>1. stage'[r] \in {"load", "list", "store", "patch", "blocked"}
    BY <1>0, <1>5 DEF Listed, Patch, Load, Store, SyncFails, To, TypeOK
  <2>2. \A q \in Requests \ {r} : stage'[q] = stage[q] /\ held'[q] = held[q]
    BY <1>0, <1>5 DEF Listed, Patch, Load, Store, SyncFails, To, TypeOK
  <2>3. UNCHANGED <<token, left, tries, calm>>
    BY <1>5 DEF Listed, Patch, Load, Store, SyncFails
  <2> QED
    BY <1>0, <2>1, <2>2, <2>3, OthersAlone DEF OneRefusal, At
<1>6. ASSUME NEW r \in Requests, Refused(r) PROVE OneRefusal'
  <2>1. stage[r] = "sent" /\ stage'[r] = "refresh" /\ held[r] # Tag(r)
    BY <1>0, <1>6 DEF Refused, Accepts, To, At, TypeOK
  <2>2. calm[r] => tries[r] = 0
    BY <1>0, <2>1 DEF OneRefusal, At
  <2> QED
    BY <1>0, <1>6, <2>1, <2>2, OthersAlone DEF Refused, To, OneRefusal, At, TypeOK
<1>7. ASSUME NEW r \in Requests, Refresh(r) PROVE OneRefusal'
  <2>1. stage[r] = "refresh" /\ stage'[r] = "assign"
    BY <1>0, <1>7 DEF Refresh, To, At, TypeOK
  <2>2. calm'[r] => calm[r] /\ held'[r] = Tag(r)
    BY <1>0, <1>7 DEF Refresh, Disturbed, TypeOK
  <2>3. calm'[r] => tries'[r] = 0 /\ held'[r] = Tag(r)'
    BY <1>0, <1>7, <2>1, <2>2 DEF OneRefusal, At, Refresh, Tag
  <2>4. \A q \in Requests \ {r} : calm'[q] = calm[q] /\ held'[q] = held[q]
    BY <1>0, <1>7 DEF Refresh, Disturbed, TypeOK
  <2>5. \A q \in Requests \ {r} : stage'[q] = stage[q]
    BY <1>0, <1>7 DEF Refresh, To, TypeOK
  <2>6. UNCHANGED <<token, left, tries>>
    BY <1>7 DEF Refresh
  <2> QED
    BY <2>1, <2>3, <2>4, <2>5, <2>6, OthersAlone DEF OneRefusal, At
<1>8. ASSUME NEW r \in Requests, Assign(r) PROVE OneRefusal'
  <2>1. \A q \in Requests \ {r} : calm'[q] = FALSE
    BY <1>0, <1>8 DEF Assign, Disturbed
  <2>2. calm'[r] => calm[r]
    BY <1>8 DEF Assign, Disturbed
  <2>3. calm'[r] => tries[r] = 0 /\ held[r] = Tag(r)
    BY <1>0, <1>8, <2>2 DEF OneRefusal, Assign, At
  <2>4. calm'[r] => stage'[r] = "ask" /\ tries'[r] = 1 /\ token' = Tag(r)'
    BY <1>0, <1>8, <2>3 DEF Assign, AttemptFailed, To, Tag, TypeOK
  <2> QED
    BY <2>1, <2>4 DEF OneRefusal, At
<1>9. ASSUME NEW r \in Requests, Skip(r) \/ ListCharts(r) PROVE OneRefusal'
  <2>1. NextTag(r) /\ token' = token
    BY <1>9 DEF Skip, ListCharts
  <2>2. stage'[r] \in {"idle", "ask"} /\ tries'[r] = 0
    BY <1>0, <2>1 DEF NextTag, To, TypeOK
  <2> QED
    BY <1>0, <2>1, <2>2, OthersAlone DEF NextTag, To, OneRefusal, At, TypeOK
<1>10. CASE Expire
  BY <1>10 DEF Expire, Disturbed, OneRefusal
<1>11. CASE PublishIndex \/ BackgroundLoad \/ BackgroundStore \/ UNCHANGED vars
  BY <1>0, <1>11
     DEF PublishIndex, BackgroundLoad, BackgroundStore, vars, request, OneRefusal, At, Tag
<1> QED
  BY <1>1, <1>2, <1>3, <1>4, <1>5, <1>6, <1>7, <1>8, <1>9, <1>10, <1>11 DEF Next, Handler

LEMMA UnderItsName ==
  ASSUME MaxRetries >= 2, Key = Display
  PROVE  Spec => []LoneTagServed
<1>1. TokenInv => LoneTagServed
  BY DEF TokenInv, OneRefusal, LoneTagServed
<1>2. TokenInv /\ [Next]_vars => TokenInv'
  BY StepToken
<1> QED
  BY <1>1, <1>2, InitToken, PTL DEF Spec

\* Under another name no request leaves its loop.
Unserved == TInv /\ \A r \in Requests : stage[r] \in {"idle", "ask", "exhausted"}

LEMMA UnderAnotherName ==
  ASSUME Key # Display
  PROVE  Spec => []Unserved
<1>1. Init => Unserved
  BY InitTInv DEF Init, Unserved
<1>2. Unserved /\ [Next]_vars => Unserved'
  <2> SUFFICES ASSUME Unserved, [Next]_vars PROVE Unserved'
    OBVIOUS
  <2>0. TInv /\ TypeOK /\ ~Cached(Key)
    BY DEF Unserved, TInv, Cached
  <2>t. TInv'
    BY <2>0, StepTInv
  <2>1. ASSUME NEW r \in Requests, Start(r) \/ AskUnknown(r) \/ Skip(r) PROVE Unserved'
    BY <2>0, <2>t, <2>1
       DEF Start, AskUnknown, Skip, AttemptFailed, NextTag, To, TypeOK, Unserved
  <2>2. ASSUME NEW r \in Requests, Handler(r) PROVE AskUnknown(r) \/ Skip(r)
    BY <2>0, <2>2
       DEF Handler, Unserved, At, Ask, AskPanics, Listed, Refused, AskFails, Refresh,
           RefreshFails, Assign, Load, Store, Patch, SyncFails, ListCharts
  <2>3. CASE PublishIndex \/ Expire \/ BackgroundLoad \/ BackgroundStore \/ UNCHANGED vars
    BY <2>t, <2>3
       DEF PublishIndex, Expire, BackgroundLoad, BackgroundStore, vars, request, Unserved
  <2> QED
    BY <2>1, <2>2, <2>3 DEF Next
<1> QED
  BY <1>1, <1>2, PTL DEF Spec

(***************************************************************************)
(* For any two names: with two attempts or more, a tag that nothing        *)
(* disturbs is never given up if the names agree, whatever the requests    *)
(* and the token that earlier ones left; if they differ, as in the chart   *)
(* this repository ships, no tag is ever asked for.                        *)
(***************************************************************************)
THEOREM TagsServedByName ==
  ASSUME MaxRetries >= 2
  PROVE  Spec => []TagsFollowName
<1>1. CASE Key = Display
  <2>1. LoneTagServed => TagsFollowName
    BY <1>1 DEF TagsFollowName
  <2>2. Spec => []LoneTagServed
    BY <1>1, UnderItsName
  <2> QED
    BY <2>1, <2>2, PTL
<1>2. CASE Key # Display
  <2>1. Unserved => TagsFollowName
    BY <1>2 DEF TagsFollowName, Unserved
  <2>2. Spec => []Unserved
    BY <1>2, UnderAnotherName
  <2> QED
    BY <2>1, <2>2, PTL
<1> QED
  BY <1>1, <1>2
=============================================================================
