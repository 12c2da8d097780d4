---------------------------- MODULE WebappSubscribe ----------------------------
(***************************************************************************)
(* How the web application finds the meters and subscribes to them:        *)
(* /api/subscribe (webapp/routes/api/postSubscribe.js), subscribeToServer  *)
(* (webapp/app.js), the requests of webapp/onem2m.js, and /api/delete      *)
(* (webapp/routes/api/postDelete.js).                                      *)
(*                                                                         *)
(* Node runs one callback at a time, but every request to the server is    *)
(* answered later, and other calls of the browsers are served meanwhile.   *)
(* AE_NAMES, the list the index page shows, is shared by all of them.      *)
(***************************************************************************)
EXTENDS Integers, FiniteSets

CONSTANTS
  AEs,             \* the meters' application entities
  Policies,        \* what else the server's base holds
  Subscribes,      \* bound: the calls of /api/subscribe of one behaviour
  Deletes,         \* bound: the calls of /api/delete
  ListenerOf,      \* the address each subscribe asks notifications for
  ResourceOf,      \* the application entity each delete names
  NoOne,           \* no subscription
  AtOnce,          \* bound: calls under way at a time
  Errors,          \* bound: requests to the server that end in an error
  Kills            \* bound: how often the web application is killed

Calls     == Subscribes \cup Deletes
Listeners == {ListenerOf[s] : s \in Subscribes}

ASSUME ConstantsAssumption ==
  /\ AEs \cap Policies = {}
  /\ IsFiniteSet(Calls) /\ Subscribes \cap Deletes = {}
  /\ ResourceOf \in [Deletes -> AEs] /\ NoOne \notin Listeners
  /\ AtOnce \in Nat \ {0} /\ Errors \in Nat /\ Kills \in Nat

VARIABLES
  aes,         \* the application entities at the server
  containers,  \* those that have their DATA container
  sub,         \* who is notified of each one's DATA
  registered,  \* the meters that have registered, each once
  AE_NAMES,    \* the web application's list
  call,        \* how far each call is
  chain,       \* how far each subscribe is with each application entity
  latest,      \* the subscribe that was the last to answer "success"
  overlap,     \* have two calls been under way at a time?
  errors, killed   \* how often so far

cse    == <<aes, containers, sub>>
vars   == <<cse, registered, AE_NAMES, call, chain, latest, overlap, errors, killed>>

\* new          not made yet        waiting      the server has not answered
\* answered     the answer is on its way: names is the list a subscribe gets
\* subscribing  a subscribe has started a chain of requests for each name
\* success, deleted   what the browser is told; refused: 400 or 500, though
\*              chains that were started go on
\* lost         the web application was killed meanwhile
Phases == {"new", "waiting", "answered", "subscribing", "success", "deleted", "refused", "lost"}
At(phase, names) == [phase |-> phase, names |-> names]

\* The chain of subscribeToServer, and how it ends.
Steps    == {"createAE", "createDataContainer", "deleteSubscription", "sendSubscription"}
Progress == Steps \cup {"none", "resolved", "rejected"}
\* Mutated: the subscription is deleted last.
After_Swapped == [step \in Steps |->
                    CASE step = "createAE"            -> "createDataContainer"
                      [] step = "createDataContainer" -> "sendSubscription"
                      [] step = "sendSubscription"    -> "deleteSubscription"
                      [] step = "deleteSubscription"  -> "resolved"]
After == [step \in Steps |->
            CASE step = "createAE"            -> "createDataContainer"
              [] step = "createDataContainer" -> "deleteSubscription"
              [] step = "deleteSubscription"  -> "sendSubscription"
              [] step = "sendSubscription"    -> "resolved"]

\* The handler of the subscribe has thrown after it started some chains.
GoesOn(c) == c \in Subscribes /\ call[c].phase = "refused"
             /\ \E ae \in AEs : chain[c][ae] \in Steps

UnderWay == {c \in Calls :
  call[c].phase \in {"waiting", "answered", "subscribing"} \/ GoesOn(c)}

Set(c, state) == call' = [call EXCEPT ![c] = state]
Fails == errors < Errors /\ errors' = errors + 1

-----------------------------------------------------------------------------
Init ==
  /\ aes = {} /\ containers = {} /\ sub = [ae \in AEs |-> NoOne]
  /\ registered = {}
  /\ AE_NAMES = {}
  /\ call = [c \in Calls |-> At("new", {})]
  /\ chain = [s \in Subscribes |-> [ae \in AEs |-> "none"]]
  /\ latest = NoOne /\ overlap = FALSE
  /\ errors = 0 /\ killed = 0

(***************************************************************************)
(* The server.                                                             *)
(***************************************************************************)

\* A name that is taken is refused, and an entity below a missing one.
CreateAe(ae)        == aes' = aes \cup {ae} /\ UNCHANGED <<containers, sub>>
CreateContainer(ae) == containers' = containers \cup ({ae} \cap aes) /\ UNCHANGED <<aes, sub>>
Unsubscribe(ae)     == sub' = [sub EXCEPT ![ae] = NoOne] /\ UNCHANGED <<aes, containers>>
Subscribe(ae, listener) ==
  /\ sub' = [sub EXCEPT ![ae] = IF ae \in containers /\ @ = NoOne THEN listener ELSE @]
  /\ UNCHANGED <<aes, containers>>

\* An application entity goes with everything below it.
Remove(ae) ==
  /\ aes' = aes \ {ae} /\ containers' = containers \ {ae}
  /\ sub' = [sub EXCEPT ![ae] = NoOne]

\* A meter registers, and creates its container some time later.
MeterRegisters(ae) ==
  /\ ae \notin registered /\ registered' = registered \cup {ae}
  /\ CreateAe(ae)
  /\ UNCHANGED <<AE_NAMES, call, chain, latest, errors, killed, overlap>>

MeterCreatesContainer(ae) ==
  /\ ae \in registered \cap aes /\ ae \notin containers
  /\ CreateContainer(ae)
  /\ UNCHANGED <<registered, AE_NAMES, call, chain, latest, errors, killed, overlap>>

(***************************************************************************)
(* The web application.                                                    *)
(***************************************************************************)

\* A browser calls; the handler sends its first request.
Call(c) ==
  /\ call[c].phase = "new" /\ Cardinality(UnderWay) < AtOnce
  /\ Set(c, At("waiting", {}))
  /\ overlap' = (overlap \/ UnderWay # {})
  /\ UNCHANGED <<cse, registered, AE_NAMES, chain, latest, errors, killed>>

\* Of the children of the server's base, the application entities.
\* Mutated: all of them.
Entities_Unfiltered(children) == children
Entities(children) == children \cap AEs

\* The server lists its base, or there is no answer of use.
Listed(s) ==
  /\ call[s].phase = "waiting"
  /\ \/ Set(s, At("answered", Entities(aes \cup Policies))) /\ UNCHANGED errors
     \/ Fails /\ Set(s, At("refused", {}))
  /\ UNCHANGED <<cse, registered, AE_NAMES, chain, latest, killed, overlap>>

\* The answer replaces the list, and a chain is started for every name.  If
\* the certificate that its first request needs cannot be read, the browser is
\* refused, with the chains of the names before under way.
ListCallback(s) ==
  /\ call[s].phase = "answered"
  /\ LET names == call[s].names IN
       /\ AE_NAMES' = names
       /\ \E begun \in SUBSET names :
            /\ chain' = [chain EXCEPT ![s] =
                           [ae \in AEs |-> IF ae \in begun THEN "createAE" ELSE "none"]]
            /\ \/ begun = names /\ Set(s, At("subscribing", names)) /\ UNCHANGED errors
               \/ begun # names /\ Set(s, At("refused", names)) /\ Fails
  /\ UNCHANGED <<cse, registered, latest, killed, overlap>>

\* One request of a chain.
Perform(step, ae, listener) ==
  \/ step = "createAE" /\ CreateAe(ae)
  \/ step = "createDataContainer" /\ CreateContainer(ae)
  \/ step = "deleteSubscription" /\ Unsubscribe(ae)
  \/ step = "sendSubscription" /\ Subscribe(ae, listener)

\* Whatever the status of its answer, the next one follows.  An error, of a
\* request that was performed or not, ends the chain.
Request(s, ae) ==
  /\ call[s].phase \in {"subscribing", "refused"} /\ chain[s][ae] \in Steps
  /\ \/ /\ Perform(chain[s][ae], ae, ListenerOf[s])
        /\ chain' = [chain EXCEPT ![s][ae] = After[@]]
        /\ UNCHANGED errors
     \/ /\ Fails
        /\ Perform(chain[s][ae], ae, ListenerOf[s]) \/ UNCHANGED cse
        /\ chain' = [chain EXCEPT ![s][ae] = "rejected"]
  /\ UNCHANGED <<registered, AE_NAMES, call, latest, killed, overlap>>

\* subscribeToServer's promise is fulfilled: it catches errors.
\* Mutated: it does not.
Fulfilled_Uncaught(progress) == progress \in {"none", "resolved"}
Fulfilled(progress) == progress \in {"none", "resolved", "rejected"}

\* All promises are: the browser is told "success".
AnswerSubscribe(s) ==
  /\ call[s].phase = "subscribing"
  /\ \A ae \in AEs : Fulfilled(chain[s][ae])
  /\ Set(s, At("success", call[s].names))
  /\ latest' = s
  /\ UNCHANGED <<cse, registered, AE_NAMES, chain, errors, killed, overlap>>

\* The server deletes what it knows; the delete is refused otherwise, and on
\* an error, of a request that was performed or not.
Deleted(d) ==
  /\ call[d].phase = "waiting"
  /\ \/ /\ ResourceOf[d] \in aes /\ Remove(ResourceOf[d])
        /\ Set(d, At("answered", {}))
        /\ UNCHANGED errors
     \/ /\ ResourceOf[d] \notin aes /\ UNCHANGED cse
        /\ Set(d, At("refused", {}))
        /\ UNCHANGED errors
     \/ /\ Fails
        /\ Remove(ResourceOf[d]) \/ UNCHANGED cse
        /\ Set(d, At("refused", {}))
  /\ UNCHANGED <<registered, AE_NAMES, chain, latest, killed, overlap>>

\* The list without the name.  Mutated: without any other.
Without_Inverted(names, ae) == names \cap {ae}
Without(names, ae) == names \ {ae}

DeleteCallback(d) ==
  /\ call[d].phase = "answered"
  /\ AE_NAMES' = Without(AE_NAMES, ResourceOf[d])
  /\ Set(d, At("deleted", {}))
  /\ UNCHANGED <<cse, registered, chain, latest, errors, killed, overlap>>

\* The web application is killed and started again: it has forgotten the
\* list.  A request on its way still reaches the server, or does not.
Kill ==
  /\ killed < Kills /\ killed' = killed + 1
  /\ AE_NAMES' = {}
  /\ call' = [c \in Calls |-> IF c \in UnderWay THEN At("lost", {}) ELSE call[c]]
  /\ \/ UNCHANGED cse
     \/ \E d \in Deletes : call[d].phase = "waiting" /\ Remove(ResourceOf[d])
     \/ \E s \in Subscribes, ae \in AEs :
          /\ call[s].phase \in {"subscribing", "refused"}
          /\ Perform(chain[s][ae], ae, ListenerOf[s])
  /\ UNCHANGED <<registered, chain, latest, errors, overlap>>

Subscribing(s) ==
  \/ Listed(s) \/ ListCallback(s) \/ AnswerSubscribe(s)
  \/ \E ae \in AEs : Request(s, ae)
Deleting(d) == Deleted(d) \/ DeleteCallback(d)

Next == \/ \E ae \in AEs : MeterRegisters(ae) \/ MeterCreatesContainer(ae)
        \/ \E c \in Calls : Call(c)
        \/ \E s \in Subscribes : Subscribing(s)
        \/ \E d \in Deletes : Deleting(d)
        \/ Kill

Spec == Init /\ [][Next]_vars

\* Every request is answered or ends in an error, and Node's loop gets round
\* to every callback.
FairSpec == /\ Spec
            /\ \A s \in Subscribes : WF_vars(Subscribing(s))
            /\ \A d \in Deletes : WF_vars(Deleting(d))

-----------------------------------------------------------------------------
(***************************************************************************)
(* Properties.                                                             *)
(***************************************************************************)
TypeOK ==
  /\ aes \subseteq AEs /\ containers \subseteq AEs
  /\ sub \in [AEs -> Listeners \cup {NoOne}]
  /\ registered \subseteq AEs /\ AE_NAMES \subseteq AEs
  /\ call \in [Calls -> [phase : Phases, names : SUBSET AEs]]
  /\ chain \in [Subscribes -> [AEs -> Progress]]
  /\ latest \in Subscribes \cup {NoOne}
  /\ overlap \in BOOLEAN /\ errors \in 0..Errors /\ killed \in 0..Kills

\* "Upon a successful subscription" the user sees the data come in
\* (docs/gettingstarted.md:9): while nothing is under way, whatever the page
\* shows is subscribed to for the last browser that was told "success" - when
\* calls have not overlapped and no request has failed.
SuccessIsSubscribed ==
  (UnderWay = {} /\ latest # NoOne /\ ~ overlap /\ errors = 0) =>
    \A ae \in AE_NAMES : sub[ae] = ListenerOf[latest]

\* When calls have overlapped a browser may have lost its subscription to
\* another, but somebody is told of the data of whatever the page shows.
ListedIsSubscribed ==
  (UnderWay = {} /\ errors = 0) => \A ae \in AE_NAMES : sub[ae] # NoOne

\* A delete that was reported as done removes the meter: it is not on the
\* page, nor at the server again, though its meter registers only once
\* (webapp/test/specs/webapp/subscription.spec.js:128) - when calls have not
\* overlapped.
DeletedIsGone ==
  \A d \in Deletes :
    (call[d].phase = "deleted" /\ ~ overlap) => ResourceOf[d] \notin AE_NAMES \cup aes

\* Every call of a browser is answered, unless the web application is killed.
EveryCallIsAnswered ==
  \A c \in Calls : call[c].phase = "waiting" ~>
                     call[c].phase \in {"success", "deleted", "refused", "lost"}

-----------------------------------------------------------------------------
(***************************************************************************)
(* What the proofs need besides.                                           *)
(***************************************************************************)

\* What is below an application entity is there only with it, and each has
\* registered: lists have no other names, and chains none that is not in their
\* list.  Only an error leaves chains to a subscribe that was refused.
ServerInv ==
  /\ containers \subseteq aes /\ aes \subseteq registered
  /\ \A ae \in AEs : sub[ae] # NoOne => ae \in containers
  /\ \A s \in Subscribes :
       /\ call[s].names \subseteq registered
       /\ \A ae \in AEs : chain[s][ae] # "none" =>
            /\ call[s].phase \notin {"new", "waiting", "answered"}
            /\ ae \in call[s].names \/ call[s].phase = "lost"
            /\ call[s].phase = "refused" => errors # 0

\* Without overlap one call is under way at a time.
Alone == ~ overlap => \A c, e \in UnderWay : c = e

Removed(ae) == \E d \in Deletes : call[d].phase = "answered" /\ ResourceOf[d] = ae

\* What a chain needs is there.
OnItsWay(s, ae) ==
  \/ chain[s][ae] = "createAE"
  \/ chain[s][ae] = "createDataContainer" /\ ae \in aes
  \/ chain[s][ae] \in {"deleteSubscription", "sendSubscription"} /\ ae \in containers

\* What the page lists is subscribed to, or will be, or will not be listed.
ListedInv ==
  errors = 0 =>
    \A ae \in AE_NAMES :
      \/ sub[ae] # NoOne \/ Removed(ae)
      \/ \E s \in Subscribes : call[s].phase = "subscribing" /\ OnItsWay(s, ae)

\* Without overlap, nothing brings back what has been removed.
GoneInv ==
  ~ overlap => \A d \in Deletes :
    call[d].phase \in {"answered", "deleted"} =>
      /\ ResourceOf[d] \in registered /\ ResourceOf[d] \notin aes
      /\ call[d].phase = "deleted" => ResourceOf[d] \notin AE_NAMES
      /\ \A s \in UnderWay \cap Subscribes : ResourceOf[d] \notin call[s].names

\* Without overlap and errors, a chain subscribes as it was asked to.
Subscribed(s, ae) ==
  \/ OnItsWay(s, ae) /\ (chain[s][ae] = "sendSubscription" => sub[ae] = NoOne)
  \/ chain[s][ae] = "resolved" /\ sub[ae] = ListenerOf[s]

SuccessInv ==
  (~ overlap /\ errors = 0) =>
    /\ \A s \in Subscribes : call[s].phase = "subscribing" =>
         AE_NAMES = call[s].names /\ \A ae \in AE_NAMES : Subscribed(s, ae)
    /\ (latest # NoOne /\ \A s \in Subscribes : call[s].phase # "subscribing") =>
         \A ae \in AE_NAMES : sub[ae] = ListenerOf[latest] \/ Removed(ae)

IInv == TypeOK /\ ServerInv /\ Alone /\ ListedInv /\ GoneInv /\ SuccessInv

=============================================================================
