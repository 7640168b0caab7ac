------------------------------ MODULE Offering ------------------------------
(***************************************************************************)
(* What a stylist offers (stylist/stylist.service.ts) and the catalogue    *)
(* that admins keep (admin/admin.service.ts): categories with services,    *)
(* services of the stylist's own, a StylistService row per service offered *)
(* with up to MaxPictures pictures, and the store that holds them.  Every  *)
(* change takes several round trips: rows are looked up, pictures stored   *)
(* or deleted, rows written.  Prices, durations and texts are left out.    *)
(***************************************************************************)
EXTENDS Integers, Sequences, FiniteSets, Functions

CONSTANTS
    Treatments,  \* services of a hairdresser that there may be
    Custom,      \* those of them that the stylist makes for himself
    Keys,        \* keys of stored pictures
    Tasks,       \* calls that may be under way at once
    MaxPictures  \* MAX_SERVICE_PORTFOLIO

ASSUME OfferingAssumption ==
    Custom \subseteq Treatments /\ MaxPictures \in Nat

VARIABLES
    category,    \* the category exists
    service,     \* the Service rows
    offered,     \* services with a StylistService row
    pictures,    \* portfolioImages of the rows
    store,       \* keys of the pictures in the store
    refused,     \* keys that the store was asked to delete and did not
    used,        \* keys ever given out
    task,        \* what each call is at
    undisputed   \* no two calls about one thing have overlapped, none broke off, and no list
                 \* that was sent names a picture twice

offeringVars == <<category, service, offered, pictures, store, refused, used, task, undisputed>>

Job(step, about) ==
    [step |-> step, about |-> about, read |-> <<>>, key |-> "none", lose |-> {}, drop |-> {}, erase |-> {}, old |-> FALSE]
NoTask == Job("idle", {})
TaskSteps == {"idle", "insert", "deleteCategory", "deleteService", "offer", "append", "appendSave",
              "replace", "replaceSave", "arrange", "dropKeys", "dropRows", "dropService", "keep", "attach"}

OfferingTypeOK ==
    /\ category \in BOOLEAN /\ service \subseteq Treatments /\ offered \subseteq Treatments
    /\ \A s \in Treatments : Len(pictures[s]) <= MaxPictures /\ Range(pictures[s]) \subseteq Keys
    /\ store \subseteq Keys /\ refused \subseteq Keys /\ used \subseteq Keys
    /\ \A t \in Tasks : task[t].step \in TaskSteps /\ task[t].about \subseteq Treatments
    /\ undisputed \in BOOLEAN

OfferingInit ==
    /\ category \in BOOLEAN /\ service = {} /\ offered = {}
    /\ pictures = [s \in Treatments |-> <<>>] /\ store = {} /\ refused = {} /\ used = {}
    /\ task = [t \in Tasks |-> NoTask] /\ undisputed = TRUE

-----------------------------------------------------------------------------
(* Calls.  What is about a service is also about its category. *)

Start(t, change) == task[t] = NoTask /\ task' = [task EXCEPT ![t] = change]
Ended(t) == [task EXCEPT ![t] = NoTask]
Disputed(about) == \E t \in Tasks : task[t].step # "idle" /\ (task[t].about = {} \/ about = {} \/ task[t].about \cap about # {})
Claims(about) == undisputed' = (undisputed /\ ~Disputed(about))

\* rows that were rewritten as a whole, or deleted, make the copies that others read old
Outdated(t, rows, next) == [u \in Tasks |-> IF u = t THEN next
    ELSE IF task[u].about \cap rows # {} THEN [task[u] EXCEPT !.old = TRUE] ELSE task[u]]

-----------------------------------------------------------------------------
(* The catalogue *)

CreateCategory ==
    /\ ~category /\ category' = TRUE
    /\ UNCHANGED <<service, offered, pictures, store, refused, used, task, undisputed>>

\* deleteCategory: no service may be in it
FindEmpty(t) ==
    /\ category /\ service = {} /\ Start(t, Job("deleteCategory", {})) /\ Claims({})
    /\ UNCHANGED <<category, service, offered, pictures, store, refused, used>>

DeleteCategory(t) ==
    /\ task[t].step = "deleteCategory" /\ task' = Ended(t) /\ category' = FALSE
    /\ UNCHANGED <<service, offered, pictures, store, refused, used, undisputed>>

\* createService of the admin, createCustomService of the stylist: the category is looked up
FindCategory(t, s) ==
    /\ category /\ s \notin service /\ Start(t, Job("insert", {s})) /\ Claims({s})
    /\ UNCHANGED <<category, service, offered, pictures, store, refused, used>>

InsertService(t) ==
    /\ task[t].step = "insert"
    /\ service' = service \cup task[t].about
    /\ task' = IF task[t].about \subseteq Custom THEN [task EXCEPT ![t].step = "attach"] ELSE Ended(t)
    /\ UNCHANGED <<category, offered, pictures, store, refused, used, undisputed>>

\* the row for a service of his own
AttachService(t) ==
    /\ task[t].step = "attach" /\ task' = Ended(t)
    /\ offered' = offered \cup task[t].about
    /\ UNCHANGED <<category, service, pictures, store, refused, used, undisputed>>

\* Mutant of FindUnoffered: forgets to ask who offers it.
FindPublic(t, s) ==
    /\ s \in service \ Custom /\ Start(t, Job("deleteService", {s})) /\ Claims({s})
    /\ UNCHANGED <<category, service, offered, pictures, store, refused, used>>

\* deleteService of the admin: nobody may offer it
FindUnoffered(t, s) ==
    /\ s \in service \ Custom /\ s \notin offered
    /\ Start(t, Job("deleteService", {s})) /\ Claims({s})
    /\ UNCHANGED <<category, service, offered, pictures, store, refused, used>>

DeleteService(t) ==
    /\ task[t].step = "deleteService" /\ task' = Ended(t)
    /\ service' = service \ task[t].about
    /\ UNCHANGED <<category, offered, pictures, store, refused, used, undisputed>>

-----------------------------------------------------------------------------
(* The offer *)

\* addStylistService: the service is looked up, the row upserted
FindService(t, s) ==
    /\ s \in service /\ Start(t, Job("offer", {s})) /\ Claims({s})
    /\ UNCHANGED <<category, service, offered, pictures, store, refused, used>>

OfferService(t) ==
    /\ task[t].step = "offer" /\ task' = Ended(t)
    /\ offered' = offered \cup task[t].about
    /\ UNCHANGED <<category, service, pictures, store, refused, used, undisputed>>

KeysOf(services) == UNION {Range(pictures[s]) : s \in services}
Removal(about, drop, lose, erase) ==
    [Job("dropKeys", about) EXCEPT !.drop = drop, !.lose = lose, !.erase = erase]

\* removeStylistService, deleteCustomService: the pictures go first; a service of the stylist's
\* own is erased with its row, and may have none
FindOffered(t, s, erased) ==
    /\ erased \subseteq service \cap Custom /\ s \in offered \cup erased
    /\ Start(t, Removal({s}, {s}, KeysOf({s}), erased)) /\ Claims({s})
    /\ UNCHANGED <<category, service, offered, pictures, store, refused, used>>

\* setServices, replaceStylistServices: what is kept is upserted, the stylist's own is always
\* kept, and every other row is to go, also one made after the pictures were looked up
SetServices(t, kept) ==
    /\ kept \subseteq service
    /\ offered' = offered \cup kept
    /\ LET others == Treatments \ (kept \cup (service \cap Custom)) IN
          Start(t, Removal(Treatments, others, KeysOf(others \cap offered), {}))
    /\ Claims(Treatments)
    /\ UNCHANGED <<category, service, pictures, store, refused, used>>

\* a picture that the store does not delete stays, and the call goes on
Discard(keys) == \E failed \in SUBSET keys :
    store' = store \ (keys \ failed) /\ refused' = refused \cup failed

DropKeys(t) ==
    /\ task[t].step = "dropKeys"
    /\ Discard(task[t].lose)
    /\ task' = [task EXCEPT ![t].step = "dropRows"]
    /\ UNCHANGED <<category, service, offered, pictures, used, undisputed>>

DropRows(t) ==
    /\ task[t].step = "dropRows"
    /\ offered' = offered \ task[t].drop
    /\ pictures' = [s \in Treatments |-> IF s \in task[t].drop THEN <<>> ELSE pictures[s]]
    /\ task' = Outdated(t, task[t].drop,
                        IF task[t].erase = {} THEN NoTask ELSE Job("dropService", task[t].erase))
    /\ UNCHANGED <<category, service, store, refused, used, undisputed>>

DropService(t) ==
    /\ task[t].step = "dropService" /\ task' = Ended(t)
    /\ service' = service \ task[t].about
    /\ UNCHANGED <<category, offered, pictures, store, refused, used, undisputed>>

-----------------------------------------------------------------------------
(* Pictures *)

\* addServicePortfolioImages: the row is made if there is none; what it holds decides on the room
FindRoom(t, s) ==
    /\ s \in service /\ Len(pictures[s]) < MaxPictures
    /\ offered' = offered \cup {s}
    /\ Start(t, [Job("append", {s}) EXCEPT !.read = pictures[s]]) /\ Claims({s})
    /\ UNCHANGED <<category, service, pictures, store, refused, used>>

\* replaceServicePortfolioImage
FindPicture(t, s) ==
    /\ s \in service \cap offered /\ pictures[s] # <<>>
    /\ Start(t, [Job("replace", {s}) EXCEPT !.read = pictures[s]]) /\ Claims({s})
    /\ UNCHANGED <<category, service, offered, pictures, store, refused, used>>

StorePictureOf(t, key) ==
    /\ task[t].step \in {"append", "replace"} /\ key \in Keys \ used
    /\ store' = store \cup {key} /\ used' = used \cup {key}
    /\ task' = [task EXCEPT ![t].key = key, ![t].step = IF task[t].step = "append" THEN "appendSave" ELSE "replaceSave"]
    /\ UNCHANGED <<category, service, offered, pictures, refused, undisputed>>

\* the whole list is written; refused when the copy is old or the row has gone
SaveAppended(t) ==
    /\ task[t].step = "appendSave"
    /\ \E s \in task[t].about :
          IF task[t].old \/ s \notin offered THEN pictures' = pictures /\ task' = Ended(t)
          ELSE /\ pictures' = [pictures EXCEPT ![s] = Append(task[t].read, task[t].key)]
               /\ task' = Outdated(t, {s}, NoTask)
    /\ UNCHANGED <<category, service, offered, store, refused, used, undisputed>>

\* one place of the list is written, which makes no copy old; the picture it held is dropped after
SaveReplaced(t) ==
    /\ task[t].step = "replaceSave"
    /\ \E s \in task[t].about, i \in 1..Len(task[t].read) :
          IF task[t].old \/ s \notin offered THEN pictures' = pictures /\ task' = Ended(t)
          ELSE /\ pictures' = [pictures EXCEPT ![s][i] = task[t].key]
               /\ task' = [task EXCEPT ![t].step = "keep", ![t].lose = {task[t].read[i]}]
    /\ UNCHANGED <<category, service, offered, store, refused, used, undisputed>>

\* replaceServicePortfolio: a list of what is there, as the stylist sends it, and nothing
\* keeps him from naming a picture twice (the list as it was is not written again)
Arrangements == UNION {[1..n -> Keys] : n \in 0..MaxPictures}

FindPortfolio(t, s, list) ==
    /\ s \in service \cap offered
    /\ Range(list) \subseteq Range(pictures[s]) /\ list # pictures[s]
    /\ Start(t, [Job("arrange", {s}) EXCEPT !.read = list, !.lose = Range(pictures[s]) \ Range(list)])
    /\ undisputed' = (undisputed /\ ~Disputed({s}) /\ IsInjective(list))
    /\ UNCHANGED <<category, service, offered, pictures, store, refused, used>>

\* what is no longer in it is dropped after
SaveArranged(t) ==
    /\ task[t].step = "arrange"
    /\ \E s \in task[t].about :
          IF task[t].old \/ s \notin offered THEN pictures' = pictures /\ task' = Ended(t)
          ELSE /\ pictures' = [pictures EXCEPT ![s] = task[t].read]
               /\ task' = Outdated(t, {s}, [Job("keep", {s}) EXCEPT !.lose = task[t].lose])
    /\ UNCHANGED <<category, service, offered, store, refused, used, undisputed>>

DropUnkept(t) ==
    /\ task[t].step = "keep" /\ task' = Ended(t)
    /\ Discard(task[t].lose)
    /\ UNCHANGED <<category, service, offered, pictures, used, undisputed>>

\* the process stops, or a query throws, between two round trips
BreakOffTask(t) ==
    /\ task[t] # NoTask /\ task' = Ended(t) /\ undisputed' = FALSE
    /\ UNCHANGED <<category, service, offered, pictures, store, refused, used>>

CatalogueNext ==
    \/ CreateCategory
    \/ \E t \in Tasks : \/ FindEmpty(t) \/ DeleteCategory(t) \/ InsertService(t) \/ AttachService(t) \/ DeleteService(t)
                        \/ \E s \in Treatments : FindCategory(t, s) \/ FindUnoffered(t, s)

OfferNext ==
    \E t \in Tasks :
       \/ OfferService(t) \/ DropKeys(t) \/ DropRows(t) \/ DropService(t) \/ BreakOffTask(t)
       \/ \E s \in Treatments : FindService(t, s) \/ \E erased \in {{}, {s}} : FindOffered(t, s, erased)
       \/ \E kept \in SUBSET Treatments : SetServices(t, kept)

PictureNext ==
    \E t \in Tasks :
       \/ SaveAppended(t) \/ SaveReplaced(t) \/ SaveArranged(t) \/ DropUnkept(t) \/ \E k \in Keys : StorePictureOf(t, k)
       \/ \E s \in Treatments : FindRoom(t, s) \/ FindPicture(t, s)
                                \/ \E list \in Arrangements : FindPortfolio(t, s, list)

OfferingSpec == OfferingInit /\ [][CatalogueNext \/ OfferNext \/ PictureNext]_offeringVars

-----------------------------------------------------------------------------
\* listCatalogue, listCategoriesWithServices: services are listed under their category
PublicCatalogue == IF category THEN service \ Custom ELSE {}
\* listStylistServices: a row whose service has gone is passed over
OwnList == offered \cap service
\* getStylistProfile: each of them with its category, if there is one, and its pictures
PublicProfile == [s \in OwnList |-> [category |-> category, pictures |-> pictures[s]]]
Resting == \A t \in Tasks : task[t] = NoTask

\* As long as calls about one service take turns, none breaks off and no list names a picture
\* twice, whatever calls about different services overlap: a category is not deleted from under
\* a service nor a service from under an offer, everything offered is shown, every picture shown
\* is in the store, and once the calls have ended the store holds no other but those that it
\* was asked to delete and did not, which nothing asks for again.  (deleteCategory,
\* createService, createCustomService, deleteService, addStylistService, setServices,
\* removeStylistService, deleteCustomService, addServicePortfolioImages,
\* replaceServicePortfolioImage, replaceServicePortfolio)
NothingShownIsMissing ==
    undisputed =>
        /\ PublicCatalogue = service \ Custom
        /\ offered = OwnList
        /\ \A s \in OwnList :
              /\ PublicProfile[s].category
              /\ Range(PublicProfile[s].pictures) \subseteq store \/ \E t \in Tasks : s \in task[t].drop
        /\ Resting => store = KeysOf(OwnList) \cup refused
=============================================================================
