------------------------------- MODULE RssStore -------------------------------
(***************************************************************************)
(* What rss_b does with the articles of a source it has fetched            *)
(* (rss_b/src/main.cpp: the body of main's loop, get_latest_links,         *)
(* RssItem::insert_2_db, RssMongo::insert_2_mongo).  An article is         *)
(* identified by its link.  It is kept in two stores: a row of rss_item in *)
(* MySQL, with an id from the sequence of inserts and a unique key on the  *)
(* link over all sources, and a document with that id in MongoDB.          *)
(*                                                                         *)
(* The databases are external.  Every statement commits by itself and may  *)
(* fail.  A mysqlx::Error between the braces of the try is caught and the  *)
(* article is passed over; every other exception (MySQL anywhere else,     *)
(* MongoDB) ends the process, and somebody starts it again.                *)
(***************************************************************************)
EXTENDS Naturals, Sequences, FiniteSets, SequencesExt

CONSTANTS Sources,      \* ids of rss_source
          Links,        \* the links feeds may hold
          MaxEntries,   \* bound: articles in one feed
          MaxFetches    \* bound: feeds fetched

VARIABLES
  rss_item,   \* the table: [link, source], the place in it is the order of id
  rssitem,    \* the collection: [itemid, link] in the order of insertion
  pc,         \* in main(): "fetch", "latest", "insert", "max_id", "mongo",
              \* "update"; or "down"
  source,     \* the source being processed
  vre,        \* its entries, in the order of the feed
  latest,     \* the links of its last rows
  j,          \* the entry the loop is at, from the last to the first
  itemid,     \* the id insert_2_db read back
  hasNew,
  failed,     \* history: articles of this feed MySQL refused, not as duplicates
  fetches     \* feeds fetched so far

stores == <<rss_item, rssitem>>
locals == <<source, vre, latest, itemid, hasNew, failed, fetches>>
vars   == <<stores, pc, j, locals>>

Init ==
  /\ rss_item = <<>> /\ rssitem = <<>>
  /\ pc = "fetch" /\ j = 0
  /\ source \in Sources /\ vre = <<>> /\ latest = {}
  /\ itemid = 0 /\ hasNew = FALSE /\ failed = {} /\ fetches = 0

Stored == {rss_item[i].link : i \in DOMAIN rss_item}

(* The loop goes on with the entry before.                                 *)
NextEntry ==
  /\ j' = j - 1
  /\ pc' = IF j = 1 THEN "update" ELSE "insert"

-----------------------------------------------------------------------------
(* What convert() may give: the entries of a feed, in its order; none when *)
(* the text could not be parsed.                                           *)
Feeds == BoundedSeq(Links, MaxEntries)

(* getRSS() succeeded and convert() gave these entries.                    *)
Fetch(s, feed) ==
  /\ pc = "fetch" /\ fetches < MaxFetches
  /\ fetches' = fetches + 1
  /\ source' = s /\ vre' = feed
  /\ hasNew' = FALSE /\ failed' = {}
  /\ pc' = "latest"
  /\ UNCHANGED <<stores, j, latest, itemid>>

(* get_latest_links(): the last rows of this source, as many as the feed   *)
(* has entries; then j = vre.size() - 1.                                   *)
GetLatestLinks ==
  /\ pc = "latest"
  /\ LET own  == {i \in DOMAIN rss_item : rss_item[i].source = source}
         last == {i \in own : Cardinality({k \in own : k > i}) < Len(vre)}
     IN  latest' = {rss_item[i].link : i \in last}
  /\ j' = Len(vre)
  /\ pc' = IF vre = <<>> THEN "update" ELSE "insert"
  /\ UNCHANGED <<stores, source, vre, itemid, hasNew, failed, fetches>>

(* Mutant: the loop stops at the first link it knows.                      *)
StopAtKnown ==
  /\ pc = "insert" /\ vre[j] \in latest
  /\ pc' = "update"
  /\ UNCHANGED <<stores, j, locals>>

(* An article whose link is among the latest is passed over.               *)
SkipKnown ==
  /\ pc = "insert" /\ vre[j] \in latest
  /\ NextEntry
  /\ UNCHANGED <<stores, locals>>

(* insert_2_db(): the row is inserted ...                                  *)
InsertRow ==
  /\ pc = "insert" /\ vre[j] \notin latest
  /\ vre[j] \notin Stored
  /\ rss_item' = Append(rss_item, [link |-> vre[j], source |-> source])
  /\ pc' = "max_id"
  /\ UNCHANGED <<rssitem, j, locals>>

(* ... or refused by the unique key, which the catch passes over ...       *)
RefuseDuplicate ==
  /\ pc = "insert" /\ vre[j] \notin latest
  /\ vre[j] \in Stored
  /\ NextEntry
  /\ UNCHANGED <<stores, locals>>

(* ... or for another reason (no connection, a quote in the title) ...     *)
RefuseRow ==
  /\ pc = "insert" /\ vre[j] \notin latest
  /\ failed' = failed \union {vre[j]}
  /\ NextEntry
  /\ UNCHANGED <<stores, source, vre, latest, itemid, hasNew, fetches>>

(* ... then its id is read back, by its link ...                           *)
SelectMaxId ==
  /\ pc = "max_id"
  /\ itemid' = CHOOSE i \in DOMAIN rss_item :
                 /\ rss_item[i].link = vre[j]
                 /\ \A k \in DOMAIN rss_item : rss_item[k].link = vre[j] => k <= i
  /\ pc' = "mongo"
  /\ UNCHANGED <<stores, j, source, vre, latest, hasNew, failed, fetches>>

(* Mutant: the error is caught inside insert_2_db, which returns the id it *)
(* has.                                                                    *)
MaxIdFailsInside ==
  /\ pc = "max_id"
  /\ pc' = "mongo"
  /\ UNCHANGED <<stores, j, locals>>

(* ... or that fails, and the catch passes over an article that has a row. *)
MaxIdFails ==
  /\ pc = "max_id"
  /\ NextEntry
  /\ UNCHANGED <<stores, locals>>

(* insert_2_mongo().                                                       *)
InsertDocument ==
  /\ pc = "mongo"
  /\ rssitem' = Append(rssitem, [itemid |-> itemid, link |-> vre[j]])
  /\ hasNew' = TRUE
  /\ NextEntry
  /\ UNCHANGED <<rss_item, source, vre, latest, itemid, failed, fetches>>

(* update_2_db(true, hasNew), the step RssSchedule is about.               *)
UpdateSource ==
  /\ pc = "update"
  /\ pc' = "fetch"
  /\ UNCHANGED <<stores, j, locals>>

(* The process ends: an uncaught exception, or it is killed.               *)
Terminate ==
  /\ pc # "down"
  /\ pc' = "down"
  /\ UNCHANGED <<stores, j, locals>>

(* A new process has none of the locals.                                   *)
Restart ==
  /\ pc = "down"
  /\ pc' = "fetch"
  /\ vre' = <<>> /\ latest' = {} /\ j' = 0 /\ itemid' = 0
  /\ hasNew' = FALSE /\ failed' = {}
  /\ UNCHANGED <<stores, source, fetches>>

Next ==
  \/ \E s \in Sources, feed \in Feeds : Fetch(s, feed)
  \/ GetLatestLinks \/ SkipKnown
  \/ InsertRow \/ RefuseDuplicate \/ RefuseRow
  \/ SelectMaxId \/ MaxIdFails
  \/ InsertDocument
  \/ UpdateSource \/ Terminate \/ Restart

Spec == Init /\ [][Next]_vars

-----------------------------------------------------------------------------
TypeOK ==
  /\ rss_item \in Seq([link : Links, source : Sources])
  /\ rssitem \in Seq([itemid : Nat, link : Links])
  /\ pc \in {"fetch", "latest", "insert", "max_id", "mongo", "update", "down"}
  /\ source \in Sources /\ vre \in Seq(Links) /\ latest \subseteq Links
  /\ j \in 0..MaxEntries /\ (pc \in {"insert", "max_id", "mongo"} => j \in DOMAIN vre)
  /\ itemid \in Nat /\ hasNew \in BOOLEAN /\ failed \subseteq Links
  /\ fetches \in 0..MaxFetches

(* Every document carries the id of the row with its link, and no row has  *)
(* two documents, across failures, restarts and links that two feeds share.*)
DocumentsMatchRows ==
  /\ \A d \in ToSet(rssitem) :
       d.itemid \in DOMAIN rss_item /\ rss_item[d.itemid].link = d.link
  /\ \A a, b \in DOMAIN rssitem : rssitem[a].itemid = rssitem[b].itemid => a = b

(* When a feed has been processed, each of its articles that MySQL did not *)
(* refuse is in the table: comparing with the latest links never drops an  *)
(* article, in whatever order a feed mixes old ones and new ones.          *)
NoArticleMissed ==
  pc = "update" => ToSet(vre) \subseteq Stored \union failed

(* "begin transaction, insert mysql, insert mongodb, commit": whenever the *)
(* process is not between the two inserts, every row has its document.     *)
EveryItemHasDocument ==
  pc \notin {"max_id", "mongo"} =>
    \A i \in DOMAIN rss_item : \E d \in ToSet(rssitem) : d.itemid = i
=============================================================================
