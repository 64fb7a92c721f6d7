----------------------------- MODULE BridgeRecords -----------------------------
(***************************************************************************)
(* The bridge's copies of an issue's history: a document per issue         *)
(* (doc_sync.py) and rows of a history table (sync_entry of base_sync.py). *)
(* One task makes every call to Feishu, one after the other; a call fails, *)
(* or is taken and its response is lost, or the process dies during it,    *)
(* and the same work is found again by its name or its marker.  Meanwhile  *)
(* the bridge goes on writing history.  An entry is its position in the    *)
(* order of created_at; a stale document revision is one more failure.     *)
(***************************************************************************)
EXTENDS Integers, Sequences, Functions, FiniteSets

CONSTANTS
  Issues,
  Batch,        \* entries looked at in one round: 30 in the source
  MaxParts,     \* bound on the parts of an entry's text
  MaxEntries,   \* bound on entries
  MaxFailures,  \* bound on failing calls
  MaxCrashes,   \* bound on crashes
  None          \* no call under way

VARIABLES
  item,      \* the columns of issues that the two mirrors keep
  entry,     \* issue_entries
  links,     \* replies with the document's link, by issue
  sync,      \* the task's work and the call it waits for
  folder,    \* folder_id is known to this process
  folders,   \* external: folders of that name
  docs,      \* external: the documents of an issue's name, as their lines
  history,   \* external: how many rows of the history table have a key
  failures, crashes

vars == <<item, entry, links, sync, folder, folders, docs, history, failures, crashes>>

ASSUME BridgeRecordsAssumption ==
  /\ {Batch, MaxParts} \subseteq Nat \ {0}
  /\ {MaxEntries, MaxFailures, MaxCrashes} \subseteq Nat

Item == [reported : BOOLEAN,
         token    : BOOLEAN,    \* doc_token
         ready    : BOOLEAN,    \* doc_initialized
         notified : BOOLEAN,    \* doc_notified
         due      : BOOLEAN,    \* doc_retry_at has come
         record   : BOOLEAN,    \* record_id
         changed  : BOOLEAN,    \* revision # synced_revision
         linked   : BOOLEAN]    \* the sheet's row links the document

Entry == [issue : Issues, parts : 1..MaxParts,
          synced   : BOOLEAN,   \* doc_synced_at
          recorded : BOOLEAN,   \* record_id
          due      : BOOLEAN]   \* retry_at has come

Header == 0     \* a line of a document is its header or an entry
Line == 0..MaxEntries
Key  == (1..MaxEntries) \X (1..MaxParts)

DocCalls    == {"folder", "make folder", "list", "create", "fetch", "header", "append"}
RecordCalls == {"find", "write"}

Init ==
  /\ item = [i \in Issues |->
               [reported |-> FALSE, token |-> FALSE, ready |-> FALSE, notified |-> FALSE,
                due |-> TRUE, record |-> FALSE, changed |-> FALSE, linked |-> FALSE]]
  /\ entry = << >>
  /\ links = [i \in Issues |-> 0]
  /\ sync = None
  /\ folder = FALSE /\ folders = 0
  /\ docs = [i \in Issues |-> << >>]
  /\ history = [k \in Key |-> 0]
  /\ failures = 0 /\ crashes = 0

cloud == <<folders, docs, history>>
bound == <<failures, crashes>>

-----------------------------------------------------------------------------
(* What the rest of the bridge does. *)

\* Every message, answer and change of status is an entry of its issue, and
\* touches it.
AddEntry(i, parts) ==
  /\ Len(entry) < MaxEntries
  /\ entry' = Append(entry, [issue |-> i, parts |-> parts, synced |-> FALSE,
                             recorded |-> FALSE, due |-> TRUE])
  /\ item' = [item EXCEPT ![i].reported = TRUE, ![i].changed = TRUE]
  /\ UNCHANGED <<links, sync, folder, cloud, bound>>

\* sync_issue, whose calls are Bridge's: a changed issue gets its row, with the
\* link the issue has by then.
MirrorIssue(i) ==
  /\ sync = None
  /\ item[i].reported /\ item[i].changed
  /\ item' = [item EXCEPT ![i].record = TRUE, ![i].changed = FALSE,
                          ![i].linked = item[i].token]
  /\ UNCHANGED <<entry, links, sync, folder, cloud, bound>>

-----------------------------------------------------------------------------
(* The calls, and what each does to Feishu when it is taken. *)

Of(i) == {e \in DOMAIN entry : entry[e].issue = i}
Lines(i) == docs[i][1]
Has(i, line) == line \in Range(Lines(i))

Work(at, i, pending, key) == [at |-> at, issue |-> i, pending |-> pending, key |-> key]

\* The entries of S by created_at: there is one such sequence.
Ordered(S) ==
  {s \in [1..Cardinality(S) -> S] :
     Range(s) = S /\ \A m, n \in DOMAIN s : m < n => s[m] < s[n]}

WriteLines(i, lines) ==
  docs' = [docs EXCEPT ![i][1] = @ \o lines] /\ UNCHANGED <<folders, history>>

Taken ==
  \/ sync.at = "make folder" /\ folders' = folders + 1 /\ UNCHANGED <<docs, history>>
  \/ /\ sync.at = "create"
     /\ docs' = [docs EXCEPT ![sync.issue] = Append(@, << >>)]
     /\ UNCHANGED <<folders, history>>
  \/ sync.at = "header" /\ WriteLines(sync.issue, <<Header>>)
  \/ sync.at = "append" /\ \E lines \in Ordered(sync.pending) : WriteLines(sync.issue, lines)
  \/ /\ sync.at = "write"
     /\ history' = [history EXCEPT ![sync.key] = @ + 1]
     /\ UNCHANGED <<folders, docs>>
  \/ sync.at \in {"folder", "list", "fetch", "find"} /\ UNCHANGED cloud

\* The call is answered, and the task goes on to the next one.
Call(at) == sync # None /\ sync.at = at /\ Taken
Then(work) == sync' = work /\ UNCHANGED bound

-----------------------------------------------------------------------------
(* docs.once: the document of one issue. *)

\* What sync_document finds unsynced when it starts.
Pending(i) == {e \in Of(i) : ~entry[e].synced}

Missing(i, S) == {e \in S : ~Has(i, e)}

StartDocument(i) ==
  /\ sync = None
  /\ item[i].reported /\ item[i].due
  /\ ~(item[i].ready /\ Pending(i) = {})
  /\ sync' = IF item[i].token THEN Work("fetch", i, Pending(i), None)
             ELSE Work(IF folder THEN "list" ELSE "folder", i, {}, None)
  /\ UNCHANGED <<item, entry, links, folder, cloud, bound>>

FindFolder ==
  /\ Call("folder")
  /\ folders <= 1
  /\ folder' = (folders = 1)
  /\ Then([sync EXCEPT !.at = IF folders = 1 THEN "list" ELSE "make folder"])
  /\ UNCHANGED <<item, entry, links>>

MakeFolder ==
  /\ Call("make folder")
  /\ folder' = TRUE
  /\ Then([sync EXCEPT !.at = "list"])
  /\ UNCHANGED <<item, entry, links>>

\* Slip: the document is noted without touching the issue.
AdoptedQuietly(i) == item' = [item EXCEPT ![i].token = TRUE, ![i].due = TRUE]

\* The document's token is stored as a change of the issue.
Adopted(i) ==
  item' = [item EXCEPT ![i].token = TRUE, ![i].due = TRUE, ![i].changed = TRUE]

FindDocument ==
  LET i == sync.issue IN
  /\ Call("list")
  /\ \/ /\ Len(docs[i]) = 1
        /\ Adopted(i)
        /\ Then(Work("fetch", i, Pending(i), None))
     \/ /\ docs[i] = << >>
        /\ Then([sync EXCEPT !.at = "create"])
        /\ UNCHANGED item
  /\ UNCHANGED <<entry, links, folder>>

CreateDocument ==
  LET i == sync.issue IN
  /\ Call("create")
  /\ Adopted(i)
  /\ Then(Work("fetch", i, Pending(i), None))
  /\ UNCHANGED <<entry, links, folder>>

\* The transaction after the document was read: the header is there, and so
\* are the pending entries whose marker was read.
SeenInDocument(i, S) ==
  /\ item' = [item EXCEPT ![i].ready = TRUE, ![i].due = TRUE]
  /\ entry' = [e \in DOMAIN entry |->
                 IF e \in S THEN [entry[e] EXCEPT !.synced = TRUE] ELSE entry[e]]

\* With nothing missing the task goes on to notify_ready.
Continue(i, missing) ==
  Then(Work(IF missing = {} THEN "notify" ELSE "append", i, missing, None))

FetchDocument ==
  LET i == sync.issue
      missing == Missing(i, sync.pending)
  IN
  /\ Call("fetch")
  /\ \/ /\ Has(i, Header)
        /\ SeenInDocument(i, sync.pending \ missing)
        /\ Continue(i, missing)
     \/ /\ ~Has(i, Header)
        /\ Then(Work("header", i, missing, None))
        /\ UNCHANGED <<item, entry>>
  /\ UNCHANGED <<links, folder>>

WriteHeader ==
  /\ Call("header")
  /\ SeenInDocument(sync.issue, {})
  /\ Continue(sync.issue, sync.pending)
  /\ UNCHANGED <<links, folder>>

\* Slip: everything the issue has by now counts as written.
AppendAndMarkAll ==
  LET i == sync.issue IN
  /\ Call("append")
  /\ entry' = [e \in DOMAIN entry |->
                 IF e \in Of(i) THEN [entry[e] EXCEPT !.synced = TRUE] ELSE entry[e]]
  /\ Then(Work("notify", i, {}, None))
  /\ UNCHANGED <<item, links, folder>>

AppendEntries ==
  LET i == sync.issue IN
  /\ Call("append")
  /\ entry' = [e \in DOMAIN entry |->
                 IF e \in sync.pending THEN [entry[e] EXCEPT !.synced = TRUE] ELSE entry[e]]
  /\ Then(Work("notify", i, {}, None))
  /\ UNCHANGED <<item, links, folder>>

\* notify_ready, its reply and its flag in one transaction.
NotifyReady ==
  LET i == sync.issue IN
  /\ sync # None
  /\ sync.at = "notify"
  /\ links' = IF item[i].notified THEN links ELSE [links EXCEPT ![i] = @ + 1]
  /\ item' = [item EXCEPT ![i].notified = TRUE]
  /\ Then(None)
  /\ UNCHANGED <<entry, folder, cloud>>

\* A document up to date whose link was never sent, the process having died.
NotifyLate(i) ==
  /\ sync = None
  /\ item[i].due /\ item[i].ready /\ Pending(i) = {} /\ ~item[i].notified
  /\ links' = [links EXCEPT ![i] = @ + 1]
  /\ item' = [item EXCEPT ![i].notified = TRUE]
  /\ UNCHANGED <<entry, sync, folder, cloud, bound>>

-----------------------------------------------------------------------------
(* sync.once: the history table. *)

Waiting == {e \in DOMAIN entry : ~entry[e].recorded /\ entry[e].due}

\* The oldest ones, as many as one round looks at.
Round == {e \in Waiting : Cardinality({f \in Waiting : f < e}) < Batch}

\* An entry whose issue has no row yet is passed over; it stays in the round.
StartRecord(e) ==
  /\ sync = None
  /\ e \in Round
  /\ item[entry[e].issue].record
  /\ sync' = Work("find", entry[e].issue, {}, <<e, 1>>)
  /\ UNCHANGED <<item, entry, links, folder, cloud, bound>>

\* Slip: the parts are counted one too far.
NextPartOneTooFar ==
  LET e == sync.key[1]
      n == sync.key[2]
  IN IF n <= entry[e].parts
     THEN /\ Then([sync EXCEPT !.at = "find", !.key = <<e, n + 1>>])
          /\ UNCHANGED entry
     ELSE /\ entry' = [entry EXCEPT ![e].recorded = TRUE]
          /\ Then(None)

\* The next part, or the end of the entry.
NextPart ==
  LET e == sync.key[1]
      n == sync.key[2]
  IN IF n < entry[e].parts
     THEN /\ Then([sync EXCEPT !.at = "find", !.key = <<e, n + 1>>])
          /\ UNCHANGED entry
     ELSE /\ entry' = [entry EXCEPT ![e].recorded = TRUE]
          /\ Then(None)

FindRow ==
  /\ Call("find")
  /\ \/ history[sync.key] = 1 /\ NextPart
     \/ /\ history[sync.key] = 0
        /\ Then([sync EXCEPT !.at = "write"])
        /\ UNCHANGED entry
  /\ UNCHANGED <<item, links, folder>>

WriteRow ==
  /\ Call("write")
  /\ NextPart
  /\ UNCHANGED <<item, links, folder>>

-----------------------------------------------------------------------------
(* Failures. *)

\* The work is put off: the issue's document, or the entry's rows.
PutOff ==
  IF sync.at \in RecordCalls
  THEN entry' = [entry EXCEPT ![sync.key[1]].due = FALSE] /\ UNCHANGED item
  ELSE item' = [item EXCEPT ![sync.issue].due = FALSE] /\ UNCHANGED entry

CallFails(taken) ==
  /\ failures < MaxFailures
  /\ sync # None /\ sync.at # "notify"
  /\ IF taken THEN Taken ELSE UNCHANGED cloud
  /\ PutOff
  /\ sync' = None
  /\ failures' = failures + 1
  /\ UNCHANGED <<links, folder, crashes>>

DocumentDue(i) ==
  /\ ~item[i].due
  /\ item' = [item EXCEPT ![i].due = TRUE]
  /\ UNCHANGED <<entry, links, sync, folder, cloud, bound>>

RecordDue(e) ==
  /\ ~entry[e].due
  /\ entry' = [entry EXCEPT ![e].due = TRUE]
  /\ UNCHANGED <<item, links, sync, folder, cloud, bound>>

\* The process dies, during a call perhaps, and a new one starts.
Crash ==
  /\ crashes < MaxCrashes
  /\ crashes' = crashes + 1
  /\ \/ sync # None /\ sync.at # "notify" /\ Taken
     \/ UNCHANGED cloud
  /\ sync' = None /\ folder' = FALSE
  /\ UNCHANGED <<item, entry, links, failures>>

-----------------------------------------------------------------------------
Document ==
  \/ FindFolder \/ MakeFolder \/ FindDocument \/ CreateDocument
  \/ FetchDocument \/ WriteHeader \/ AppendEntries \/ NotifyReady

Record == FindRow \/ WriteRow

Next ==
  \/ \E i \in Issues, n \in 1..MaxParts : AddEntry(i, n)
  \/ \E i \in Issues : MirrorIssue(i) \/ StartDocument(i) \/ NotifyLate(i) \/ DocumentDue(i)
  \/ \E e \in DOMAIN entry : StartRecord(e) \/ RecordDue(e)
  \/ Document \/ Record
  \/ \E taken \in BOOLEAN : CallFails(taken)
  \/ Crash

Spec == Init /\ [][Next]_vars

\* The task's loop comes to every issue and to every entry of its round, its
\* calls end, and the retry times come.
Fairness ==
  /\ \A i \in Issues :
       /\ SF_vars(MirrorIssue(i)) /\ SF_vars(StartDocument(i)) /\ SF_vars(NotifyLate(i))
       /\ WF_vars(DocumentDue(i))
  /\ \A e \in 1..MaxEntries :
       /\ SF_vars(e \in DOMAIN entry /\ StartRecord(e))
       /\ WF_vars(e \in DOMAIN entry /\ RecordDue(e))
  /\ WF_vars(Document) /\ WF_vars(Record)

FairSpec == Spec /\ Fairness

-----------------------------------------------------------------------------
\* The tables, the task and Feishu hold values of their types.
TypeOK ==
  /\ item \in [Issues -> Item]
  /\ entry \in Seq(Entry) /\ Len(entry) <= MaxEntries
  /\ links \in [Issues -> Nat]
  /\ sync \in {None} \cup [at : DocCalls \cup RecordCalls \cup {"notify"}, issue : Issues,
                          pending : SUBSET DOMAIN entry, key : Key \cup {None}]
  /\ folder \in BOOLEAN /\ folders \in Nat
  /\ docs \in [Issues -> Seq(Seq(Line))]
  /\ history \in [Key -> Nat]

\* However calls fail and the process dies, an issue has one document, in the
\* one folder: a second one of the same name would stop its mirroring for good.
OneDocument ==
  /\ folders <= 1 /\ (folder => folders = 1)
  /\ \A i \in Issues :
       /\ Len(docs[i]) <= 1
       /\ item[i].token => Len(docs[i]) = 1

\* A document is its header and below it the entries of its issue, in the
\* order in which they happened and each once, although appends are repeated.
DocumentInOrder ==
  \A i \in Issues : docs[i] # << >> =>
    LET lines == Lines(i) IN
    /\ lines # << >> => Head(lines) = Header
    /\ \A m, n \in DOMAIN lines : m < n => lines[m] < lines[n] /\ lines[n] \in Of(i)

\* Each part of an entry has at most one row.
HistoryOnce == \A k \in Key : history[k] <= 1

\* What the bridge has ticked off is in Feishu, down to the last part: entries
\* that came during a call are not ticked off with the others.
TickedOffIsThere ==
  \A e \in DOMAIN entry :
    /\ entry[e].synced => docs[entry[e].issue] # << >> /\ Has(entry[e].issue, e)
    /\ entry[e].recorded => \A n \in 1..entry[e].parts : history[<<e, n>>] = 1

\* The reporter gets the link once, and it leads to a document that has begun.
LinkSentOnce ==
  \A i \in Issues :
    /\ links[i] <= 1
    /\ links[i] = 1 => docs[i] # << >> /\ Has(i, Header)

\* What the copies promise through failures, lost answers and crashes.
CopiesAreExact ==
  OneDocument /\ DocumentInOrder /\ HistoryOnce /\ TickedOffIsThere /\ LinkSentOnce

\* Everything there is to copy is copied, and the sheet links the document.
Copied(i) ==
  item[i].reported =>
    /\ item[i].token /\ item[i].notified /\ item[i].linked
    /\ \A e \in Of(i) : entry[e].synced /\ entry[e].recorded

HistoryIsCopied == \A i \in Issues : []<>Copied(i)
=============================================================================
