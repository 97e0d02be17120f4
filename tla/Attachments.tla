----------------------------- MODULE Attachments -----------------------------
(***************************************************************************)
(* AttachmentsService over the storage: rows in the database, files in     *)
(* the uploads directory or objects in a bucket, written one after the     *)
(* other with no transaction around the two.                               *)
(*                                                                         *)
(* Every upload of the run has an identity, the id its row would get.  A   *)
(* file of the local storage is named by the ticket, the millisecond and   *)
(* the name of the file; an object of the bucket by a fresh UUID, for      *)
(* which its upload stands.  A direct upload is cut after the check of     *)
(* the ticket and after the storage has answered, a removal after each of  *)
(* its awaits.                                                             *)
(***************************************************************************)
EXTENDS Naturals

CONSTANTS Uploads,    \* attachments that are uploaded or announced in a run
          Ticketed,   \* tickets they may belong to
          LastMs,     \* bound on the clock, in milliseconds
          MaxTrouble  \* bound on resets of the demo, restarts and failed deletions

\* The key of an object is no name of a file.
ASSUME AttachmentsAssumption ==
    /\ LastMs \in Nat /\ MaxTrouble \in Nat
    /\ Uploads \cap (Ticketed \X Nat) = {}

VARIABLES
    kept,      \* tickets the database has
    attached,  \* rows of attachments: the ticket, the provider and the key
    object,    \* what the two storages hold
    sending,   \* uploads that were not yet answered
    removing,  \* removals that were not yet answered
    strategy,  \* StorageService.strategy, cached at the first use
    mode,      \* storageMode of the configuration
    ms,        \* Date.now()
    sentAt,    \* auxiliary: the ticket and the moment that name each local upload
    unlinked,  \* auxiliary: attachments whose own removal got to the storage
    lost,      \* auxiliary: objects whose row or answer something else took away
    trouble

attachmentVars == <<kept, attached, object, sending, removing, strategy, mode, ms,
                    sentAt, unlinked, lost, trouble>>

Providers == {"local", "s3"}
FileKeys == Ticketed \X (0 .. LastMs)
Keys == FileKeys \cup Uploads
Objects == Providers \X Keys
AttachmentRows == [ticket : Ticketed, provider : Providers, key : Keys, announced : BOOLEAN]
NotSent == [at |-> "new"]
Never == << >>
NoRemoval == [at |-> "no"]

ObjectOf(row) == <<row.provider, row.key>>
Bound(t, f, x) == [y \in DOMAIN f \cup {x} |-> IF y = x THEN t ELSE f[y]]
Dropped(f, S) == [y \in DOMAIN f \ S |-> f[y]]

AttachmentsInit ==
    /\ kept = Ticketed
    /\ attached = [u \in {} |-> NotSent]
    /\ object = {}
    /\ sending = [u \in Uploads |-> NotSent]
    /\ removing = [u \in Uploads |-> NoRemoval]
    /\ strategy = "none"
    /\ mode = "local"
    /\ ms = 0
    /\ sentAt = [u \in Uploads |-> Never]
    /\ unlinked = {}
    /\ lost = {}
    /\ trouble = 0

----------------------------------------------------------------------------
\* The first use of the storage chooses its strategy for the life of the
\* process.
GetStrategy == IF strategy = "none" THEN mode ELSE strategy

\* ensureTicketExists, then the checks of name, type and size.
Check(u, t) ==
    /\ sending[u] = NotSent
    /\ t \in kept
    /\ sending' = [sending EXCEPT ![u] = [at |-> "checked", ticket |-> t]]
    /\ UNCHANGED <<kept, attached, object, removing, strategy, mode, ms, sentAt, unlinked,
                   lost, trouble>>

\* createWithUploadUrl: the client is given a key and is to send the file
\* itself, later or never; the row is inserted unless the ticket is gone.
Announce(u) ==
    /\ sending[u].at = "checked"
    /\ strategy' = GetStrategy
    /\ sending' = [sending EXCEPT ![u] = [at |-> IF GetStrategy = "s3" THEN "awaited" ELSE "done"]]
    /\ attached' = IF sending[u].ticket \notin kept THEN attached
                   ELSE Bound([ticket |-> sending[u].ticket, provider |-> GetStrategy,
                               key |-> u, announced |-> TRUE], attached, u)
    /\ UNCHANGED <<kept, object, removing, mode, ms, sentAt, unlinked, lost, trouble>>

\* The client sends the file to the bucket, whatever became of the row.
ClientPuts(u) ==
    /\ sending[u].at = "awaited"
    /\ object' = object \cup {<<"s3", u>>}
    /\ lost' = lost \cup {<<"s3", u>>}
    /\ sending' = [sending EXCEPT ![u] = [at |-> "done"]]
    /\ UNCHANGED <<kept, attached, removing, strategy, mode, ms, sentAt, unlinked, trouble>>

\* Fault: the name of a file is made of the ticket and its own name only.
StoreByName(u) ==
    LET t == sending[u].ticket IN
    /\ sending[u].at = "checked"
    /\ strategy' = GetStrategy
    /\ sending' = [sending EXCEPT ![u] =
         [at |-> "stored", ticket |-> t, key |-> IF GetStrategy = "local" THEN <<t, 0>> ELSE u]]
    /\ object' = object \cup {<<GetStrategy, sending'[u].key>>}
    /\ sentAt' = [sentAt EXCEPT ![u] = IF GetStrategy = "local" THEN <<t, ms>> ELSE Never]
    /\ UNCHANGED <<kept, attached, removing, mode, ms, unlinked, lost, trouble>>

\* What uploadFile calls the file, or the object in the bucket.
NewKey(u) == IF GetStrategy = "local" THEN <<sending[u].ticket, ms>> ELSE u

\* uploadFile: a file of the same name written in the same millisecond is
\* overwritten.
Store(u) ==
    LET t == sending[u].ticket IN
    /\ sending[u].at = "checked"
    /\ strategy' = GetStrategy
    /\ sending' = [sending EXCEPT ![u] = [at |-> "stored", ticket |-> t, key |-> NewKey(u)]]
    /\ object' = object \cup {<<GetStrategy, sending'[u].key>>}
    /\ sentAt' = [sentAt EXCEPT ![u] = IF GetStrategy = "local" THEN <<t, ms>> ELSE Never]
    /\ UNCHANGED <<kept, attached, removing, mode, ms, unlinked, lost, trouble>>

\* When the call fails the bucket may have the object already, and the disk a
\* part of the file.
StoreFails(u) ==
    /\ sending[u].at = "checked"
    /\ strategy' = GetStrategy
    /\ \E left \in SUBSET {<<GetStrategy, NewKey(u)>>} :
        object' = object \cup left /\ lost' = lost \cup left
    /\ sending' = [sending EXCEPT ![u] = [at |-> "done"]]
    /\ UNCHANGED <<kept, attached, removing, mode, ms, sentAt, unlinked, trouble>>

\* The row is inserted with the provider and the key the storage answered.
InsertRow(u) ==
    /\ sending[u].at = "stored"
    /\ sending[u].ticket \in kept
    /\ attached' = Bound([ticket |-> sending[u].ticket, provider |-> strategy,
                          key |-> sending[u].key, announced |-> FALSE], attached, u)
    /\ sending' = [sending EXCEPT ![u] = [at |-> "done"]]
    /\ UNCHANGED <<kept, object, removing, strategy, mode, ms, sentAt, unlinked, lost, trouble>>

\* The insert fails, as it does when the ticket is gone: nothing takes the file
\* back.
InsertFails(u) ==
    /\ sending[u].at = "stored"
    /\ lost' = lost \cup {<<strategy, sending[u].key>>}
    /\ sending' = [sending EXCEPT ![u] = [at |-> "done"]]
    /\ UNCHANGED <<kept, attached, object, removing, strategy, mode, ms, sentAt, unlinked, trouble>>

----------------------------------------------------------------------------
(* remove *)

FindToRemove(u) ==
    /\ removing[u] = NoRemoval
    /\ u \in DOMAIN attached
    /\ removing' = [removing EXCEPT ![u] = [at |-> "found", row |-> attached[u]]]
    /\ UNCHANGED <<kept, attached, object, sending, strategy, mode, ms, sentAt, unlinked,
                   lost, trouble>>

\* The storage that is in use now deletes the key, whichever provider the row
\* names; the key is that of the row that was read.
DeleteFile(u) ==
    /\ removing[u].at = "found"
    /\ strategy' = GetStrategy
    /\ object' = object \ {<<GetStrategy, removing[u].row.key>>}
    /\ lost' = IF removing[u].row.provider = GetStrategy THEN lost
               ELSE lost \cup {ObjectOf(removing[u].row)}
    /\ unlinked' = unlinked \cup {u}
    /\ removing' = [removing EXCEPT ![u].at = "unlinked"]
    /\ UNCHANGED <<kept, attached, sending, mode, ms, sentAt, trouble>>

\* An error of the storage is logged, and the removal goes on.
DeleteFileFails(u) ==
    /\ removing[u].at = "found"
    /\ trouble < MaxTrouble
    /\ trouble' = trouble + 1
    /\ strategy' = GetStrategy
    /\ lost' = lost \cup {ObjectOf(removing[u].row)}
    /\ removing' = [removing EXCEPT ![u].at = "unlinked"]
    /\ UNCHANGED <<kept, attached, object, sending, mode, ms, sentAt, unlinked>>

\* The row is deleted; if it has gone meanwhile the query fails.
DeleteRow(u) ==
    /\ removing[u].at = "unlinked"
    /\ attached' = Dropped(attached, {u})
    /\ removing' = [removing EXCEPT ![u] = NoRemoval]
    /\ UNCHANGED <<kept, object, sending, strategy, mode, ms, sentAt, unlinked, lost, trouble>>

----------------------------------------------------------------------------
\* The reset of the demo deletes rows of attachments and their tickets in one
\* transaction; the files stay.
ResetDemoAttachments ==
    /\ trouble < MaxTrouble
    /\ trouble' = trouble + 1
    /\ lost' = lost \cup {ObjectOf(attached[u]) : u \in DOMAIN attached}
    /\ attached' = [u \in {} |-> NotSent]
    /\ kept' = {}
    /\ UNCHANGED <<object, sending, removing, strategy, mode, ms, sentAt, unlinked>>

\* The process ends, and what was in flight with it; the strategy is chosen
\* anew, by a configuration a setup may have written meanwhile.
Restart(m) ==
    /\ trouble < MaxTrouble
    /\ trouble' = trouble + 1
    /\ lost' = lost \cup {<<strategy, sending[u].key>> :
                            u \in {v \in Uploads : sending[v].at = "stored"}}
    /\ sending' = [u \in Uploads |->
                    IF sending[u].at \in {"new", "awaited"} THEN sending[u] ELSE [at |-> "done"]]
    /\ removing' = [u \in Uploads |-> NoRemoval]
    /\ strategy' = "none"
    /\ mode' = m
    /\ UNCHANGED <<kept, attached, object, ms, sentAt, unlinked>>

TickMs ==
    /\ ms < LastMs
    /\ ms' = ms + 1
    /\ UNCHANGED <<kept, attached, object, sending, removing, strategy, mode, sentAt, unlinked,
                   lost, trouble>>

AttachmentsNext ==
    \/ \E u \in Uploads, t \in Ticketed : Check(u, t)
    \/ \E u \in Uploads :
        \/ Announce(u) \/ ClientPuts(u) \/ Store(u) \/ StoreFails(u) \/ InsertRow(u) \/ InsertFails(u)
        \/ FindToRemove(u) \/ DeleteFile(u) \/ DeleteFileFails(u) \/ DeleteRow(u)
    \/ ResetDemoAttachments
    \/ \E m \in Providers : Restart(m)
    \/ TickMs

AttachmentsSpec == AttachmentsInit /\ [][AttachmentsNext]_attachmentVars

----------------------------------------------------------------------------
Sending ==
    {NotSent, [at |-> "done"], [at |-> "awaited"]} \cup [at : {"checked"}, ticket : Ticketed]
    \cup [at : {"stored"}, ticket : Ticketed, key : Keys]

AttachmentsTypeOK ==
    /\ kept \subseteq Ticketed
    /\ DOMAIN attached \subseteq Uploads
    /\ \A u \in DOMAIN attached : attached[u] \in AttachmentRows
    /\ object \subseteq Objects
    /\ \A u \in Uploads : sending[u] \in Sending
    /\ \A u \in Uploads : removing[u] \in
         {NoRemoval} \cup [at : {"found", "unlinked"}, row : AttachmentRows]
    /\ strategy \in Providers \cup {"none"}
    /\ mode \in Providers
    /\ ms \in 0 .. LastMs
    /\ \A u \in Uploads : sentAt[u] \in FileKeys \cup {Never}
    /\ unlinked \subseteq Uploads
    /\ lost \subseteq Objects
    /\ trouble \in 0 .. MaxTrouble

\* Two uploads of one name that were named in one millisecond.
ShareName(u, v) == u # v /\ sentAt[u] # Never /\ sentAt[u] = sentAt[v]

\* An attachment that was uploaded has its file, until a removal of its own
\* deletes it: neither the removal of another attachment nor a reset, a restart
\* or another storage takes it, unless the two were named in one millisecond.
RowsHaveFiles ==
    \A u \in DOMAIN attached :
        attached[u].announced \/ u \in unlinked \/ ObjectOf(attached[u]) \in object
            \/ \E v \in Uploads : ShareName(u, v)

\* A file no row names belongs to an upload in flight, or was left by a failed
\* write, insert or deletion, a client, a restart, a change of the storage or a reset: a removal
\* that is cut short leaves a row that can be removed again, never a file that
\* nobody can name.
FilesHaveRows ==
    \A o \in object :
        \/ \E u \in DOMAIN attached : ObjectOf(attached[u]) = o
        \/ \E u \in Uploads : sending[u].at = "stored" /\ <<strategy, sending[u].key>> = o
        \/ o \in lost

\* Rows and files agree but for what the steps between them leave.
FilesMatchRows == RowsHaveFiles /\ FilesHaveRows
=============================================================================
