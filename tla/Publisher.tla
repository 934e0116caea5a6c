------------------------------ MODULE Publisher ------------------------------
(***************************************************************************)
(* RedisMQPublisher.PublishMessageAsync(queueName, message): a MULTI that  *)
(* writes the metadata, the XADD, and a MULTI that stores the entry id.    *)
(* An exception runs the catch block, which erases the metadata if the     *)
(* first MULTI had returned.  Each message is published by one call.       *)
(***************************************************************************)
EXTENDS RedisStore

VARIABLES
    pub,    \* where the publish call of each message stands
    pubId   \* the entry id its XADD returned

publisherVars == <<pub, pubId>>

PubStates == {"new", "meta", "added", "done", "cleanup", "failed", "crashed"}

InitPublisher ==
    /\ pub = [m \in Msgs |-> "new"]
    /\ pubId = [m \in Msgs |-> 0]

Goto(m, pc) == pub' = [pub EXCEPT ![m] = pc]

-----------------------------------------------------------------------------

\* The first MULTI: the message is indexed and its hash created, with Id "".
WriteMeta(m) ==
    /\ published' = published \union {m}
    /\ Reindex({m}, {}, "Pending")
    /\ hash' = [hash EXCEPT ![m] = [type |-> "Common", status |-> "Pending",
                                    id |-> 0, execs |-> 0, err |-> FALSE]]
    /\ UNCHANGED <<streamVars, settled, pubId>>

PublishMeta(m) ==
    /\ pub[m] = "new"
    /\ WriteMeta(m)
    /\ Goto(m, "meta")
    /\ NoFault

PublishXAdd(m) ==
    /\ pub[m] = "meta"
    /\ XAdd(m)
    /\ pubId' = [pubId EXCEPT ![m] = Len(log) + 1]
    /\ Goto(m, "added")
    /\ NoFault
    /\ UNCHANGED metaVars

\* The second MULTI: HSET Id, whatever the field holds by now.
WriteId(m) ==
    /\ hash' = [hash EXCEPT ![m].id = pubId[m]]
    /\ UNCHANGED <<streamVars, index, published, settled, pubId>>

PublishFinish(m) ==
    /\ pub[m] = "added"
    /\ WriteId(m)
    /\ Goto(m, "done")
    /\ NoFault

-----------------------------------------------------------------------------

\* The first MULTI throws, before or after Redis executed it: metadataCreated
\* is still false, so the catch block erases nothing.
PublishMetaError(m) ==
    /\ pub[m] = "new"
    /\ Fault("PublishError")
    /\ \/ WriteMeta(m)
       \/ UNCHANGED <<streamVars, metaVars, pubId>>
    /\ Goto(m, "failed")

\* The XADD throws, before or after Redis executed it.
PublishXAddError(m) ==
    /\ pub[m] = "meta"
    /\ Fault("PublishError")
    /\ \/ XAdd(m)
       \/ UNCHANGED streamVars
    /\ Goto(m, "cleanup")
    /\ UNCHANGED <<metaVars, pubId>>

\* The second MULTI throws, before or after Redis executed it.
PublishFinishError(m) ==
    /\ pub[m] = "added"
    /\ Fault("PublishError")
    /\ \/ WriteId(m)
       \/ UNCHANGED <<streamVars, metaVars, pubId>>
    /\ Goto(m, "cleanup")

\* The pipeline of the catch block: ZREM from PublishMessageIdSet and from
\* Pending, DEL of the hash.  The stream is left alone.
PublishCleanup(m) ==
    /\ pub[m] = "cleanup"
    /\ published' = published \ {m}
    /\ index' = [index EXCEPT !["Pending"] = @ \ {m}]
    /\ hash' = [hash EXCEPT ![m] = NoHash]
    /\ Goto(m, "failed")
    /\ NoFault
    /\ UNCHANGED <<streamVars, settled, pubId>>

\* The process dies inside the call (or the pipeline of the catch block throws).
PublisherCrash(m) ==
    /\ pub[m] \in {"meta", "added", "cleanup"}
    /\ Fault("PublisherCrash")
    /\ Goto(m, "crashed")
    /\ UNCHANGED <<streamVars, metaVars, pubId>>

PublisherStep(m) ==
    \/ PublishMeta(m) \/ PublishXAdd(m) \/ PublishFinish(m) \/ PublishCleanup(m)

PublisherFault(m) ==
    \/ PublishMetaError(m) \/ PublishXAddError(m) \/ PublishFinishError(m)
    \/ PublisherCrash(m)

PublisherTypeOK ==
    /\ pub \in [Msgs -> PubStates]
    /\ pubId \in [Msgs -> Nat]
=============================================================================
