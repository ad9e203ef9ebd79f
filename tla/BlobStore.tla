------------------------------ MODULE BlobStore ------------------------------
(***************************************************************************)
(* What clients and builds may rely on of the blobs of COPY steps: a hash  *)
(* shows nothing or one whole upload, sent by a client this process has    *)
(* invited; and a build takes each hash it wants in one instant, whatever  *)
(* replaces the blob afterwards.  FileUploads, with its .part files,       *)
(* renames, open files and extractions, is shown to implement it.          *)
(***************************************************************************)
EXTENDS Naturals

CONSTANTS
  Hashes,      \* the hashes of blobs
  Contents,    \* what may be sent under a hash
  Uploaders,   \* uploads that may be under way at once
  BuildIds     \* the builds

VARIABLES
  process,   \* how many processes there were before this one
  asking,    \* hashes that were not there when somebody asked for them
  invited,   \* <<hash, process>>: whom a process has invited to send what
  sending,   \* per uploader: {} or the <<hash, content>> it sends
  stored,    \* per hash: {} or {what it shows}
  wanted,    \* per build: the hashes it needs
  taken,     \* per build and hash: {} or {what it has taken}
  reading,   \* the builds docker reads the context of
  spoilt     \* <<build, hash>>: the taking or the leaving of it stopped half way

vars == <<process, asking, invited, sending, stored, wanted, taken, reading, spoilt>>

Untaken == [h \in Hashes |-> {}]

Init ==
  /\ process = 0 /\ asking = {} /\ invited = {}
  /\ sending = [u \in Uploaders |-> {}]
  /\ stored = [h \in Hashes |-> {}]
  /\ wanted = [b \in BuildIds |-> {}]
  /\ taken = [b \in BuildIds |-> Untaken]
  /\ reading = {} /\ spoilt = {}

Ask(h) ==
  /\ stored[h] = {}
  /\ asking' = asking \cup {h}
  /\ UNCHANGED <<process, invited, sending, stored, wanted, taken, reading, spoilt>>

(* Who asked while it was missing may send it when it is no longer. *)
Invite(h) ==
  /\ h \in asking
  /\ asking' \in {asking, asking \ {h}}
  /\ invited' = invited \cup {<<h, process>>}
  /\ UNCHANGED <<process, sending, stored, wanted, taken, reading, spoilt>>

Send(u, h, c) ==
  /\ sending[u] = {} /\ <<h, process>> \in invited
  /\ sending' = [sending EXCEPT ![u] = {<<h, c>>}]
  /\ UNCHANGED <<process, asking, invited, stored, wanted, taken, reading, spoilt>>

Publish(u, h, c) ==
  /\ sending[u] = {<<h, c>>}
  /\ sending' = [sending EXCEPT ![u] = {}]
  /\ stored' = [stored EXCEPT ![h] = {c}]
  /\ UNCHANGED <<process, asking, invited, wanted, taken, reading, spoilt>>

GiveUp(u) ==
  /\ sending' = [sending EXCEPT ![u] = {}]
  /\ UNCHANGED <<process, asking, invited, stored, wanted, taken, reading, spoilt>>

Want(b, hashes) ==
  /\ wanted[b] = {} /\ hashes # {}
  /\ wanted' = [wanted EXCEPT ![b] = hashes]
  /\ UNCHANGED <<process, asking, invited, sending, stored, taken, reading, spoilt>>

Take(b, h) ==
  /\ h \in wanted[b] /\ taken[b][h] = {} /\ <<b, h>> \notin spoilt
  /\ stored[h] # {}
  /\ taken' = [taken EXCEPT ![b][h] = stored[h]]
  /\ UNCHANGED <<process, asking, invited, sending, stored, wanted, reading, spoilt>>

(* Nothing is missing; but half of a hash is, where it is spoilt. *)
Read(b) ==
  /\ wanted[b] # {}
  /\ \A h \in wanted[b] : taken[b][h] # {} \/ <<b, h>> \in spoilt
  /\ reading' = reading \cup {b}
  /\ UNCHANGED <<process, asking, invited, sending, stored, wanted, taken, spoilt>>

(* Builds end before they are read: each may lose one hash in the taking.   *)
Breaks(ended) ==
  \E lost \in SUBSET {pair \in ended \X Hashes :
                      pair[2] \in wanted[pair[1]] /\ pair[1] \notin reading} :
    /\ taken' = [b \in BuildIds |-> [h \in Hashes |->
                   IF <<b, h>> \in lost THEN {} ELSE taken[b][h]]]
    /\ spoilt \subseteq spoilt' /\ spoilt' \subseteq spoilt \cup lost

Finish(b) ==
  /\ Breaks({b})
  /\ wanted' = [wanted EXCEPT ![b] = {}]
  /\ reading' = reading \ {b}
  /\ UNCHANGED <<process, asking, invited, sending, stored>>

(* What a build that is over has taken is thrown away, hash by hash, or     *)
(* half of it, for good.                                                    *)
Discard(b, h) ==
  /\ wanted[b] = {}
  /\ taken' = [taken EXCEPT ![b][h] = {}]
  /\ spoilt' \in {spoilt \ {<<b, h>>}, spoilt \cup {<<b, h>>}}
  /\ UNCHANGED <<process, asking, invited, sending, stored, wanted, reading>>

(* Blobs stay, and what builds have taken. *)
Die ==
  /\ process' = process + 1
  /\ asking' = {}
  /\ sending' = [u \in Uploaders |-> {}]
  /\ Breaks(BuildIds)
  /\ wanted' = [b \in BuildIds |-> {}]
  /\ reading' = {}
  /\ UNCHANGED <<invited, stored>>

Next ==
  \/ \E h \in Hashes : Ask(h) \/ Invite(h)
  \/ \E u \in Uploaders :
       \/ GiveUp(u)
       \/ \E h \in Hashes, c \in Contents : Send(u, h, c) \/ Publish(u, h, c)
  \/ \E b \in BuildIds :
       \/ \E hashes \in SUBSET Hashes : Want(b, hashes)
       \/ \E h \in Hashes : Take(b, h) \/ Discard(b, h)
       \/ Read(b) \/ Finish(b)
  \/ Die

Spec == Init /\ [][Next]_vars
=============================================================================
