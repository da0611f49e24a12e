------------------------------ MODULE MCDomains ------------------------------
(* Instances of Domains for TLC *)
EXTENDS Domains, TLC

Symmetric == Permutations(Domains) \cup Permutations(Conns)

\* States that differ only in which handle holds what are the same; so are those
\* that differ in what is never read: what is shown to the user of a mapping, the
\* record of a handle only a connection refers to, that an ended one was cancelled.
HandleSeen(h) == <<handle[h].port, handle[h].enabled, handle[h].listens>>

TableSeen == [d \in Domains |-> IF d \in Mapped THEN HandleSeen(table[d]) ELSE <<>>]

JobSeen ==
  CASE stage = "insert" -> <<job.kind, job.domain, job.record, job.todo, HandleSeen(job.new)>>
    [] stage = "clean" -> <<job.kind, job.domain, job.record>>
    [] OTHER -> job

ViaSeen ==
  [c \in Conns |->
     IF via[c] = NoHandle THEN <<>>
     ELSE <<{d \in Domains : table[d] = via[c]}, InHand(via[c]), handle[via[c]].listens,
            {e \in Conns : via[e] = via[c]}>>]

Seen ==
  <<TableSeen, listener, hosts, file, listings, spoiled, stage, JobSeen,
    conn, ViaSeen, {c \in cancelled : conn[c] \notin {"closed", "cut"}}, gauge, torn>>
=============================================================================
