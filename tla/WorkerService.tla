---------------------------- MODULE WorkerService ----------------------------
(***************************************************************************)
(* What a worker promises to its clients, without daemons, files and       *)
(* phases: it does one job at a time, and when it has answered "Success"   *)
(* what it holds is of that very job, or of jobs of which a process has    *)
(* survived a kill; or the job is one that strayed.                        *)
(*                                                                         *)
(* WorkerServiceSpec.tla makes a specification of it, which EnvDaemon.tla  *)
(* implements for one worker; TrainingEnv.tla is built on its actions.     *)
(***************************************************************************)
CONSTANTS Workers, Targets, Tags, None

(* What a file of measurements holds: one measurement, or there is no file. *)
Measurements == {{}} \cup {{i} : i \in Tags}

JobRecords == [tag : Tags, target : Targets]

VARIABLES
    serving,    \* [Workers -> the job being done, or None]
    profile,    \* [Workers -> [Targets -> the jobs measured in the file]]
    feats,      \* [Workers -> the jobs whose features are in the file]
    left,       \* [Workers -> the jobs of which a process survived a kill]
    strayed     \* [Workers -> BOOLEAN], whether "make clean" failed for the
                \* job, or it was answered "Success" without a PyActor

ServiceInit ==
    /\ serving = [w \in Workers |-> None]
    /\ profile = [w \in Workers |-> [t \in Targets |-> {}]]
    /\ feats = [w \in Workers |-> {}]
    /\ left = [w \in Workers |-> {}]
    /\ strayed = [w \in Workers |-> FALSE]

Take(w, j) ==
    /\ serving[w] = None
    /\ serving' = [serving EXCEPT ![w] = j]
    /\ strayed' = [strayed EXCEPT ![w] = FALSE]
    /\ UNCHANGED <<profile, feats, left>>

(* The job replaces results by its own, or removes them, in any order. *)
Work(w) ==
    /\ serving[w] # None
    /\ LET j == serving[w] IN
        /\ \E m \in {profile[w][j.target], {}, {j.tag}} :
              profile' = [profile EXCEPT ![w][j.target] = m]
        /\ \E f \in {feats[w], {}, feats[w] \cup {j.tag}} :
              feats' = [feats EXCEPT ![w] = f]
    /\ UNCHANGED <<serving, left, strayed>>

(***************************************************************************)
(* "make clean" fails: the executable that is measured may be one that     *)
(* another job has built.                                                  *)
(***************************************************************************)
Stray(w) ==
    /\ serving[w] # None
    /\ strayed' = [strayed EXCEPT ![w] = TRUE]
    /\ \E m \in Measurements \cup {profile[w][serving[w].target]} :
          profile' = [profile EXCEPT ![w][serving[w].target] = m]
    /\ UNCHANGED <<serving, feats, left>>

(* The jobs whose results may be there at the end of the one being done. *)
Own(w) == {serving[w].tag} \cup {j.tag : j \in left[w]}

(* The job is over; one of its processes may have survived a kill. *)
Over(w) ==
    /\ serving[w] # None
    /\ serving' = [serving EXCEPT ![w] = None]
    /\ left' \in {left, [left EXCEPT ![w] = @ \cup {serving[w]}]}
    /\ UNCHANGED <<profile, feats>>

(* Bug variant: "Success" with the results of an earlier job in place. *)
Finish_Stale(w, status) == Over(w) /\ UNCHANGED strayed

(* "Failed", or a connection closed without an answer, promise nothing. *)
Finish(w, status) ==
    /\ Over(w)
    /\ IF status = "Success"
       THEN /\ feats[w] \subseteq Own(w)
            /\ \E s \in {strayed[w], TRUE} :
                  /\ s \/ profile[w][serving[w].target] \subseteq Own(w)
                  /\ strayed' = [strayed EXCEPT ![w] = s]
       ELSE strayed' = [strayed EXCEPT ![w] = FALSE]

(* A process that survived goes on, with the results of its own job. *)
Late(w) ==
    /\ \E j \in left[w] :
          \/ /\ profile' = [profile EXCEPT ![w][j.target] = {j.tag}]
             /\ UNCHANGED feats
          \/ /\ feats' = [feats EXCEPT ![w] = @ \cup {j.tag}]
             /\ UNCHANGED profile
    /\ UNCHANGED <<serving, left, strayed>>

(* rm -rf /tmp/PredictionDaemon *)
Wipe(w) ==
    /\ profile' = [profile EXCEPT ![w] = [t \in Targets |-> {}]]
    /\ feats' = [feats EXCEPT ![w] = {}]
    /\ UNCHANGED <<serving, left, strayed>>

===============================================================================
