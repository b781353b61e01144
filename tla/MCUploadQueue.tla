---------------------------- MODULE MCUploadQueue ----------------------------
(***************************************************************************)
(* A page with a heavy hard anchor (B10), a heavy silicon pack that may    *)
(* pass a halt, and a light soft pack; two cycle ids.                      *)
(***************************************************************************)
EXTENDS UploadQueue, TLC

CycleSymmetry == Permutations(Sessions)

MCMaxAttempts == [b \in Batches |-> 2]

plain == [status |-> 200, accepted |-> TRUE, halt |-> "no", softClosed |-> FALSE,
          code |-> "", closes |-> FALSE, purged |-> FALSE, terminal |-> FALSE,
          cool |-> FALSE, silicon |-> "unset", hasB10 |-> FALSE, b10xOpen |-> FALSE,
          received |-> FALSE, final |-> FALSE, stop |-> FALSE, coverage |-> FALSE,
          ack |-> "stored", cold |-> "absent"]

(* Stored; taken but not yet in cold storage; the cycle is gone; the       *)
(* schedule is done; a cool phase without silicon evidence.                *)
MCReplies == {plain,
              [plain EXCEPT !.cold = "no"],
              [plain EXCEPT !.status = 410, !.code = "session_expired", !.ack = "none"],
              [plain EXCEPT !.final = TRUE],
              [plain EXCEPT !.cool = TRUE, !.silicon = "no"]}
=============================================================================
