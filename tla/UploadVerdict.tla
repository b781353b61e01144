---------------------------- MODULE UploadVerdict ----------------------------
(***************************************************************************)
(* How the browser's upload queue (src/probe/fe/upload_queue.js) reads an  *)
(* ingest answer: is the material landed (applyAck), is the whole cycle    *)
(* over (hardFinalComplete, parseTerminal)?                                *)
(*                                                                         *)
(* An answer is a record of what those functions look at.  Fields the code *)
(* reads from several places of the body with "or" are one flag here:      *)
(*   status     HTTP status                                                *)
(*   accepted   FALSE for accepted:false / identity_accepted:false         *)
(*   halt       "body": halt_uploads at top level; "nested": only in the   *)
(*              status or analysis sub-object; "no"                        *)
(*   softClosed body.cycle_closed or cycle_probe_status.http_soft_close    *)
(*   code       body.code / expired_reason                                 *)
(*   closes     the cycle is reported complete or closing                  *)
(*   purged     cycle_status = "purged"                                    *)
(*   terminal   analysis_terminal                                          *)
(*   cool       phase cool, business_state cool, or skip flags with them   *)
(*   silicon    cool_silicon_ok: "yes", "no", "unset"; hasB10 its has_b10  *)
(*   b10xOpen   silicon deepen still required, missing or planned          *)
(*   received   B10 is in the server's received list                       *)
(*   final      brain_schedule_final / final_analysis_ok / hard_complete   *)
(*   stop, coverage   stop_probe and coverage_complete                     *)
(*   ack        the ack's type; without one, what the flags duplicate,     *)
(*              cold_skipped_unchanged, merged and conflict make of it     *)
(*   cold       cold_written, "no" also for a durability state that is not *)
(*              durable; "absent" when the answer does not say             *)
(***************************************************************************)
EXTENDS Naturals

ExpiredCodes == {"cycle_purged", "incomplete_ttl", "session_expired"}
Codes == ExpiredCodes \cup {"", "cycle_complete"}

Reply == [status : Nat, accepted : BOOLEAN, halt : {"no", "nested", "body"},
          softClosed : BOOLEAN, code : Codes, closes : BOOLEAN,
          purged : BOOLEAN, terminal : BOOLEAN, cool : BOOLEAN,
          silicon : {"yes", "no", "unset"}, hasB10 : BOOLEAN,
          b10xOpen : BOOLEAN, received : BOOLEAN, final : BOOLEAN,
          stop : BOOLEAN, coverage : BOOLEAN,
          ack : {"stored", "duplicate", "merged", "conflict", "none"},
          cold : {"yes", "no", "absent"}]

(* Final = the primary residual landed (the server lists it or this page   *)
(* had it acknowledged) and the schedule is done, closed or terminal, with *)
(* no silicon deepen left open.                                            *)
hardFinalComplete(j, b10Ok) ==
    /\ ~j.b10xOpen
    /\ j.received \/ b10Ok
    /\ \/ j.final
       \/ j.terminal
       \/ j.stop /\ j.coverage
       \/ j.closes

NotTerminal == [terminal |-> FALSE, soft |-> FALSE, code |-> ""]

Terminal(soft, code) == [terminal |-> TRUE, soft |-> soft, code |-> code]

orElse(code, default) == IF code = "" THEN default ELSE code

softClose(j) ==
    /\ j.status = 200
    /\ \/ ~j.accepted
       \/ /\ j.halt = "body"
          /\ j.softClosed \/ j.code # ""

(* The branches in the order of the code; each early return is an arm.     *)
parseTerminal(j, b10Ok) ==
    IF softClose(j) THEN Terminal(TRUE, orElse(j.code, "cycle_complete"))
    ELSE IF j.status = 410 THEN Terminal(FALSE, orElse(j.code, "session_expired"))
    ELSE IF hardFinalComplete(j, b10Ok)
         THEN Terminal(FALSE, orElse(j.code, "identity_final_complete"))
    ELSE IF j.halt # "no"
         THEN IF j.purged
              THEN Terminal(FALSE, orElse(j.code, IF j.closes THEN "cycle_complete"
                                                              ELSE "purged"))
              ELSE NotTerminal
    ELSE IF j.purged THEN Terminal(FALSE, "cycle_purged")
    ELSE IF j.closes \/ j.terminal THEN NotTerminal
    ELSE IF j.cool
         THEN IF j.silicon # "no" /\ (j.silicon = "yes" \/ j.hasB10)
              THEN Terminal(FALSE, orElse(j.code, "cool"))
              ELSE NotTerminal
    ELSE IF j.code \in ExpiredCodes THEN Terminal(FALSE, j.code)
    ELSE NotTerminal

(* A stored, duplicate or merged answer counts as landed unless it denies  *)
(* that cold storage has the material: an answer that does not say counts. *)
applyAck(j) ==
    [conflict |-> j.ack = "conflict",
     verified |-> j.ack \in {"stored", "duplicate", "merged"} /\ j.cold # "no"]

=============================================================================
