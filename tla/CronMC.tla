-------------------------------- MODULE CronMC --------------------------------
(* Schedules of the jobs of Cron, for TLC. *)
EXTENDS Cron

Once == [kind |-> "at", deletes |-> FALSE]
OnceAndGone == [kind |-> "at", deletes |-> TRUE]
Recurring == [kind |-> "every", deletes |-> FALSE]
Daily == [kind |-> "cron", deletes |-> FALSE]

\* Two jobs and one event, or one job, which is the last, and two events.
Files == {(1 :> OnceAndGone) @@ (2 :> Recurring), 3 :> Once}
Added == {Daily}

\* One job that a start finds missed, and one that becomes due meanwhile.
Missing == {(1 :> Once) @@ (2 :> Recurring)}

\* One job whose run may outlive its marker, on a longer clock.
OneRecurring == {3 :> Recurring}
=============================================================================
