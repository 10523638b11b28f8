---------------------------- MODULE MCFlowReport ----------------------------
(* Small instances of FlowReport for TLC; a cfg picks one value per constant. *)
EXTENDS FlowReport, TLC

CONSTANTS f1, f2, t1, t2, s1, s2, code

Failure == {"critical", "error"}
All == {"critical", "error", "warning", "info"}

Plain == [type |-> "slack_alert", on |-> Failure, cats |-> {}, onCascade |-> FALSE,
          records |-> FALSE, files |-> FALSE, names |-> FALSE]
GithubCode == [Plain EXCEPT !.type = "github_issue", !.files = TRUE, !.cats = {code}]
Telegram == [Plain EXCEPT !.type = "telegram_alert", !.names = TRUE,
                          !.on = {"critical", "error", "warning"}]
S3 == [Plain EXCEPT !.type = "s3_alert", !.on = All, !.records = TRUE,
                    !.onCascade = TRUE]
Warnings == [S3 EXCEPT !.on = {"warning"}]

\* Telegram is configured first, so the sort has something to do.
TelegramCode == [f \in Flow |-> <<Telegram, GithubCode>>]
OnlyTelegram == [f \in Flow |-> <<Telegram>>]
Mixed == [f \in Flow |-> IF f = f1 THEN <<Telegram>> ELSE <<Warnings, Plain>>]

MCAlertActions == {"slack_alert", "email_alert", "s3_alert", "telegram_alert"}
One == [a \in MCAlertActions \cup {"github_issue"} |-> 1]

OneFlow == [t \in Thread |-> f1]
TwoFlows == [t \in Thread |-> IF t = t1 THEN f1 ELSE f2]
NoDependency == [f \in Flow |-> {}]
Downstream == [f \in Flow |-> IF f = f1 THEN {} ELSE {f1}]

Error(s) == [api |-> "report", sev |-> "error", sig |-> s]
Warning(s) == [api |-> "report", sev |-> "warning", sig |-> s]
Keyed(v, s) == [api |-> "event", sev |-> v, sig |-> s]
Event(v) == [api |-> "event", sev |-> v, sig |-> NoSig]
Success == [api |-> "success", sev |-> "info", sig |-> NoSig]

EveryApi == {Error(s1), Warning(s1), Keyed("error", s1), Event("warning"), Success}
Storm == {Keyed("warning", s1)}
Upstream == {Error(s1), Error(s2), Warning(s2)}

\* Threads of one flow differ only by name.
ThreadSymmetry == Permutations(Thread)
=============================================================================
