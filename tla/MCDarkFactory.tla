---------------------------- MODULE MCDarkFactory ----------------------------
EXTENDS DarkFactory

\* A comment on an issue in a MicroVM: commits that deserve to fail one gate, and waits for
\* the security bot that time out.
MCVerdicts == [substrate |-> "lambda", comments |-> 1, defects |-> {{}, {"holdout"}, {"security"}},
               forms |-> {"review"}, faults |-> {"deadline", "coder_failure", "vm_lost", "security_timeout"}]

\* The same with a bot that acknowledges first and may answer with a comment.
MCForms == [substrate |-> "lambda", comments |-> 1, defects |-> {{}, {"security"}},
            forms |-> {"ack", "review", "comment"}, faults |-> {"devops_timeout"}]

\* Two comments, and coders that outlive their runs, on either substrate.
MCKata == [substrate |-> "kata", comments |-> 2, defects |-> {{}},
           forms |-> {}, faults |-> {"deadline", "coder_failure", "no_change"}]
MCLambda == [substrate |-> "lambda", comments |-> 2, defects |-> {{}},
             forms |-> {}, faults |-> {"deadline", "vm_lost", "security_error"}]

\* The merge alone, with nothing failing.
MCMerge == [substrate |-> "lambda", comments |-> 1, defects |-> {{}}, forms |-> {"review"}, faults |-> {}]

MCWorlds == {MCVerdicts, MCForms, MCKata, MCLambda}

MCMergeWorlds == {MCMerge}

\* Where no bot reviews, approvals come to nothing: the coders' runs are followed up to the first.
MCUnapproved == world.forms = {} => approved = {}

=============================================================================
