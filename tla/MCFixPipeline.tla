---------------------------- MODULE MCFixPipeline -----------------------------
EXTENDS FixPipeline

MCIssue == [meta |-> TRUE, category |-> "CODE", credentials |-> FALSE,
            confidence |-> "high", files |-> {"a", "b"}, id |-> TRUE]
MCIssues ==
  {MCIssue, [MCIssue EXCEPT !.meta = FALSE], [MCIssue EXCEPT !.confidence = "malformed"],
   [MCIssue EXCEPT !.category = "EXTERNAL"], [MCIssue EXCEPT !.files = {"x"}]}
MCConfigs ==
  {[provider |-> "router", model_group |-> TRUE, base_url |-> FALSE, api_key |-> FALSE],
   [provider |-> "openai_compat", model_group |-> FALSE, base_url |-> TRUE, api_key |-> FALSE]}
MCPatches ==
  {[git |-> {"a"}, headers |-> {"a"}], [git |-> {"a"}, headers |-> {"a", "b"}],
   [git |-> {"b"}, headers |-> {"b", "x"}]}
MCTestOf == [p \in Paths |-> "x"]
MCResidues == {{}, {"a", "x"}}
===============================================================================
