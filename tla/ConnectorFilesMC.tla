-------------------------- MODULE ConnectorFilesMC --------------------------
(* ConnectorFiles on small registries. *)
EXTENDS ConnectorFiles

\* One artifact of each ownership mode.
OneOfEach == <<"AGENTS.md", ".gitignore", "SKILL.md", "config.json", ".env", "queue.jsonl">>

ModeOfEach == [a \in {OneOfEach[n] : n \in 1..6} |->
                 CASE a = "AGENTS.md"   -> "section"
                   [] a = ".gitignore"  -> "line"
                   [] a = "SKILL.md"    -> "whole"
                   [] a = "config.json" -> "keys"
                   [] a = ".env"        -> "env"
                   [] a = "queue.jsonl" -> "runtime"]
=============================================================================
