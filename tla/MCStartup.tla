---- MODULE MCStartup ----
(* An instance of DaemonStartup for TLC: two tables, two added columns and an *)
(* index; the release's own version is 1.                                  *)
EXTENDS DaemonStartup

CONSTANTS daemon, cli

Create1(name) == [kind |-> "create", name |-> name]
Column(name) == [kind |-> "column", name |-> name]
MCDdl ==
  <<Create1("events"), Create1("incidents"),
    Column("trace_id"), Column("ingest_source_id"), Create1("index")>>

====
