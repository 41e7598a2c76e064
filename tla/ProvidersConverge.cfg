CONSTANTS
  Kinds = {"redpanda", "s3", "postgres", "mysql", "debezium", "jdbcsink", "s3sink", "s3source", "proxy", "wireguard", "prometheus", "grafana", "trino", "openlineage", "redpandaSet", "s3Set", "nessie", "ingress", "ingressKube", "container"}
  Item = {"a", "b"}
  Lone = "a"
  Retain = {"b"}
  MaxEdits = 2
  MaxFaults = 1
  MaxMeddling = 1
  MaxMishaps = 1
SPECIFICATION Spec
INVARIANTS
  ApplyConverges
  NothingLeftBehind
PROPERTIES
  DataKept
