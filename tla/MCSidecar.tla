---- MODULE MCSidecar ----
EXTENDS Sidecar
====
