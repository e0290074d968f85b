---- MODULE MCCiv ----
EXTENDS CIV
====
