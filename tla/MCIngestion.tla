------------------------------ MODULE MCIngestion ------------------------------
EXTENDS Ingestion

MCLists == {Parts, {Main}}
MCForms == {{}, {"hash"}, {"id", "hash", "span"}}
MCWhole == {Parts}
=============================================================================
