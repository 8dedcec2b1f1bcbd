\* An entry whose task cannot be replayed is taken out of the list.
CONSTANTS
  s1 = s1
  Replayable = {"documents.ingest"}
  Mails = {"emails.send"}
  Scripts = {s1}
  MaxEntries = 2
  MaxGivenUp = 2
  MaxReplays = 1
SPECIFICATION Spec
PROPERTIES
  NothingIsDiscarded
CHECK_DEADLOCK FALSE
