CONSTANTS
    Owners = {o1, o2}
    Revs = {1, 2, 3, 4, 5, 6, 7, 8}
    TTL = 2
    RenewEvery = 1
    Slack = 0
    MaxFaults = 1
    None = None
SPECIFICATION FairSpec
INVARIANTS TypeOK AtMostOneWorker FreshWorkerOwnsRecord
PROPERTIES RecordOutlivesWork LeadershipRecurs
CHECK_DEADLOCK FALSE
