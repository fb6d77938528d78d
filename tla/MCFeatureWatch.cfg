SPECIFICATION WatchSpec
CONSTANTS
    FixThreshold = 1
    MaxFailures = 1
PROPERTY ApprovalFollowsReview
