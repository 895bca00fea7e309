CONSTANTS
    Numbers <- MCNumbers
    Documents <- MCDocuments
    ServerValues <- MCServerValues
SPECIFICATION Spec
INVARIANTS
    
    ServerValuesAreRead
