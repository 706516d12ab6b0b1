SPECIFICATION Spec
CONSTANTS
    Foci = {"path", "vfs", "fat32", "sysfs", "devfs", "procfs", "listing"}

    
    
    
    
PROPERTIES
    DescriptorsStable
CHECK_DEADLOCK FALSE
